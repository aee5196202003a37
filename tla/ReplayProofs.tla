------------------------------ MODULE ReplayProofs ------------------------------
(***************************************************************************)
(* Proofs about SessionReplay for any bounds, flags, inputs and sizes:     *)
(* types, that nothing is reported without a reason, that the replay and   *)
(* its session agree on the mode, that an abort and a pause stand, that    *)
(* outside error mode no recorded node is lost, and that every payload can *)
(* be replayed.                                                            *)
(*                                                                         *)
(* A callback composes methods on worlds.  Each method gets a lemma that   *)
(* says what it preserves and what it leaves alone; a step of the system   *)
(* is a chain of such lemmas, a fold of calls a set closed under one.      *)
(***************************************************************************)
EXTENDS SessionReplay, SequenceTheorems, TLAPS

Buffer == [nodes : Seq(Node), hasMeta : BOOLEAN, hasSnap : BOOLEAN]
Triggers == {"none", "preload", "api", "switchToFull", "resume", "initialize"}
Mode == Modes \cup {Unset}
Call == [trigger : {"initialize", "api", "switchToFull"}, drains : BOOLEAN]
PreloadWaiter == [for : {"preload"}, call : [trigger : Mode, drains : BOOLEAN]]
AggregateWaiter == [for : {"aggregate"}, call : Call]
ApiWaiter == [for : {"api"}]
Waiter == PreloadWaiter \cup AggregateWaiter \cup ApiWaiter
NodeItem == [type : {"node"}, node : Node, isCheckout : BOOLEAN]
OtherItem == [type : {"error", "pause"}]
Item == NodeItem \cup OtherItem

InstType ==
  [recorder : {"none", "loading", "ready", "failed"}, waiting : Seq(Waiter),
   errorNoticed : BOOLEAN]
AggType ==
  [loaded : BOOLEAN, refused : BOOLEAN, recorder : BOOLEAN, mode : Mode,
   initialized : BOOLEAN, blocked : BOOLEAN, entitled : BOOLEAN, flagged : BOOLEAN,
   staged : BOOLEAN, drain : {"none", "running", "done"}, isRetrying : BOOLEAN,
   compressor : {"none", "loading", "ready"}, waiting : Seq(Call)]
RecType ==
  [canRecord : BOOLEAN, isErrorMode : BOOLEAN, trigger : Triggers, backlog : Buffer,
   events : Buffer, lastMeta : Node \cup {NoNode}, seenMeta : BOOLEAN, seenSnap : BOOLEAN,
   retryPayload : Buffer]
PageType ==
  [isRecording : BOOLEAN, rrweb : BOOLEAN, visible : BOOLEAN, mode : Mode, queue : Seq(Item)]
NetType ==
  [emitted : 0..MaxNodes, inflight : Seq(Buffer), sent : SUBSET Buffer, reason : BOOLEAN,
   paused : BOOLEAN]
Worlds == [inst : InstType, agg : AggType, rec : RecType, page : PageType, net : NetType]

\* What most methods leave alone in a component
SameAgg(a, b) ==
  /\ a.loaded = b.loaded /\ a.refused = b.refused /\ a.recorder = b.recorder
  /\ a.initialized = b.initialized /\ a.entitled = b.entitled /\ a.flagged = b.flagged
  /\ a.staged = b.staged /\ a.drain = b.drain /\ a.isRetrying = b.isRetrying
  /\ a.compressor = b.compressor /\ a.waiting = b.waiting
SameRec(r, s) ==
  /\ r.canRecord = s.canRecord /\ r.isErrorMode = s.isErrorMode /\ r.trigger = s.trigger

LEMMA Constants ==
  /\ EmptyBuffer \in Buffer /\ NoPayload \in Buffer /\ <<>> \in Seq(Node)
  /\ "off" \in Mode /\ "full" \in Mode /\ "error" \in Mode /\ Unset \in Mode
<1>1. <<>> \in Seq(Node)
  OBVIOUS
<1>2. QED BY <1>1 DEF EmptyBuffer, NoPayload, Buffer, Mode, Modes, Unset

-----------------------------------------------------------------------------
(***************************************************************************)
(* The methods that write a field or two                                   *)
(***************************************************************************)
Writes(w, v) ==
  /\ v \in Worlds /\ v.inst = w.inst /\ v.agg = w.agg /\ v.rec = w.rec /\ v.net = w.net
  /\ v.page.mode = w.agg.mode /\ v.page.isRecording = w.page.isRecording
  /\ v.page.rrweb = w.page.rrweb /\ v.page.visible = w.page.visible
  /\ v.page.queue = w.page.queue

LEMMA WriteModeWrites == ASSUME NEW w \in Worlds PROVE Writes(w, WriteMode(w))
<1> DEFINE p == [w.page EXCEPT !.mode = w.agg.mode]
<1>1. p \in PageType /\ p.mode = w.agg.mode /\ p.isRecording = w.page.isRecording
      /\ p.rrweb = w.page.rrweb /\ p.visible = w.page.visible /\ p.queue = w.page.queue
  BY DEF Worlds, PageType, AggType
<1>2. WriteMode(w) = [w EXCEPT !.page = p]
  BY DEF WriteMode, Worlds
<1> HIDE DEF p
<1>3. QED BY <1>1, <1>2 DEF Writes, Worlds

Stops(w, v) ==
  /\ v \in Worlds /\ v.inst = w.inst /\ v.agg = w.agg /\ v.rec = w.rec /\ v.net = w.net
  /\ v.page.mode = w.page.mode /\ (v.page.isRecording => w.page.isRecording)
  /\ (v.page.rrweb => w.page.rrweb) /\ v.page.visible = w.page.visible
  /\ v.page.queue = w.page.queue

LEMMA StopStops == ASSUME NEW w \in Worlds PROVE Stops(w, Stop(w))
<1> DEFINE p == [w.page EXCEPT !.isRecording = FALSE, !.rrweb = FALSE]
<1>1. p \in PageType /\ p.mode = w.page.mode /\ p.isRecording = FALSE
      /\ p.rrweb = FALSE /\ p.visible = w.page.visible /\ p.queue = w.page.queue
  BY DEF Worlds, PageType
<1>2. Stop(w) = [w EXCEPT !.page = p]
  BY DEF Stop, Worlds
<1> HIDE DEF p
<1>3. QED BY <1>1, <1>2 DEF Stops, Worlds

LEMMA StopKnownStops == ASSUME NEW w \in Worlds PROVE Stops(w, StopKnown(w))
<1>1. Stops(w, w)
  BY DEF Stops
<1>2. QED BY <1>1, StopStops DEF StopKnown

\* A change of the two buffers
Refills(w, v) ==
  /\ v \in Worlds /\ v.inst = w.inst /\ v.agg = w.agg /\ v.page = w.page /\ v.net = w.net
  /\ SameRec(v.rec, w.rec) /\ v.rec.lastMeta = w.rec.lastMeta
  /\ v.rec.seenMeta = w.rec.seenMeta /\ v.rec.seenSnap = w.rec.seenSnap
  /\ v.rec.retryPayload = w.rec.retryPayload

LEMMA ClearBufferRefills ==
  ASSUME NEW w \in Worlds
  PROVE  /\ Refills(w, ClearBuffer(w))
         /\ ClearBuffer(w).rec.backlog = IF w.rec.isErrorMode THEN w.rec.events ELSE EmptyBuffer
         /\ ClearBuffer(w).rec.events = EmptyBuffer
<1> DEFINE b == IF w.rec.isErrorMode THEN w.rec.events ELSE EmptyBuffer
           r == [w.rec EXCEPT !.backlog = b, !.events = EmptyBuffer]
<1>1. b \in Buffer
  BY Constants DEF Worlds, RecType
<1>2. ClearBuffer(w) = [w EXCEPT !.rec = r]
  BY DEF ClearBuffer, Worlds, RecType
<1> HIDE DEF b
<1>3. r \in RecType /\ SameRec(r, w.rec) /\ r.lastMeta = w.rec.lastMeta
      /\ r.seenMeta = w.rec.seenMeta /\ r.seenSnap = w.rec.seenSnap
      /\ r.retryPayload = w.rec.retryPayload /\ r.backlog = b /\ r.events = EmptyBuffer
  BY <1>1, Constants DEF Worlds, RecType, SameRec
<1> HIDE DEF r
<1>4. QED BY <1>2, <1>3 DEF Refills, Worlds, b

LEMMA NodesTyped ==
  ASSUME NEW w \in Worlds
  PROVE  AllNodes(w) \in Seq(Node) /\ w.rec.backlog.nodes \in Seq(Node)
         /\ w.rec.events.nodes \in Seq(Node)
<1>1. w.rec.backlog.nodes \in Seq(Node) /\ w.rec.events.nodes \in Seq(Node)
  BY DEF Worlds, RecType, Buffer
<1>2. QED BY <1>1 DEF AllNodes

LEMMA ClearAllRefills ==
  ASSUME NEW w \in Worlds PROVE Refills(w, ClearAll(w)) /\ AllNodes(ClearAll(w)) = <<>>
<1>1. CASE AllNodes(w) = <<>>
  BY <1>1 DEF ClearAll, Refills, SameRec
<1>2. CASE AllNodes(w) # <<>>
  <2> DEFINE r == [w.rec EXCEPT !.backlog = EmptyBuffer, !.events = EmptyBuffer]
  <2>1. r \in RecType /\ SameRec(r, w.rec) /\ r.lastMeta = w.rec.lastMeta
        /\ r.seenMeta = w.rec.seenMeta /\ r.seenSnap = w.rec.seenSnap
        /\ r.retryPayload = w.rec.retryPayload /\ r.backlog = EmptyBuffer /\ r.events = EmptyBuffer
    BY Constants DEF Worlds, RecType, SameRec
  <2>2. ClearAll(w) = [w EXCEPT !.rec = r]
    BY <1>2 DEF ClearAll, Worlds, RecType
  <2> HIDE DEF r
  <2>3. Refills(w, ClearAll(w)) /\ ClearAll(w).rec = r
    BY <2>1, <2>2 DEF Refills, Worlds
  <2>4. EmptyBuffer.nodes = <<>> /\ <<>> \o <<>> = <<>>
    BY DEF EmptyBuffer
  <2>5. QED BY <2>1, <2>3, <2>4 DEF AllNodes
<1>3. QED BY <1>1, <1>2

-----------------------------------------------------------------------------
(***************************************************************************)
(* What holds of every world a method leaves behind.  Nothing was sent, no *)
(* full mode is on, nobody waits with an API call or an error, before      *)
(* something called for a report; nothing was sent and no compressor was   *)
(* asked for before the account was known to be entitled.                  *)
(***************************************************************************)
CallsFor(w) == {c \in Call : c.trigger = "api" => w.net.reason}
WaitersFor(w) ==
  {x \in Waiter : /\ x.for = "api" => w.net.reason
                  /\ x.for = "aggregate" => w.agg.entitled /\ x.call \in CallsFor(w)}
ItemsFor(w) == {x \in Item : x.type = "error" => w.net.reason}

Reasoned(w) ==
  /\ ~w.net.reason => /\ w.net.sent = {} /\ w.agg.mode # "full" /\ w.page.mode # "full"
                      /\ ~w.inst.errorNoticed /\ w.rec.trigger # "api"
  /\ ~w.agg.entitled => w.net.sent = {} /\ w.agg.compressor = "none"
  /\ w.net.sent = {} => /\ w.net.inflight = <<>> /\ ~w.agg.isRetrying
                        /\ w.rec.retryPayload = NoPayload
Ordered(w) ==
  /\ w.agg.entitled => w.agg.flagged
  /\ w.agg.flagged => w.agg.loaded
  /\ w.agg.recorder => w.inst.recorder = "ready"
  /\ w.inst.waiting # <<>> => w.inst.recorder = "loading"
  /\ w.agg.waiting # <<>> => w.agg.compressor = "loading" /\ w.agg.recorder
Filled(w) ==
  /\ w.agg.drain = "none" => AllNodes(w) = <<>>
  /\ \A p \in w.net.sent : p.nodes # <<>>
  /\ w.rec.retryPayload # NoPayload => w.rec.retryPayload.nodes # <<>>
Waits(w) ==
  /\ w.inst.waiting \in Seq(WaitersFor(w))
  /\ w.agg.waiting \in Seq(CallsFor(w))
  /\ w.page.queue \in Seq(ItemsFor(w))
Core(w) == Reasoned(w) /\ Ordered(w) /\ Filled(w) /\ Waits(w)

\* The mode of the replay and the mode of its session
Agreed(w) ==
  /\ w.agg.entitled => w.agg.initialized
  /\ w.agg.entitled /\ w.agg.recorder /\ ~w.agg.blocked /\ w.agg.waiting = <<>>
       => w.agg.mode = w.page.mode
  /\ w.net.paused /\ w.agg.mode = "off" => w.page.mode \in {"off", Unset}

\* Between two worlds: an abort stands, and a node that was buffered or sent is so
\* later, unless it is a meta node or the replay is aborted.
Quiet(w, v) ==
  w.agg.blocked => /\ v.agg.blocked /\ v.net.sent = w.net.sent
                   /\ AllNodes(v) = AllNodes(w) \/ AllNodes(v) = <<>>
InNodes(nodes, x) == \E i \in DOMAIN nodes : nodes[i] = x
Carried(w, x) == InNodes(AllNodes(w), x) \/ \E p \in w.net.sent : InNodes(p.nodes, x)
Keeps(w, v) ==
  v.agg.blocked \/ \A x \in Node : x.kind # "meta" /\ Carried(w, x) => Carried(v, x)

\* What storing and harvesting do, which may end in an abort
Records(w, v) ==
  /\ v \in Worlds /\ v.inst = w.inst
  /\ SameAgg(v.agg, w.agg) /\ SameRec(v.rec, w.rec)
  /\ \/ v.agg.mode = w.agg.mode /\ v.agg.blocked = w.agg.blocked /\ v.page.mode = w.page.mode
     \/ v.agg.mode = "off" /\ v.agg.blocked /\ v.page.mode = "off"
  /\ (v.page.isRecording => w.page.isRecording) /\ (v.page.rrweb => w.page.rrweb)
  /\ v.page.visible = w.page.visible
  /\ v.net.reason = w.net.reason /\ v.net.paused = w.net.paused
  /\ Quiet(w, v)
  /\ Core(w) => Core(v)

LEMMA RecordsNothing == ASSUME NEW w \in Worlds PROVE Records(w, w) /\ Keeps(w, w)
BY DEF Records, SameAgg, SameRec, Quiet, Keeps

LEMMA RecordsCompose ==
  ASSUME NEW u, NEW w, NEW v, Records(u, w), Records(w, v) PROVE Records(u, v)
BY DEF Records, SameAgg, SameRec, Quiet

LEMMA KeepsCompose ==
  ASSUME NEW u, NEW w, NEW v, Keeps(u, w), Keeps(w, v), w.agg.blocked => v.agg.blocked
  PROVE  Keeps(u, v)
BY DEF Keeps

LEMMA RecordsAgree ==
  ASSUME NEW w, NEW v, Records(w, v), Agreed(w) PROVE Agreed(v)
BY DEF Records, SameAgg, Agreed, Unset

LEMMA ForSame ==
  ASSUME NEW w, NEW v, v.net.reason = w.net.reason, v.agg.entitled = w.agg.entitled
  PROVE  CallsFor(v) = CallsFor(w) /\ WaitersFor(v) = WaitersFor(w) /\ ItemsFor(v) = ItemsFor(w)
<1>1. CallsFor(v) = CallsFor(w) /\ ItemsFor(v) = ItemsFor(w)
  BY DEF CallsFor, ItemsFor
<1>2. QED BY <1>1 DEF WaitersFor

\* abort() in the fields it leaves
Aborts(w, v) ==
  /\ v \in Worlds /\ v.inst = w.inst /\ v.net = w.net
  /\ SameAgg(v.agg, w.agg) /\ v.agg.blocked /\ v.agg.mode = "off"
  /\ SameRec(v.rec, w.rec) /\ v.rec.retryPayload = w.rec.retryPayload
  /\ v.page.mode = "off" /\ (v.page.isRecording => w.page.isRecording)
  /\ (v.page.rrweb => w.page.rrweb) /\ v.page.visible = w.page.visible
  /\ v.page.queue = w.page.queue
  /\ AllNodes(v) = AllNodes(w) \/ AllNodes(v) = <<>>

LEMMA AbortAborts == ASSUME NEW w \in Worlds PROVE Aborts(w, Abort(w))
<1> DEFINE a == [w.agg EXCEPT !.blocked = TRUE, !.mode = "off"]
           u == [w EXCEPT !.agg = a]
           t == StopKnown(u)
           v == WriteMode(t)
<1>1. a \in AggType /\ SameAgg(a, w.agg) /\ a.blocked /\ a.mode = "off"
  BY Constants DEF Worlds, AggType, SameAgg
<1>2. [w EXCEPT !.agg.blocked = TRUE, !.agg.mode = "off"] = u
  BY DEF Worlds, AggType
<1>3. Abort(w) = IF w.agg.recorder THEN ClearAll(v) ELSE v
  BY <1>2 DEF Abort
<1> HIDE DEF a
<1>4. u \in Worlds /\ u.inst = w.inst /\ u.net = w.net /\ u.agg = a /\ u.rec = w.rec
      /\ u.page = w.page
  BY <1>1 DEF Worlds
<1> HIDE DEF u
<1>5. Stops(u, t)
  BY <1>4, StopKnownStops
<1> HIDE DEF t
<1>6. Writes(t, v)
  BY <1>5, WriteModeWrites DEF Stops
<1> HIDE DEF v
<1>7. /\ v \in Worlds /\ v.inst = w.inst /\ v.net = w.net /\ v.agg = a /\ v.rec = w.rec
      /\ v.page.mode = "off" /\ (v.page.isRecording => w.page.isRecording)
      /\ (v.page.rrweb => w.page.rrweb) /\ v.page.visible = w.page.visible
      /\ v.page.queue = w.page.queue
  BY <1>1, <1>4, <1>5, <1>6 DEF Stops, Writes
<1>8. AllNodes(v) = AllNodes(w)
  BY <1>7 DEF AllNodes
<1>9. CASE w.agg.recorder
  <2>1. Refills(v, ClearAll(v)) /\ AllNodes(ClearAll(v)) = <<>>
    BY <1>7, ClearAllRefills
  <2>2. QED BY <1>1, <1>3, <1>7, <1>9, <2>1 DEF Aborts, Refills, SameRec
<1>10. CASE ~w.agg.recorder
  BY <1>1, <1>3, <1>7, <1>8, <1>10 DEF Aborts, SameRec
<1>11. QED BY <1>9, <1>10

LEMMA AbortRecords ==
  ASSUME NEW w \in Worlds PROVE Records(w, Abort(w)) /\ Keeps(w, Abort(w))
<1> DEFINE v == Abort(w)
<1>1. Aborts(w, v)
  BY AbortAborts
<1> HIDE DEF v
<1>2. Quiet(w, v) /\ Keeps(w, v)
  BY <1>1 DEF Aborts, Quiet, Keeps
<1>3. ASSUME Core(w) PROVE Core(v)
  <2>1. v.net.reason = w.net.reason /\ v.agg.entitled = w.agg.entitled
    BY <1>1 DEF Aborts, SameAgg
  <2>2. Reasoned(v)
    BY <1>1, <1>3 DEF Aborts, Core, Reasoned, SameAgg, SameRec
  <2>3. Ordered(v)
    BY <1>1, <1>3 DEF Aborts, Core, Ordered, SameAgg
  <2>4. Filled(v)
    BY <1>1, <1>3 DEF Aborts, Core, Filled, SameAgg
  <2>5. Waits(v)
    <3>1. CallsFor(v) = CallsFor(w) /\ WaitersFor(v) = WaitersFor(w) /\ ItemsFor(v) = ItemsFor(w)
      BY <2>1, ForSame
    <3>2. v.inst = w.inst /\ v.agg.waiting = w.agg.waiting /\ v.page.queue = w.page.queue
      BY <1>1 DEF Aborts, SameAgg
    <3>3. QED BY <1>3, <3>1, <3>2 DEF Core, Waits
  <2>6. QED BY <2>2, <2>3, <2>4, <2>5 DEF Core
<1>4. QED BY <1>1, <1>2, <1>3 DEF Aborts, Records, v
-----------------------------------------------------------------------------
(***************************************************************************)
(* Harvesting                                                              *)
(***************************************************************************)
Holds(w, c) ==
  /\ c.payload \in Buffer /\ c.lastMeta \in Node \cup {NoNode}
  /\ \A x \in Node : x.kind # "meta" /\ InNodes(AllNodes(w), x) => InNodes(c.payload.nodes, x)

\* A payload has every node that was buffered, but for a trailing meta node.
LEMMA ContentsHold ==
  ASSUME NEW w \in Worlds, AllNodes(w) # <<>> PROVE Holds(w, Contents(w))
<1> DEFINE all   == AllNodes(w)
           lacks == all[1].kind = "snap" /\ w.rec.lastMeta # NoNode
           led   == IF lacks THEN <<w.rec.lastMeta>> \o all ELSE all
           holds == led[Len(led)].kind = "meta"
           body  == IF holds THEN SubSeq(led, 1, Len(led) - 1) ELSE led
           meta  == IF holds THEN Has(body, "meta")
                    ELSE lacks \/ w.rec.backlog.hasMeta \/ w.rec.events.hasMeta
           snap  == w.rec.backlog.hasSnap \/ w.rec.events.hasSnap
           last  == IF holds THEN led[Len(led)] ELSE IF lacks THEN NoNode ELSE w.rec.lastMeta
<1>1. Contents(w) = [lastMeta |-> last,
                     payload |-> [nodes |-> body, hasMeta |-> meta, hasSnap |-> snap]]
  BY DEF Contents
<1>2. all \in Seq(Node) /\ all # <<>> /\ w.rec.lastMeta \in Node \cup {NoNode}
  BY NodesTyped DEF Worlds, RecType
<1>3. meta \in BOOLEAN /\ snap \in BOOLEAN
  <2>1. lacks \in BOOLEAN /\ holds \in BOOLEAN /\ Has(body, "meta") \in BOOLEAN
    <3> HIDE DEF body
    <3>1. QED BY DEF Has
  <2>2. /\ w.rec.backlog.hasMeta \in BOOLEAN /\ w.rec.events.hasMeta \in BOOLEAN
        /\ w.rec.backlog.hasSnap \in BOOLEAN /\ w.rec.events.hasSnap \in BOOLEAN
    BY DEF Worlds, RecType, Buffer
  <2> HIDE DEF lacks, holds, body
  <2>3. QED BY <2>1, <2>2
<1> HIDE DEF all, meta, snap
<1>4. led \in Seq(Node) /\ led # <<>>
  <2>1. CASE lacks
    <3>1. w.rec.lastMeta \in Node
      BY <1>2, <2>1
    <3>2. QED BY <1>2, <2>1, <3>1
  <2>2. CASE ~lacks
    BY <1>2, <2>2
  <2>3. QED BY <2>1, <2>2
<1>5. \A x \in Node : InNodes(all, x) => InNodes(led, x)
  <2> SUFFICES ASSUME NEW x \in Node, NEW i \in DOMAIN all, all[i] = x PROVE InNodes(led, x)
    BY DEF InNodes
  <2>1. CASE lacks
    <3>1. w.rec.lastMeta \in Node
      BY <1>2, <2>1
    <3>2. i + 1 \in DOMAIN led /\ led[i + 1] = all[i]
      BY <1>2, <2>1, <3>1
    <3>3. QED BY <3>2 DEF InNodes
  <2>2. CASE ~lacks
    BY <2>2 DEF InNodes
  <2>3. QED BY <2>1, <2>2
<1> HIDE DEF led, lacks
<1>6. led[Len(led)] \in Node
  BY <1>4
<1>7. body \in Seq(Node) /\ last \in Node \cup {NoNode}
  <2>1. SubSeq(led, 1, Len(led) - 1) \in Seq(Node)
    <3>1. Len(led) - 1 \in 0..Len(led) /\ \A i \in 1..(Len(led) - 1) : led[i] \in Node
      BY <1>4
    <3>2. QED BY <1>4, <3>1
  <2> HIDE DEF holds
  <2>2. QED BY <1>2, <1>4, <1>6, <2>1
<1>8. \A x \in Node : x.kind # "meta" /\ InNodes(led, x) => InNodes(body, x)
  <2> SUFFICES ASSUME NEW x \in Node, x.kind # "meta", NEW i \in DOMAIN led, led[i] = x
               PROVE  InNodes(body, x)
    BY DEF InNodes
  <2>1. CASE holds
    <3>1. i # Len(led)
      BY <2>1
    <3>2. i \in 1..(Len(led) - 1) /\ body = SubSeq(led, 1, Len(led) - 1)
      BY <1>4, <2>1, <3>1
    <3>3. i \in DOMAIN body /\ body[i] = led[i]
      BY <1>4, <3>2
    <3>4. QED BY <3>3 DEF InNodes
  <2>2. CASE ~holds
    BY <2>2 DEF InNodes
  <2>3. QED BY <2>1, <2>2
<1> HIDE DEF body, last, holds
<1>9. Contents(w).payload \in Buffer /\ Contents(w).lastMeta \in Node \cup {NoNode}
      /\ Contents(w).payload.nodes = body
  BY <1>1, <1>3, <1>7 DEF Buffer
<1>10. QED BY <1>5, <1>8, <1>9 DEF Holds, all

Sends(w, p, v) ==
  /\ v \in Worlds /\ v.inst = w.inst /\ v.agg = w.agg /\ v.rec = w.rec /\ v.page = w.page
  /\ v.net.sent = w.net.sent \cup {p} /\ v.net.reason = w.net.reason
  /\ v.net.paused = w.net.paused /\ v.net.emitted = w.net.emitted

LEMMA SendSends ==
  ASSUME NEW w \in Worlds, NEW p \in Buffer, NEW final PROVE Sends(w, p, Send(w, p, final))
<1> DEFINE s == w.net.sent \cup {p}
           f == IF final THEN w.net.inflight ELSE Append(w.net.inflight, p)
           n == [w.net EXCEPT !.inflight = f, !.sent = s]
<1>1. s \in SUBSET Buffer /\ f \in Seq(Buffer)
  BY DEF Worlds, NetType
<1>2. Send(w, p, final) = [w EXCEPT !.net = n]
  BY DEF Send, Worlds, NetType
<1> HIDE DEF f, s
<1>3. /\ n \in NetType /\ n.sent = s /\ n.reason = w.net.reason /\ n.paused = w.net.paused
      /\ n.emitted = w.net.emitted
  BY <1>1 DEF Worlds, NetType
<1> HIDE DEF n
<1>4. QED BY <1>2, <1>3 DEF Sends, Worlds, s
\* What a harvest changes in the recorder
Rewrites(w, v) ==
  /\ v \in Worlds /\ v.inst = w.inst /\ v.agg = w.agg /\ v.page = w.page /\ v.net = w.net
  /\ SameRec(v.rec, w.rec)

HeldBack(w, m, v) ==
  /\ Rewrites(w, v) /\ AllNodes(v) = AllNodes(w) /\ v.rec.retryPayload = w.rec.retryPayload
  /\ v.rec.backlog = w.rec.backlog /\ v.rec.events = w.rec.events /\ v.rec.lastMeta = m

LEMMA HoldsBack ==
  ASSUME NEW w \in Worlds, NEW m \in Node \cup {NoNode}, NEW v, v = [w EXCEPT !.rec.lastMeta = m]
  PROVE  HeldBack(w, m, v)
<1> DEFINE r == [w.rec EXCEPT !.lastMeta = m]
<1>1. r \in RecType /\ SameRec(r, w.rec) /\ r.backlog = w.rec.backlog
      /\ r.events = w.rec.events /\ r.retryPayload = w.rec.retryPayload /\ r.lastMeta = m
  BY DEF Worlds, RecType, SameRec
<1>2. v = [w EXCEPT !.rec = r]
  BY DEF Worlds, RecType
<1> HIDE DEF r
<1>3. QED BY <1>1, <1>2 DEF HeldBack, Rewrites, Worlds, AllNodes

KeptForRetry(w, p, v) ==
  /\ Rewrites(w, v) /\ AllNodes(v) = AllNodes(w) /\ v.rec.retryPayload = p
  /\ v.rec.backlog = w.rec.backlog /\ v.rec.events = w.rec.events
  /\ v.rec.lastMeta = w.rec.lastMeta

LEMMA PayloadIsKept ==
  ASSUME NEW w \in Worlds, NEW p \in Buffer, NEW v, v = [w EXCEPT !.rec.retryPayload = p]
  PROVE  KeptForRetry(w, p, v)
<1> DEFINE r == [w.rec EXCEPT !.retryPayload = p]
<1>1. r \in RecType /\ SameRec(r, w.rec) /\ r.backlog = w.rec.backlog
      /\ r.events = w.rec.events /\ r.retryPayload = p /\ r.lastMeta = w.rec.lastMeta
  BY DEF Worlds, RecType, SameRec
<1>2. v = [w EXCEPT !.rec = r]
  BY DEF Worlds, RecType
<1> HIDE DEF r
<1>3. QED BY <1>1, <1>2 DEF KeptForRetry, Rewrites, Worlds, AllNodes

\* A rewrite of the recorder of a drained feature that is not blocked
LEMMA RewriteRecords ==
  ASSUME NEW w \in Worlds, NEW v, Rewrites(w, v), ~w.agg.blocked,
         Core(w) => w.agg.drain # "none" /\ v.rec.retryPayload = w.rec.retryPayload
  PROVE  Records(w, v)
<1>1. ASSUME Core(w) PROVE Core(v)
  <2>1. Reasoned(v)
    BY <1>1 DEF Rewrites, Core, Reasoned, SameRec
  <2>2. Ordered(v)
    BY <1>1 DEF Rewrites, Core, Ordered
  <2>3. Filled(v)
    BY <1>1 DEF Rewrites, Core, Filled
  <2>4. Waits(v)
    <3>1. CallsFor(v) = CallsFor(w) /\ WaitersFor(v) = WaitersFor(w) /\ ItemsFor(v) = ItemsFor(w)
      BY ForSame DEF Rewrites
    <3>2. QED BY <1>1, <3>1 DEF Core, Waits, Rewrites
  <2>5. QED BY <2>1, <2>2, <2>3, <2>4 DEF Core
<1>2. QED BY <1>1 DEF Rewrites, Records, SameAgg, Quiet

\* A payload leaves for a report that is due.
LEMMA SendRecords ==
  ASSUME NEW w \in Worlds, NEW p \in Buffer, NEW v, Sends(w, p, v), ~w.agg.blocked,
         Core(w) => p.nodes # <<>> /\ w.net.reason /\ w.agg.entitled
  PROVE  Records(w, v) /\ Keeps(w, v)
<1>0. AllNodes(v) = AllNodes(w)
  BY DEF Sends, AllNodes
<1>1. ASSUME Core(w) PROVE Core(v)
  <2>1. Reasoned(v)
    BY <1>1 DEF Sends, Core, Reasoned
  <2>2. Ordered(v)
    BY <1>1 DEF Sends, Core, Ordered
  <2>3. Filled(v)
    <3>1. \A q \in v.net.sent : q \in w.net.sent \/ q = p
      BY DEF Sends
    <3>2. QED BY <1>0, <1>1, <3>1 DEF Sends, Core, Filled
  <2>4. Waits(v)
    <3>1. CallsFor(v) = CallsFor(w) /\ WaitersFor(v) = WaitersFor(w) /\ ItemsFor(v) = ItemsFor(w)
      BY ForSame DEF Sends
    <3>2. QED BY <1>1, <3>1 DEF Core, Waits, Sends
  <2>5. QED BY <2>1, <2>2, <2>3, <2>4 DEF Core
<1>2. Keeps(w, v)
  BY <1>0 DEF Sends, Keeps, Carried
<1>3. QED BY <1>1, <1>2 DEF Sends, Records, SameAgg, SameRec, Quiet

LEMMA HarvestRecords ==
  ASSUME NEW w \in Worlds, NEW final
  PROVE  Records(w, Harvest(w, final)) /\ Keeps(w, Harvest(w, final))
<1> DEFINE done == Harvest(w, final)
<1>1. CASE w.agg.blocked \/ (~w.agg.isRetrying /\ ~MayHarvest(w))
  <2>1. done = w
    BY <1>1 DEF Harvest
  <2>2. QED BY <2>1, RecordsNothing
<1>2. CASE ~w.agg.blocked /\ w.agg.isRetrying
  <2>1. CASE w.rec.retryPayload = NoPayload
    <3>1. done = w
      BY <1>2, <2>1 DEF Harvest
    <3>2. QED BY <3>1, RecordsNothing
  <2>2. CASE w.rec.retryPayload # NoPayload
    <3> DEFINE p == w.rec.retryPayload
    <3>1. done = Send(w, p, final)
      BY <1>2, <2>2 DEF Harvest
    <3>2. p \in Buffer
      BY DEF Worlds, RecType
    <3>3. Sends(w, p, Send(w, p, final))
      BY <3>2, SendSends
    <3>4. Core(w) => p.nodes # <<>> /\ w.net.reason /\ w.agg.entitled
      <4>1. w.net.reason \in BOOLEAN /\ w.agg.entitled \in BOOLEAN
        BY DEF Worlds, NetType, AggType
      <4>2. QED BY <2>2, <4>1 DEF Core, Reasoned, Filled
    <3> HIDE DEF p
    <3>5. QED BY <1>2, <3>1, <3>2, <3>3, <3>4, SendRecords
  <2>3. QED BY <2>1, <2>2
<1>3. CASE ~w.agg.blocked /\ ~w.agg.isRetrying /\ MayHarvest(w)
  <2> DEFINE c == Contents(w)
             v == [w EXCEPT !.rec.lastMeta = c.lastMeta]
             u == ClearBuffer(v)
             t == [u EXCEPT !.rec.retryPayload = c.payload]
  <2>1. done = IF c.payload.nodes = <<>> THEN u
               ELSE IF Numbers(c.payload.nodes) \cap Huge # {} THEN Abort(v)
               ELSE Send(t, c.payload, final)
    BY <1>3 DEF Harvest
  <2>2. Holds(w, c)
    BY <1>3, ContentsHold DEF MayHarvest
  <2>3. Core(w) => w.agg.drain # "none" /\ w.net.reason /\ w.agg.entitled
    <3>1. w.net.reason \in BOOLEAN /\ w.agg.entitled \in BOOLEAN
          /\ w.agg.drain \in {"none", "running", "done"}
      BY DEF Worlds, NetType, AggType
    <3>2. QED BY <1>3, <3>1 DEF MayHarvest, Core, Reasoned, Filled
  <2> HIDE DEF c
  <2>v. v = [w EXCEPT !.rec.lastMeta = c.lastMeta] /\ c.lastMeta \in Node \cup {NoNode}
    BY <2>2 DEF Holds
  <2> HIDE DEF v
  <2>4. Rewrites(w, v) /\ AllNodes(v) = AllNodes(w) /\ v.rec.retryPayload = w.rec.retryPayload
    <3>1. HeldBack(w, c.lastMeta, v)
      BY <2>v, HoldsBack, Zenon
    <3>2. QED BY <3>1 DEF HeldBack
  <2>5. Records(w, v) /\ Keeps(w, v) /\ v \in Worlds /\ v.agg = w.agg /\ v.net = w.net
    <3>1. Records(w, v)
      BY <1>3, <2>3, <2>4, RewriteRecords
    <3>2. QED BY <2>4, <3>1 DEF Rewrites, Keeps, Carried
  <2>6. Refills(v, u) /\ Rewrites(v, u) /\ u.rec.retryPayload = v.rec.retryPayload
    <3>1. Refills(v, u)
      BY <2>5, ClearBufferRefills
    <3>2. QED BY <3>1 DEF Refills, Rewrites
  <2> HIDE DEF u
  <2>7. Records(w, u) /\ u \in Worlds /\ u.agg = w.agg /\ u.net = w.net
    <3>1. Core(v) => v.agg.drain # "none"
      BY <1>3, <2>4, <2>5 DEF Core, Filled, MayHarvest, Worlds, AggType, Rewrites
    <3>2. Records(v, u)
      BY <1>3, <2>5, <2>6, <3>1, RewriteRecords
    <3>3. QED BY <2>5, <2>6, <3>2, RecordsCompose DEF Rewrites
  <2>8. CASE c.payload.nodes = <<>>
    <3>1. done = u
      BY <2>1, <2>8
    <3>2. Keeps(w, u)
      <4>1. \A x \in Node : x.kind # "meta" => ~InNodes(AllNodes(w), x)
        <5>1. \A x : ~InNodes(c.payload.nodes, x)
          BY <2>8 DEF InNodes
        <5>2. QED BY <2>2, <5>1 DEF Holds
      <4>2. QED BY <2>7, <4>1 DEF Keeps, Carried
    <3>3. QED BY <2>7, <3>1, <3>2
  <2>9. CASE c.payload.nodes # <<>> /\ Numbers(c.payload.nodes) \cap Huge # {}
    <3>1. done = Abort(v)
      BY <2>1, <2>9
    <3>2. Records(v, Abort(v)) /\ Keeps(v, Abort(v))
      BY <2>5, AbortRecords
    <3>3. v.agg.blocked => Abort(v).agg.blocked
      BY <1>3, <2>5
    <3> DEFINE a == Abort(v)
    <3> HIDE DEF a
    <3>4. Records(w, a) /\ Keeps(w, a)
      BY <2>5, <3>2, <3>3, RecordsCompose, KeepsCompose DEF a
    <3>5. QED BY <3>1, <3>4 DEF a
  <2>10. CASE c.payload.nodes # <<>> /\ ~(Numbers(c.payload.nodes) \cap Huge # {})
    <3>1. done = Send(t, c.payload, final)
      BY <2>1, <2>10
    <3>t. t = [u EXCEPT !.rec.retryPayload = c.payload] /\ c.payload \in Buffer
      BY <2>2 DEF Holds
    <3> HIDE DEF t
    <3>2. Rewrites(u, t) /\ t.rec.retryPayload = c.payload /\ AllNodes(t) = AllNodes(u)
      <4>1. KeptForRetry(u, c.payload, t)
        BY <2>7, <3>t, PayloadIsKept, Zenon
      <4>2. QED BY <4>1 DEF KeptForRetry
    <3>3. t \in Worlds /\ t.agg = w.agg /\ t.net = w.net /\ c.payload \in Buffer
      BY <2>2, <2>7, <3>2 DEF Rewrites, Holds
    <3>4. Sends(t, c.payload, done)
      BY <3>1, <3>3, SendSends
    <3> HIDE DEF done
    <3>5. Keeps(w, done)
      <4>1. \A x \in Node : x.kind # "meta" /\ Carried(w, x) => Carried(done, x)
        <5>1. c.payload \in done.net.sent /\ w.net.sent \subseteq done.net.sent
          BY <3>3, <3>4 DEF Sends
        <5>2. QED BY <2>2, <5>1 DEF Holds, Carried
      <4>2. QED BY <4>1 DEF Keeps
    <3>6. ASSUME Core(w) PROVE Core(done)
      <4>1. Core(u) /\ AllNodes(done) = AllNodes(u) /\ done.rec = t.rec /\ done.agg = u.agg
        <5>1. Core(u)
          BY <2>7, <3>6 DEF Records
        <5>2. QED BY <3>2, <3>4, <5>1, <2>7, <3>3 DEF Sends, AllNodes
      <4>2. /\ done.inst = u.inst /\ done.page = u.page /\ SameRec(done.rec, u.rec)
            /\ done.net.reason = u.net.reason /\ done.net.paused = u.net.paused
            /\ done.net.sent = u.net.sent \cup {c.payload}
            /\ done.rec.retryPayload = c.payload
        BY <2>7, <3>2, <3>3, <3>4 DEF Sends, Rewrites
      <4>3. u.net.reason /\ u.agg.entitled
        BY <2>3, <2>7, <3>6
      <4> HIDE DEF u
      <4>4. Reasoned(done)
        BY <4>1, <4>2, <4>3 DEF Core, Reasoned
      <4>5. Ordered(done)
        BY <4>1, <4>2 DEF Core, Ordered
      <4>6. Filled(done)
        <5>1. \A q \in done.net.sent : q \in u.net.sent \/ q = c.payload
          BY <4>2
        <5>2. QED BY <2>10, <4>1, <4>2, <5>1 DEF Core, Filled
      <4>7. Waits(done)
        <5>1. /\ CallsFor(done) = CallsFor(u) /\ WaitersFor(done) = WaitersFor(u)
              /\ ItemsFor(done) = ItemsFor(u)
          BY <4>1, <4>2, ForSame
        <5>2. QED BY <4>1, <4>2, <5>1 DEF Core, Waits
      <4>8. QED BY <4>4, <4>5, <4>6, <4>7 DEF Core
    <3>7. Records(w, done)
      <4>1. /\ done \in Worlds /\ done.agg = w.agg /\ done.inst = t.inst /\ done.rec = t.rec
            /\ done.page = t.page /\ done.net.reason = t.net.reason
            /\ done.net.paused = t.net.paused
        BY <3>3, <3>4 DEF Sends
      <4>2. /\ t.inst = w.inst /\ SameRec(t.rec, w.rec) /\ t.page = w.page /\ t.net = w.net
        BY <2>4, <2>6, <3>2, <3>3 DEF Rewrites, SameRec
      <4>3. Quiet(w, done)
        BY <1>3 DEF Quiet
      <4>4. QED BY <3>6, <4>1, <4>2, <4>3 DEF Records, SameAgg
    <3>8. QED BY <3>5, <3>7 DEF done
  <2>11. QED BY <2>8, <2>9, <2>10
<1>4. QED BY <1>1, <1>2, <1>3
-----------------------------------------------------------------------------
(***************************************************************************)
(* Storing and emitting                                                    *)
(***************************************************************************)
\* A window is dropped only by a checkout in error mode.
Drops(w, isCheckout) == w.rec.isErrorMode /\ isCheckout

\* The node comes last.  A wipe makes the events the backlog first.
Adds(w, node, v) ==
  /\ v.rec.lastMeta = w.rec.lastMeta
  /\ \/ /\ v.rec.backlog = w.rec.backlog
        /\ v.rec.events.nodes = Append(w.rec.events.nodes, node)
     \/ /\ node.kind = "meta" /\ v.rec.backlog = w.rec.events
        /\ v.rec.events.nodes = Append(<<>>, node)

LEMMA StoredRewrites ==
  ASSUME NEW w \in Worlds, NEW node \in Node, NEW isCheckout \in BOOLEAN
  PROVE  /\ Rewrites(w, Stored(w, node, isCheckout))
         /\ Stored(w, node, isCheckout).rec.retryPayload = w.rec.retryPayload
         /\ ~Drops(w, isCheckout) => Keeps(w, Stored(w, node, isCheckout))
         /\ Adds(w, node, Stored(w, node, isCheckout))
<1> DEFINE v == IF WipesBuffer(w, node, isCheckout) THEN ClearBuffer(w) ELSE w
           meta == v.rec.events.hasMeta \/ (~v.rec.seenMeta /\ node.kind = "meta")
           snap == v.rec.events.hasSnap \/ (~v.rec.seenSnap /\ node.kind = "snap")
           nodes == Append(v.rec.events.nodes, node)
           b == [nodes |-> nodes, hasMeta |-> meta, hasSnap |-> snap]
           sm == v.rec.seenMeta \/ meta
           ss == v.rec.seenSnap \/ snap
           r == [v.rec EXCEPT !.events = b, !.seenMeta = sm, !.seenSnap = ss]
           u == Stored(w, node, isCheckout)
<1>1. /\ Refills(w, v) /\ (~Drops(w, isCheckout) => v = w)
      /\ \/ v = w
         \/ /\ node.kind = "meta" /\ v.rec.backlog = w.rec.events
            /\ v.rec.events.nodes = <<>>
  <2>1. Refills(w, w)
    BY DEF Refills, SameRec
  <2>2. QED BY <2>1, ClearBufferRefills DEF WipesBuffer, Drops, EmptyBuffer
<1>2. u = [v EXCEPT !.rec.events = [nodes |-> Append(@.nodes, node),
                                   hasMeta |-> meta, hasSnap |-> snap],
                   !.rec.seenMeta = @ \/ meta,
                   !.rec.seenSnap = @ \/ snap]
  BY DEF Stored
<1> HIDE DEF v, u
<1>3. v \in Worlds /\ v.rec.events.nodes \in Seq(Node)
  BY <1>1, NodesTyped DEF Refills
<1>4. u = [v EXCEPT !.rec = r]
  <2> HIDE DEF meta, snap
  <2>1. QED BY <1>2, <1>3 DEF Worlds, RecType, Buffer
<1>5. meta \in BOOLEAN /\ snap \in BOOLEAN /\ sm \in BOOLEAN /\ ss \in BOOLEAN
  OBVIOUS
<1>6. nodes \in Seq(Node)
  BY <1>3
<1> HIDE DEF meta, snap, sm, ss
<1>7. b \in Buffer
  <2> HIDE DEF nodes
  <2>1. QED BY <1>5, <1>6 DEF Buffer
<1>8. b.nodes = nodes
  OBVIOUS
<1> HIDE DEF b
<1>9. r \in RecType /\ SameRec(r, v.rec) /\ r.backlog = v.rec.backlog /\ r.events = b
      /\ r.lastMeta = v.rec.lastMeta /\ r.retryPayload = v.rec.retryPayload
  BY <1>3, <1>5, <1>7 DEF Worlds, RecType, SameRec
<1> HIDE DEF r
<1>10. Rewrites(v, u) /\ u.rec = r
  BY <1>3, <1>4, <1>9 DEF Rewrites, Worlds
<1>11. Rewrites(w, u) /\ u.rec.retryPayload = w.rec.retryPayload
  BY <1>1, <1>9, <1>10 DEF Rewrites, Refills, SameRec
<1>12. ASSUME ~Drops(w, isCheckout) PROVE Keeps(w, u)
  <2>1. v = w
    BY <1>1, <1>12
  <2> DEFINE back == w.rec.backlog.nodes
             old == w.rec.events.nodes
  <2>2. AllNodes(w) = back \o old /\ AllNodes(u) = back \o nodes /\ nodes = Append(old, node)
    BY <1>8, <1>9, <1>10, <2>1 DEF AllNodes
  <2>3. back \in Seq(Node) /\ old \in Seq(Node)
    BY NodesTyped
  <2> HIDE DEF back, old, nodes
  <2>4. back \o nodes = Append(back \o old, node) /\ back \o old \in Seq(Node)
    BY <2>2, <2>3
  <2>5. \A x \in Node : InNodes(AllNodes(w), x) => InNodes(AllNodes(u), x)
    <3> DEFINE s == back \o old
    <3> HIDE DEF s
    <3>1. \A i \in DOMAIN s : i \in DOMAIN Append(s, node) /\ Append(s, node)[i] = s[i]
      BY <2>4 DEF s
    <3>2. AllNodes(w) = s /\ AllNodes(u) = Append(s, node)
      BY <2>2, <2>4 DEF s
    <3>3. QED BY <3>1, <3>2 DEF InNodes
  <2>6. QED BY <1>11, <2>5 DEF Keeps, Carried, Rewrites
<1>13. Adds(w, node, u)
  BY <1>1, <1>8, <1>9, <1>10 DEF Adds, Refills
<1>14. QED BY <1>11, <1>12, <1>13 DEF u

LEMMA StoreRecords ==
  ASSUME NEW w \in Worlds, NEW node \in Node, NEW isCheckout \in BOOLEAN, w.agg.drain # "none"
  PROVE  /\ Records(w, Store(w, node, isCheckout))
         /\ ~Drops(w, isCheckout) => Keeps(w, Store(w, node, isCheckout))
<1>1. CASE w.agg.blocked
  <2>1. Store(w, node, isCheckout) = w
    BY <1>1 DEF Store
  <2>2. QED BY <2>1, RecordsNothing
<1>2. CASE ~w.agg.blocked
  <2> DEFINE v == Stored(w, node, isCheckout)
  <2>1. /\ Rewrites(w, v) /\ v.rec.retryPayload = w.rec.retryPayload
        /\ ~Drops(w, isCheckout) => Keeps(w, v)
    BY StoredRewrites
  <2>2. Store(w, node, isCheckout)
          = IF FillsPayload(v) /\ ~v.rec.isErrorMode THEN Harvest(v, FALSE) ELSE v
    BY <1>2 DEF Store
  <2> HIDE DEF v
  <2>3. Records(w, v) /\ v \in Worlds
    BY <1>2, <2>1, RewriteRecords DEF Rewrites
  <2>4. Records(v, Harvest(v, FALSE)) /\ Keeps(v, Harvest(v, FALSE))
    BY <2>3, HarvestRecords
  <2>5. ~v.agg.blocked
    BY <1>2, <2>1 DEF Rewrites
  <2> DEFINE h == Harvest(v, FALSE)
  <2> HIDE DEF h
  <2>6. Records(w, h) /\ (~Drops(w, isCheckout) => Keeps(w, h))
    BY <2>1, <2>3, <2>4, <2>5, RecordsCompose, KeepsCompose DEF h
  <2>7. QED BY <2>1, <2>2, <2>3, <2>6 DEF h
<1>3. QED BY <1>1, <1>2

\* A callback that changes neither the recorder nor what was sent
Numbered(w, v) ==
  /\ v \in Worlds /\ v.inst = w.inst /\ v.agg = w.agg /\ v.rec = w.rec
  /\ v.page.mode = w.page.mode /\ v.page.isRecording = w.page.isRecording
  /\ v.page.rrweb = w.page.rrweb /\ v.page.visible = w.page.visible
  /\ v.net.sent = w.net.sent /\ v.net.inflight = w.net.inflight
  /\ v.net.reason = w.net.reason /\ v.net.paused = w.net.paused
  /\ Core(w) => v.page.queue \in Seq(ItemsFor(w))

LEMMA NumberedRecords ==
  ASSUME NEW w \in Worlds, NEW v, Numbered(w, v) PROVE Records(w, v) /\ Keeps(w, v)
<1>1. AllNodes(v) = AllNodes(w)
  BY DEF Numbered, AllNodes
<1>2. ASSUME Core(w) PROVE Core(v)
  <2>1. Reasoned(v) /\ Ordered(v) /\ Filled(v)
    BY <1>1, <1>2 DEF Numbered, Core, Reasoned, Ordered, Filled
  <2>2. Waits(v)
    <3>1. CallsFor(v) = CallsFor(w) /\ WaitersFor(v) = WaitersFor(w) /\ ItemsFor(v) = ItemsFor(w)
      BY ForSame DEF Numbered
    <3>2. QED BY <1>2, <3>1 DEF Core, Waits, Numbered
  <2>3. QED BY <2>1, <2>2 DEF Core
<1>3. QED BY <1>1, <1>2 DEF Numbered, Records, SameAgg, SameRec, Quiet, Keeps, Carried

\* The node that rrweb emits, as it waits for the drain or goes to the recorder
NextNode(w, kind) == [n |-> w.net.emitted + 1, kind |-> kind]
NodeItemOf(node, isCheckout) == [type |-> "node", node |-> node, isCheckout |-> isCheckout]
Counted(w, v) == Numbered(w, v) /\ v.net.emitted = w.net.emitted + 1
Emits(w, node, isCheckout, d) ==
  /\ node \in Node
  /\ \/ /\ w.agg.drain = "done"
        /\ \E v : Counted(w, v) /\ v.page = w.page /\ d = Store(v, node, isCheckout)
     \/ /\ w.agg.drain # "done"
        /\ Counted(w, d) /\ d.page.queue = Append(w.page.queue, NodeItemOf(node, isCheckout))

LEMMA EmitEmits ==
  ASSUME NEW w \in Worlds, NEW kind \in {"meta", "snap", "incr"}, NEW isCheckout \in BOOLEAN,
         w.net.emitted # MaxNodes, ~w.agg.refused
  PROVE  Emits(w, NextNode(w, kind), isCheckout, Emit(w, kind, isCheckout))
<1> DEFINE node == NextNode(w, kind)
           e == w.net.emitted + 1
           n == [w.net EXCEPT !.emitted = e]
           v == [w EXCEPT !.net = n]
           item == NodeItemOf(node, isCheckout)
           q == Append(w.page.queue, item)
           p == [w.page EXCEPT !.queue = q]
           u == [v EXCEPT !.page = p]
           d == Emit(w, kind, isCheckout)
<1>1. e \in 1..MaxNodes /\ e \in 0..MaxNodes
  <2>1. MaxNodes \in Nat /\ w.net.emitted \in 0..MaxNodes
    BY BoundAssumption DEF Worlds, NetType
  <2>2. QED BY <2>1
<1>2. node \in Node
  BY <1>1 DEF Node, Nodes, NextNode
<1>3. [w EXCEPT !.net.emitted = @ + 1] = v
  BY DEF Worlds, NetType
<1>4. /\ n \in NetType /\ n.sent = w.net.sent /\ n.inflight = w.net.inflight
      /\ n.reason = w.net.reason /\ n.paused = w.net.paused /\ n.emitted = w.net.emitted + 1
  BY <1>1 DEF Worlds, NetType
<1>n. node = [n |-> w.net.emitted + 1, kind |-> kind]
      /\ item = [type |-> "node", node |-> node, isCheckout |-> isCheckout]
  BY DEF NextNode, NodeItemOf
<1> HIDE DEF node, e, n
<1>5. v \in Worlds /\ v.inst = w.inst /\ v.agg = w.agg /\ v.rec = w.rec /\ v.page = w.page
      /\ v.net = n
  BY <1>4 DEF Worlds
<1>6. [v EXCEPT !.page.queue = Append(@, item)] = u
  BY <1>5 DEF Worlds, PageType
<1> HIDE DEF item
<1>7. d = IF w.agg.drain = "done" THEN Store(v, node, isCheckout) ELSE u
  <2>1. d = IF w.agg.drain = "done" THEN Store(v, node, isCheckout)
            ELSE [v EXCEPT !.page.queue = Append(@, item)]
    BY <1>3, <1>n, Zenon DEF Emit
  <2>2. QED BY <1>6, <2>1, Zenon
<1> HIDE DEF v, d
<1>8. CASE w.agg.drain = "done"
  <2>1. Counted(w, v) /\ v.page = w.page
    <3>1. Core(w) => w.page.queue \in Seq(ItemsFor(w))
      BY DEF Core, Waits
    <3>2. QED BY <1>4, <1>5, <3>1 DEF Counted, Numbered
  <2>2. QED BY <1>2, <1>7, <1>8, <2>1 DEF Emits, node, d
<1>9. CASE w.agg.drain # "done"
  <2>1. item \in NodeItem /\ item.type = "node"
    BY <1>2, <1>n DEF NodeItem
  <2>2. item \in Item /\ item \in ItemsFor(w)
    BY <2>1 DEF Item, ItemsFor
  <2>3. q \in Seq(Item) /\ (Core(w) => q \in Seq(ItemsFor(w)))
    <3>1. w.page.queue \in Seq(Item)
      BY DEF Worlds, PageType
    <3>2. Core(w) => w.page.queue \in Seq(ItemsFor(w))
      BY DEF Core, Waits
    <3> DEFINE I == ItemsFor(w)
    <3> HIDE DEF I
    <3>3. q \in Seq(Item)
      BY <2>2, <3>1
    <3>4. ASSUME Core(w) PROVE q \in Seq(I)
      BY <2>2, <3>2, <3>4 DEF I
    <3>5. QED BY <3>3, <3>4 DEF I
  <2>q. q = Append(w.page.queue, item)
    OBVIOUS
  <2> HIDE DEF q
  <2>4. /\ p \in PageType /\ p.mode = w.page.mode /\ p.isRecording = w.page.isRecording
        /\ p.rrweb = w.page.rrweb /\ p.visible = w.page.visible /\ p.queue = q
    BY <2>3 DEF Worlds, PageType
  <2> HIDE DEF p
  <2>5. Counted(w, u) /\ u.page.queue = q
    BY <1>4, <1>5, <2>3, <2>4 DEF Counted, Numbered, Worlds
  <2> HIDE DEF u
  <2>6. QED BY <1>2, <1>7, <1>9, <2>5, <2>q DEF Emits, node, d, item
<1>10. QED BY <1>8, <1>9 DEF node, d

LEMMA EmitRecords ==
  ASSUME NEW w \in Worlds, NEW kind \in {"meta", "snap", "incr"}, NEW isCheckout \in BOOLEAN
  PROVE  /\ Records(w, Emit(w, kind, isCheckout))
         /\ ~Drops(w, isCheckout) => Keeps(w, Emit(w, kind, isCheckout))
<1> DEFINE d == Emit(w, kind, isCheckout)
           node == NextNode(w, kind)
<1>1. CASE w.net.emitted = MaxNodes \/ w.agg.refused
  <2>1. d = w
    BY <1>1 DEF Emit
  <2>2. QED BY <2>1, RecordsNothing
<1>2. CASE w.net.emitted # MaxNodes /\ ~w.agg.refused
  <2>1. Emits(w, node, isCheckout, d)
    BY <1>2, EmitEmits
  <2> HIDE DEF d, node
  <2>2. CASE w.agg.drain = "done"
    <3>1. PICK v : Counted(w, v) /\ v.page = w.page /\ d = Store(v, node, isCheckout)
      BY <2>1, <2>2 DEF Emits
    <3>2. Records(w, v) /\ Keeps(w, v) /\ v \in Worlds /\ v.agg = w.agg /\ v.rec = w.rec
      BY <3>1, NumberedRecords DEF Counted, Numbered
    <3>3. Records(v, d) /\ (~Drops(v, isCheckout) => Keeps(v, d))
      BY <2>1, <2>2, <3>1, <3>2, StoreRecords DEF Emits
    <3>4. (v.agg.blocked => d.agg.blocked) /\ Drops(v, isCheckout) = Drops(w, isCheckout)
      BY <3>2, <3>3 DEF Records, Drops
    <3>5. QED BY <3>2, <3>3, <3>4, RecordsCompose, KeepsCompose DEF d
  <2>3. CASE w.agg.drain # "done"
    BY <2>1, <2>3, NumberedRecords DEF Emits, Counted, d
  <2>4. QED BY <2>2, <2>3
<1>3. QED BY <1>1, <1>2

LEMMA EmitSnapshotRecords ==
  ASSUME NEW w \in Worlds, NEW isCheckout \in BOOLEAN
  PROVE  /\ Records(w, EmitSnapshot(w, isCheckout))
         /\ ~Drops(w, isCheckout) => Keeps(w, EmitSnapshot(w, isCheckout))
<1>1. CASE w.net.emitted + 2 > MaxNodes
  <2>1. EmitSnapshot(w, isCheckout) = w
    BY <1>1 DEF EmitSnapshot
  <2>2. QED BY <2>1, RecordsNothing
<1>2. CASE ~(w.net.emitted + 2 > MaxNodes)
  <2> DEFINE v == Emit(w, "meta", isCheckout)
             u == Emit(v, "snap", isCheckout)
  <2>1. EmitSnapshot(w, isCheckout) = u
    BY <1>2 DEF EmitSnapshot
  <2>2. Records(w, v) /\ (~Drops(w, isCheckout) => Keeps(w, v))
    BY EmitRecords
  <2> HIDE DEF v
  <2>3. Records(v, u) /\ (~Drops(v, isCheckout) => Keeps(v, u))
    BY <2>2, EmitRecords DEF Records
  <2> HIDE DEF u
  <2>4. Drops(v, isCheckout) = Drops(w, isCheckout) /\ (v.agg.blocked => u.agg.blocked)
    BY <2>2, <2>3 DEF Drops, Records, SameRec
  <2>5. QED BY <2>1, <2>2, <2>3, <2>4, RecordsCompose, KeepsCompose
<1>3. QED BY <1>1, <1>2
-----------------------------------------------------------------------------
(***************************************************************************)
(* Nodes in line: what the buffers, the payloads and the queue have to be  *)
(* like for every payload to be playable.  A snapshot follows its meta     *)
(* node in the buffers, or its meta node was held back by the last harvest *)
(* (rec.lastMeta), or a payload that was sent has it with its meta node.   *)
(***************************************************************************)
Ascends(s) == \A i, j \in DOMAIN s : i < j => s[i].n < s[j].n
Met(sent, x) ==
  \E p \in sent : \E j \in DOMAIN p.nodes : p.nodes[j] = x /\ FollowsMeta(p.nodes, j)
Led(sent, last, x) ==
  \/ last # NoNode /\ last.kind = "meta" /\ last.n + 1 = x.n
  \/ last = NoNode /\ Met(sent, x)
WellLed(sent, last, s) ==
  \A i \in DOMAIN s : s[i].kind = "snap" => (i = 1 /\ Led(sent, last, s[1])) \/ FollowsMeta(s, i)
Plays(sent, s) ==
  \A i \in DOMAIN s :
    /\ i > 1 => s[i - 1].n < s[i].n
    /\ s[i].kind = "snap" => FollowsMeta(s, i) \/ (i = 1 /\ Met(sent, s[1]))

LEMMA MetMore ==
  ASSUME NEW S, NEW T, S \subseteq T, NEW x, Met(S, x) PROVE Met(T, x)
BY DEF Met

LEMMA PlaysMore ==
  ASSUME NEW S, NEW T, S \subseteq T, NEW s, Plays(S, s) PROVE Plays(T, s)
BY MetMore DEF Plays

\* A held back meta node makes the nodes it is put in front of playable.
LEMMA LedPlays ==
  ASSUME NEW S, NEW L \in Node, NEW s \in Seq(Node), s # <<>>, Ascends(s), L.kind = "meta",
         L.n + 1 = s[1].n, WellLed(S, L, s)
  PROVE  /\ Plays(S, <<L>> \o s)
         /\ FollowsMeta(<<L>> \o s, 2) /\ (<<L>> \o s)[2] = s[1]
<1> DEFINE t == <<L>> \o s
<1>1. /\ t \in Seq(Node) /\ Len(t) = Len(s) + 1 /\ t[1] = L
      /\ \A i \in DOMAIN t : i # 1 => i - 1 \in DOMAIN s /\ t[i] = s[i - 1]
  OBVIOUS
<1>2. 1 \in DOMAIN s /\ 2 \in DOMAIN t /\ DOMAIN t = 1..Len(t) /\ Len(t) \in Nat
      /\ DOMAIN s = 1..Len(s) /\ Len(s) \in Nat
  BY <1>1
<1>3. \A i \in DOMAIN s : s[i].n \in Nat
  <2>1. \A i \in DOMAIN s : s[i] \in Node
    OBVIOUS
  <2>2. QED BY <2>1, BoundAssumption DEF Node, Nodes
<1>4. L.n \in Nat
  BY DEF Node, Nodes
<1> HIDE DEF t
<1>5. FollowsMeta(t, 2) /\ t[2] = s[1]
  BY <1>1, <1>2 DEF FollowsMeta
<1>6. ASSUME NEW i \in DOMAIN t, i > 1 PROVE t[i - 1].n < t[i].n
  <2>1. CASE i = 2
    BY <1>1, <1>2, <1>3, <1>4, <2>1
  <2>2. CASE i # 2
    <3>1. i - 1 \in DOMAIN s /\ i - 2 \in DOMAIN s /\ i - 2 < i - 1
          /\ t[i] = s[i - 1] /\ t[i - 1] = s[i - 2]
      <4>1. i \in Nat /\ i > 2 /\ i <= Len(s) + 1
        BY <1>1, <1>2, <1>6, <2>2
      <4>2. i - 1 \in DOMAIN t /\ i - 1 # 1 /\ i # 1 /\ (i - 1) - 1 = i - 2
        BY <1>1, <1>2, <4>1
      <4>3. QED BY <1>1, <4>1, <4>2
    <3>2. QED BY <3>1 DEF Ascends
  <2>3. QED BY <2>1, <2>2
<1>7. ASSUME NEW i \in DOMAIN t, t[i].kind = "snap" PROVE FollowsMeta(t, i)
  <2>1. i # 1
    BY <1>1, <1>7
  <2>2. CASE i = 2
    BY <1>5, <2>2
  <2>3. CASE i # 2
    <3>1. i \in Nat /\ i > 2 /\ i <= Len(s) + 1
      BY <1>1, <1>2, <2>1, <2>3
    <3>2. i - 1 \in DOMAIN t /\ i - 1 # 1 /\ i - 1 > 1 /\ (i - 1) - 1 = i - 2
      BY <1>1, <1>2, <3>1
    <3>3. i - 1 \in DOMAIN s /\ t[i] = s[i - 1] /\ t[i - 1] = s[(i - 1) - 1]
      BY <1>1, <2>1, <3>2
    <3>4. FollowsMeta(s, i - 1)
      BY <1>7, <3>2, <3>3 DEF WellLed
    <3>5. QED BY <3>1, <3>3, <3>4 DEF FollowsMeta
  <2>4. QED BY <2>2, <2>3
<1>8. QED BY <1>5, <1>6, <1>7 DEF Plays, t

\* Nodes that nothing has to be put in front of
LEMMA UnledPlays ==
  ASSUME NEW S, NEW L, NEW s \in Seq(Node), Ascends(s), WellLed(S, L, s),
         s # <<>> /\ s[1].kind = "snap" => L = NoNode
  PROVE  Plays(S, s)
<1>1. DOMAIN s = 1..Len(s) /\ Len(s) \in Nat
  OBVIOUS
<1>2. ASSUME NEW i \in DOMAIN s, i > 1 PROVE s[i - 1].n < s[i].n
  <2>1. i - 1 \in DOMAIN s /\ i - 1 < i
    BY <1>1, <1>2
  <2>2. QED BY <2>1 DEF Ascends
<1>3. ASSUME NEW i \in DOMAIN s, s[i].kind = "snap"
      PROVE  FollowsMeta(s, i) \/ (i = 1 /\ Met(S, s[1]))
  BY <1>1, <1>3 DEF WellLed, Led
<1>4. QED BY <1>2, <1>3 DEF Plays

LEMMA PrefixPlays ==
  ASSUME NEW S, NEW s \in Seq(Node), NEW k \in 0..Len(s), Plays(S, s)
  PROVE  Plays(S, SubSeq(s, 1, k))
<1> DEFINE t == SubSeq(s, 1, k)
<1>1. DOMAIN t = 1..k /\ \A i \in DOMAIN t : t[i] = s[i] /\ i \in DOMAIN s /\ i \in Nat
  OBVIOUS
<1> HIDE DEF t
<1>2. \A i \in DOMAIN t : i > 1 => i - 1 \in DOMAIN t
  BY <1>1
<1>3. \A i \in DOMAIN t : FollowsMeta(s, i) => FollowsMeta(t, i)
  BY <1>1, <1>2 DEF FollowsMeta
<1>4. ASSUME NEW i \in DOMAIN t PROVE i > 1 => t[i - 1].n < t[i].n
  BY <1>1, <1>2 DEF Plays
<1>5. ASSUME NEW i \in DOMAIN t, t[i].kind = "snap"
      PROVE  FollowsMeta(t, i) \/ (i = 1 /\ Met(S, t[1]))
  BY <1>1, <1>3, <1>5 DEF Plays
<1>6. QED BY <1>4, <1>5 DEF Plays, t

\* Nodes ascend, and their snapshots follow their meta nodes, in every suffix; the
\* first node of the suffix may have lost its meta node.
LEMMA SuffixLines ==
  ASSUME NEW b \in Seq(Node), NEW e \in Seq(Node), Ascends(b \o e), NEW S, NEW L,
         WellLed(S, L, b \o e)
  PROVE  /\ Ascends(e)
         /\ \A i \in DOMAIN e : i > 1 /\ e[i].kind = "snap" => FollowsMeta(e, i)
<1> DEFINE s == b \o e
           m == Len(b)
<1>1. m \in Nat /\ DOMAIN e = 1..Len(e) /\ Len(e) \in Nat
      /\ \A i \in 1..Len(e) : m + i \in DOMAIN s /\ s[m + i] = e[i]
  OBVIOUS
<1>2. Ascends(s) /\ WellLed(S, L, s)
  OBVIOUS
<1> HIDE DEF s, m
<1>3. Ascends(e)
  BY <1>1, <1>2 DEF Ascends
<1>4. ASSUME NEW i \in DOMAIN e, i > 1, e[i].kind = "snap" PROVE FollowsMeta(e, i)
  <2>1. m + i \in DOMAIN s /\ s[m + i] = e[i] /\ i \in Nat /\ m + i > 1 /\ m + i # 1
    BY <1>1, <1>4
  <2>2. FollowsMeta(s, m + i)
    BY <1>2, <1>4, <2>1 DEF WellLed
  <2>3. i - 1 \in 1..Len(e) /\ (m + i) - 1 = m + (i - 1)
    BY <1>1, <1>4, <2>1
  <2>4. s[(m + i) - 1] = e[i - 1]
    BY <1>1, <2>3
  <2>5. QED BY <1>4, <2>1, <2>2, <2>4 DEF FollowsMeta
<1>5. QED BY <1>3, <1>4

\* One more node, a snapshot only behind its meta node
LEMMA AppendLines ==
  ASSUME NEW S, NEW L, NEW s \in Seq(Node), Ascends(s), WellLed(S, L, s), NEW x \in Node,
         \A i \in DOMAIN s : s[i].n < x.n,
         x.kind = "snap" => \/ s = <<>> /\ Led(S, L, x)
                            \/ s # <<>> /\ s[Len(s)].kind = "meta" /\ s[Len(s)].n + 1 = x.n
  PROVE  Ascends(Append(s, x)) /\ WellLed(S, L, Append(s, x))
<1> DEFINE t == Append(s, x)
<1>1. /\ DOMAIN s = 1..Len(s) /\ Len(s) \in Nat /\ DOMAIN t = 1..(Len(s) + 1)
      /\ t[Len(s) + 1] = x /\ \A i \in 1..Len(s) : t[i] = s[i]
  OBVIOUS
<1> HIDE DEF t
<1>2. Ascends(t)
  <2> SUFFICES ASSUME NEW i \in DOMAIN t, NEW j \in DOMAIN t, i < j PROVE t[i].n < t[j].n
    BY DEF Ascends
  <2>1. i \in 1..Len(s)
    BY <1>1
  <2>2. CASE j \in 1..Len(s)
    BY <1>1, <2>1, <2>2 DEF Ascends
  <2>3. CASE j = Len(s) + 1
    BY <1>1, <2>1, <2>3
  <2>4. QED BY <1>1, <2>2, <2>3
<1>3. WellLed(S, L, t)
  <2> SUFFICES ASSUME NEW i \in DOMAIN t, t[i].kind = "snap"
               PROVE  (i = 1 /\ Led(S, L, t[1])) \/ FollowsMeta(t, i)
    BY DEF WellLed
  <2>1. CASE i \in 1..Len(s)
    <3>1. (i = 1 /\ Led(S, L, s[1])) \/ FollowsMeta(s, i)
      BY <1>1, <2>1 DEF WellLed
    <3>2. t[i] = s[i] /\ (i > 1 => t[i - 1] = s[i - 1])
      BY <1>1, <2>1
    <3>3. QED BY <3>1, <3>2 DEF FollowsMeta
  <2>2. CASE i = Len(s) + 1
    <3>1. CASE s = <<>>
      BY <1>1, <2>2, <3>1
    <3>2. CASE s # <<>>
      <4>1. Len(s) \in 1..Len(s) /\ i > 1 /\ i - 1 = Len(s)
        BY <1>1, <2>2, <3>2
      <4>2. QED BY <1>1, <2>2, <3>2, <4>1 DEF FollowsMeta
    <3>3. QED BY <3>1, <3>2
  <2>3. QED BY <1>1, <2>1, <2>2
<1>4. QED BY <1>2, <1>3 DEF t

\* What the buffers are like as long as the replay is not aborted.  In error mode
\* they are two windows; the second one does not begin with a snapshot.
Lined(w) ==
  /\ Ascends(AllNodes(w)) /\ \A i \in DOMAIN AllNodes(w) : AllNodes(w)[i].n <= w.net.emitted
  /\ WellLed(w.net.sent, w.rec.lastMeta, AllNodes(w))
  /\ w.rec.lastMeta # NoNode => w.rec.lastMeta.kind = "meta"
  /\ w.rec.backlog.nodes # <<>> /\ w.rec.events.nodes # <<>>
       => w.rec.events.nodes[1].kind # "snap"
Played(w) ==
  /\ \A p \in w.net.sent : Plays(w.net.sent, p.nodes)
  /\ w.rec.retryPayload \in w.net.sent \cup {NoPayload}
  /\ ~w.agg.blocked => Lined(w)

\* No snapshot is due, or the one numbered n is: its meta node came last.
Rested(w) == w.agg.blocked \/ AllNodes(w) = <<>> \/ Last(AllNodes(w)).kind # "meta"
Due(w, n) ==
  \/ w.agg.blocked
  \/ /\ w.rec.events.nodes # <<>> /\ Last(w.rec.events.nodes).kind = "meta"
     /\ Last(w.rec.events.nodes).n + 1 = n
  \/ /\ AllNodes(w) = <<>> /\ w.rec.lastMeta # NoNode /\ w.rec.lastMeta.kind = "meta"
     /\ w.rec.lastMeta.n + 1 = n

LEMMA AllIsBoth ==
  ASSUME NEW w \in Worlds
  PROVE  /\ AllNodes(w) = <<>> <=> w.rec.backlog.nodes = <<>> /\ w.rec.events.nodes = <<>>
         /\ w.rec.backlog.nodes = <<>> => AllNodes(w) = w.rec.events.nodes
         /\ w.rec.events.nodes = <<>> => AllNodes(w) = w.rec.backlog.nodes
         /\ w.rec.events.nodes # <<>> => /\ AllNodes(w) # <<>>
                                         /\ Last(AllNodes(w)) = Last(w.rec.events.nodes)
         /\ w.rec.backlog.nodes # <<>> => AllNodes(w)[1] = w.rec.backlog.nodes[1]
         /\ \A i \in DOMAIN w.rec.events.nodes : InNodes(AllNodes(w), w.rec.events.nodes[i])
<1> DEFINE b == w.rec.backlog.nodes
           e == w.rec.events.nodes
<1>1. b \in Seq(Node) /\ e \in Seq(Node) /\ AllNodes(w) = b \o e
  BY NodesTyped DEF AllNodes
<1> HIDE DEF b, e
<1>2. b \o e = <<>> <=> b = <<>> /\ e = <<>>
  BY <1>1
<1>3. (b = <<>> => b \o e = e) /\ (e = <<>> => b \o e = b)
  BY <1>1
<1>4. e # <<>> => b \o e # <<>> /\ Last(b \o e) = Last(e)
  BY <1>1 DEF Last
<1>5. b # <<>> => (b \o e)[1] = b[1]
  BY <1>1
<1>6. \A i \in DOMAIN e : InNodes(b \o e, e[i])
  <2> TAKE i \in DOMAIN e
  <2>1. Len(b) + i \in DOMAIN (b \o e) /\ (b \o e)[Len(b) + i] = e[i]
    BY <1>1
  <2>2. QED BY <2>1 DEF InNodes
<1>7. QED BY <1>1, <1>2, <1>3, <1>4, <1>5, <1>6 DEF b, e

\* What getHarvestContents returns for nodes in line
Contented(w, c) ==
  LET all == AllNodes(w)
  IN /\ Plays(w.net.sent, c.payload.nodes)
     /\ c.lastMeta # NoNode => c.lastMeta.kind = "meta"
     /\ Last(all).kind = "meta" => c.lastMeta = Last(all)
     /\ Last(all).kind # "meta" /\ all[1].kind = "snap" =>
          /\ c.lastMeta = NoNode
          /\ \/ Met(w.net.sent, all[1])
             \/ \E j \in DOMAIN c.payload.nodes :
                  c.payload.nodes[j] = all[1] /\ FollowsMeta(c.payload.nodes, j)

LEMMA ContentsPlay ==
  ASSUME NEW w \in Worlds, AllNodes(w) # <<>>, Lined(w) PROVE Contented(w, Contents(w))
<1> DEFINE all   == AllNodes(w)
           L     == w.rec.lastMeta
           S     == w.net.sent
           lacks == all[1].kind = "snap" /\ L # NoNode
           led   == IF lacks THEN <<L>> \o all ELSE all
           holds == led[Len(led)].kind = "meta"
           body  == IF holds THEN SubSeq(led, 1, Len(led) - 1) ELSE led
           last  == IF holds THEN led[Len(led)] ELSE IF lacks THEN NoNode ELSE L
<1>1. Contents(w).payload.nodes = body /\ Contents(w).lastMeta = last
  BY DEF Contents
<1>2. all \in Seq(Node) /\ all # <<>> /\ L \in Node \cup {NoNode}
  BY NodesTyped DEF Worlds, RecType
<1>3. Ascends(all) /\ WellLed(S, L, all) /\ (L # NoNode => L.kind = "meta")
  BY DEF Lined
<1>4. 1 \in DOMAIN all
  BY <1>2
<1>5. lacks => L \in Node /\ L.kind = "meta" /\ L.n + 1 = all[1].n
  <2>1. all[1].kind = "snap" => Led(S, L, all[1])
    BY <1>3, <1>4 DEF WellLed, FollowsMeta
  <2>2. QED BY <1>2, <2>1 DEF Led
<1> HIDE DEF all, L, S
<1>6. /\ led \in Seq(Node) /\ led # <<>> /\ Plays(S, led) /\ Last(led) = Last(all)
      /\ lacks => 2 \in DOMAIN led /\ FollowsMeta(led, 2) /\ led[2] = all[1]
  <2>1. CASE lacks
    <3> DEFINE t == <<L>> \o all
    <3>1. Plays(S, t) /\ FollowsMeta(t, 2) /\ t[2] = all[1]
      BY <1>2, <1>3, <1>5, <2>1, LedPlays
    <3>2. t \in Seq(Node) /\ t # <<>> /\ Last(t) = Last(all) /\ 2 \in DOMAIN t
      BY <1>2, <1>5, <2>1 DEF Last
    <3>3. led = t
      BY <2>1
    <3>4. QED BY <3>1, <3>2, <3>3
  <2>2. CASE ~lacks
    <3>1. Plays(S, all)
      <4>1. all # <<>> /\ all[1].kind = "snap" => L = NoNode
        BY <2>2
      <4>2. QED BY <1>2, <1>3, <4>1, UnledPlays
    <3>2. QED BY <1>2, <2>2, <3>1
  <2>3. QED BY <2>1, <2>2
<1>7. all[1].kind = "snap" /\ ~lacks => L = NoNode /\ Met(S, all[1])
  BY <1>3, <1>4 DEF WellLed, FollowsMeta, Led
<1> HIDE DEF led, lacks
<1>8. Plays(S, body)
  <2>1. CASE holds
    <3>1. Len(led) - 1 \in 0..Len(led)
      BY <1>6
    <3>2. QED BY <1>6, <2>1, <3>1, PrefixPlays
  <2>2. CASE ~holds
    BY <1>6, <2>2
  <2>3. QED BY <2>1, <2>2
<1>9. last # NoNode => last.kind = "meta"
  BY <1>3
<1>10. Last(all).kind = "meta" => last = Last(all)
  BY <1>6 DEF Last
<1>11. ASSUME Last(all).kind # "meta", all[1].kind = "snap"
       PROVE  last = NoNode /\ (Met(S, all[1]) \/ \E j \in DOMAIN body :
                                                     body[j] = all[1] /\ FollowsMeta(body, j))
  <2>1. ~holds /\ body = led
    BY <1>6, <1>11 DEF Last
  <2>2. CASE lacks
    BY <1>6, <2>1, <2>2
  <2>3. CASE ~lacks
    BY <1>7, <1>11, <2>1, <2>3
  <2>4. QED BY <2>2, <2>3
<1> HIDE DEF body, last
<1>12. QED BY <1>1, <1>8, <1>9, <1>10, <1>11 DEF Contented, all, S

-----------------------------------------------------------------------------
\* What waits for the drain: nodes ascend, and a meta node and its snapshot are next to
\* each other.  In front of a snapshot that is first its meta node was stored last.
IsNode(q, i) == q[i].type = "node"
Queued(q, emitted) ==
  /\ \A i, j \in DOMAIN q : i < j /\ IsNode(q, i) /\ IsNode(q, j) => q[i].node.n < q[j].node.n
  /\ \A i \in DOMAIN q : IsNode(q, i) => q[i].node.n <= emitted
  /\ \A i \in DOMAIN q : IsNode(q, i) /\ q[i].node.kind = "snap" /\ i > 1 =>
       /\ IsNode(q, i - 1) /\ q[i - 1].node.kind = "meta"
       /\ q[i - 1].node.n + 1 = q[i].node.n
  /\ \A i \in DOMAIN q : IsNode(q, i) /\ q[i].node.kind = "meta" =>
       i + 1 \in DOMAIN q /\ IsNode(q, i + 1) /\ q[i + 1].node.kind = "snap"
Below(w, q) ==
  w.agg.blocked \/ \A x \in Node, j \in DOMAIN q :
                     InNodes(AllNodes(w), x) /\ IsNode(q, j) => x.n < q[j].node.n
Steady(q) == q # <<>> /\ IsNode(q, 1) => q[1].node.kind # "snap"

\* A world in line when the items p still are to be replayed, then those of the queue
Pending(w, q) ==
  Played(w) /\ Queued(q, w.net.emitted) /\ Below(w, q) /\ (w.agg.drain = "done" => q = <<>>)
Line(w, p) ==
  LET q == p \o w.page.queue IN Pending(w, q) /\ Steady(q) /\ Rested(w)
NodesOnly(q) == \A i \in DOMAIN q : IsNode(q, i)
Flows(w, v) ==
  \A p \in Seq(Item) :
    Line(w, p) => Line(v, p) /\ (NodesOnly(w.page.queue) => NodesOnly(v.page.queue))

LEMMA FlowsOn == ASSUME NEW u, NEW w, NEW v, Flows(u, w), Flows(w, v) PROVE Flows(u, v)
BY DEF Flows

\* What leaves the queue alone and adds no node
Frees(w, v) ==
  /\ v.page.queue = w.page.queue /\ v.net.emitted = w.net.emitted
  /\ v.agg.drain = w.agg.drain /\ (w.agg.blocked => v.agg.blocked)
  /\ v.agg.blocked \/ \A x \in Node : InNodes(AllNodes(v), x) => InNodes(AllNodes(w), x)

LEMMA FreesFlow ==
  ASSUME NEW w, NEW v, Frees(w, v), Played(w) /\ Rested(w) => Played(v) /\ Rested(v)
  PROVE  Flows(w, v)
<1> SUFFICES ASSUME NEW p \in Seq(Item), Line(w, p) PROVE Line(v, p)
  BY DEF Flows, Frees
<1> DEFINE q == p \o w.page.queue
<1>1. q = p \o v.page.queue
  BY DEF Frees
<1>2. Pending(w, q) /\ Steady(q) /\ Rested(w)
  BY DEF Line
<1> HIDE DEF q
<1>3. Played(v) /\ Rested(v)
  BY <1>2 DEF Pending
<1>4. Below(v, q)
  BY <1>2 DEF Pending, Below, Frees
<1>5. Queued(q, v.net.emitted) /\ (v.agg.drain = "done" => q = <<>>)
  BY <1>2 DEF Pending, Frees
<1>6. QED BY <1>1, <1>2, <1>3, <1>4, <1>5 DEF Line, Pending, q

\* What sends nothing and leaves the buffers as they are, or empties them
Untouched(w, v) ==
  /\ v.page.queue = w.page.queue /\ v.net.emitted = w.net.emitted
  /\ v.agg.drain = w.agg.drain /\ (w.agg.blocked => v.agg.blocked)
  /\ v.net.sent = w.net.sent /\ v.rec.retryPayload \in {w.rec.retryPayload, NoPayload}
  /\ \/ v.agg.blocked
     \/ v.rec.lastMeta = w.rec.lastMeta /\ AllNodes(v) = <<>>
     \/ /\ v.rec.lastMeta = w.rec.lastMeta
        /\ v.rec.backlog = w.rec.backlog /\ v.rec.events = w.rec.events

LEMMA UntouchedFlow ==
  ASSUME NEW w, NEW v \in Worlds, Untouched(w, v) PROVE Flows(w, v)
<1>1. CASE v.agg.blocked
  <2>1. Frees(w, v) /\ Rested(v) /\ (Played(w) => Played(v))
    BY <1>1 DEF Untouched, Frees, Rested, Played
  <2>2. QED BY <2>1, FreesFlow
<1>2. CASE ~v.agg.blocked /\ v.rec.lastMeta = w.rec.lastMeta /\ AllNodes(v) = <<>>
  <2>1. v.rec.backlog.nodes = <<>>
    BY <1>2, AllIsBoth
  <2>2. Lined(w) => Lined(v)
    BY <1>2, <2>1 DEF Lined, Ascends, WellLed
  <2>3. Frees(w, v) /\ Rested(v) /\ (Played(w) => Played(v))
    BY <1>2, <2>2 DEF Untouched, Frees, Rested, Played, InNodes
  <2>4. QED BY <2>3, FreesFlow
<1>3. CASE ~v.agg.blocked /\ v.rec.lastMeta = w.rec.lastMeta
           /\ v.rec.backlog = w.rec.backlog /\ v.rec.events = w.rec.events
  <2>1. AllNodes(v) = AllNodes(w)
    BY <1>3 DEF AllNodes
  <2>2. Lined(w) => Lined(v)
    BY <1>3, <2>1 DEF Untouched, Lined
  <2>3. Frees(w, v) /\ (Rested(w) => Rested(v)) /\ (Played(w) => Played(v))
    BY <1>3, <2>1, <2>2 DEF Untouched, Frees, Rested, Played
  <2>4. QED BY <2>3, FreesFlow
<1>4. QED BY <1>1, <1>2, <1>3 DEF Untouched

\* Harvesting, and what holds of the nodes that were due
Settling(w, v) ==
  /\ Frees(w, v) /\ Played(v)
  /\ Rested(w) => Rested(v)
  /\ ~w.rec.isErrorMode => \A n \in Nat : Due(w, n) => Due(v, n)

LEMMA HarvestSettles ==
  ASSUME NEW w \in Worlds, Played(w), Rested(w) \/ ~w.rec.isErrorMode, NEW final
  PROVE  Settling(w, Harvest(w, final))
<1> DEFINE done == Harvest(w, final)
<1>0. Settling(w, w)
  BY DEF Settling, Frees
<1>1. CASE w.agg.blocked \/ (~w.agg.isRetrying /\ ~MayHarvest(w))
  <2>1. done = w
    BY <1>1 DEF Harvest
  <2>2. QED BY <1>0, <2>1
<1>2. CASE ~w.agg.blocked /\ w.agg.isRetrying
  <2>1. CASE w.rec.retryPayload = NoPayload
    <3>1. done = w
      BY <1>2, <2>1 DEF Harvest
    <3>2. QED BY <1>0, <3>1
  <2>2. CASE w.rec.retryPayload # NoPayload
    <3> DEFINE p == w.rec.retryPayload
    <3>1. done = Send(w, p, final)
      BY <1>2, <2>2 DEF Harvest
    <3>2. p \in Buffer /\ p \in w.net.sent
      BY <2>2 DEF Worlds, RecType, Played
    <3>3. Sends(w, p, done)
      BY <3>1, <3>2, SendSends
    <3> HIDE DEF p, done
    <3>4. done.net.sent = w.net.sent /\ AllNodes(done) = AllNodes(w)
      BY <3>2, <3>3 DEF Sends, AllNodes
    <3>5. Frees(w, done) /\ (Rested(w) => Rested(done)) /\ Played(done)
      BY <3>3, <3>4 DEF Frees, Sends, Rested, Played, Lined
    <3>6. \A n \in Nat : Due(w, n) => Due(done, n)
      BY <3>3, <3>4 DEF Sends, Due
    <3>7. QED BY <3>5, <3>6 DEF Settling, done
  <2>3. QED BY <2>1, <2>2
<1>3. CASE ~w.agg.blocked /\ ~w.agg.isRetrying /\ MayHarvest(w)
  <2> DEFINE c == Contents(w)
             v == [w EXCEPT !.rec.lastMeta = c.lastMeta]
             u == ClearBuffer(v)
             t == [u EXCEPT !.rec.retryPayload = c.payload]
             S == w.net.sent \cup {c.payload}
             all == AllNodes(w)
  <2>1. done = IF c.payload.nodes = <<>> THEN u
               ELSE IF Numbers(c.payload.nodes) \cap Huge # {} THEN Abort(v)
               ELSE Send(t, c.payload, final)
    BY <1>3 DEF Harvest
  <2>2. Holds(w, c) /\ Contented(w, c) /\ Lined(w) /\ all # <<>>
    <3>1. all # <<>> /\ Lined(w)
      BY <1>3 DEF MayHarvest, Played
    <3>2. QED BY <3>1, ContentsHold, ContentsPlay
  <2> HIDE DEF c
  <2>3. v = [w EXCEPT !.rec.lastMeta = c.lastMeta] /\ c.lastMeta \in Node \cup {NoNode}
    BY <2>2 DEF Holds
  <2> HIDE DEF v
  <2>4. /\ Rewrites(w, v) /\ AllNodes(v) = all /\ v.rec.retryPayload = w.rec.retryPayload
        /\ v.rec.backlog = w.rec.backlog /\ v.rec.events = w.rec.events
        /\ v.rec.lastMeta = c.lastMeta
    <3>1. HeldBack(w, c.lastMeta, v)
      BY <2>3, HoldsBack, Zenon
    <3>2. QED BY <3>1 DEF HeldBack
  <2>5. /\ Refills(v, u) /\ u.rec.events = EmptyBuffer
        /\ u.rec.backlog = IF w.rec.isErrorMode THEN w.rec.events ELSE EmptyBuffer
    <3>1. v.rec.isErrorMode = w.rec.isErrorMode /\ v \in Worlds
      BY <2>4 DEF Rewrites, SameRec
    <3>2. QED BY <2>4, <3>1, ClearBufferRefills
  <2> HIDE DEF u
  <2>6. /\ u \in Worlds /\ u.inst = w.inst /\ u.agg = w.agg /\ u.page = w.page /\ u.net = w.net
        /\ u.rec.lastMeta = c.lastMeta /\ u.rec.retryPayload = w.rec.retryPayload
        /\ u.rec.isErrorMode = w.rec.isErrorMode
    BY <2>4, <2>5 DEF Rewrites, Refills, SameRec
  <2>7. /\ AllNodes(u) = IF w.rec.isErrorMode THEN w.rec.events.nodes ELSE <<>>
        /\ u.rec.events.nodes = <<>>
    <3>1. u.rec.events.nodes = <<>> /\ AllNodes(u) = u.rec.backlog.nodes
      BY <2>5, <2>6, AllIsBoth DEF EmptyBuffer
    <3>2. QED BY <2>5, <3>1 DEF EmptyBuffer
  <2>8. Frees(w, u) /\ (Rested(w) => Rested(u))
    <3>1. \A x \in Node : InNodes(AllNodes(u), x) => InNodes(all, x)
      <4>1. \A i \in DOMAIN w.rec.events.nodes : InNodes(all, w.rec.events.nodes[i])
        BY AllIsBoth
      <4>2. QED BY <2>7, <4>1 DEF InNodes
    <3>2. Rested(w) => Rested(u)
      <4>1. w.rec.events.nodes # <<>> => Last(all) = Last(w.rec.events.nodes)
        BY AllIsBoth
      <4>2. QED BY <1>3, <2>2, <2>6, <2>7, <4>1 DEF Rested
    <3>3. QED BY <2>6, <3>1, <3>2 DEF Frees
  <2>9. ASSUME ~w.rec.isErrorMode, NEW n \in Nat, Due(w, n) PROVE Due(u, n)
    <3>1. Last(all) = Last(w.rec.events.nodes) /\ Last(all).kind = "meta"
          /\ Last(all).n + 1 = n
      BY <1>3, <2>2, <2>9, AllIsBoth DEF Due
    <3>2. u.rec.lastMeta = Last(all) /\ u.rec.lastMeta \in Node
      <4>1. u.rec.lastMeta = Last(all)
        BY <2>2, <2>6, <3>1 DEF Contented
      <4>2. all \in Seq(Node)
        BY NodesTyped
      <4> HIDE DEF all
      <4>3. Last(all) \in Node
        BY <2>2, <4>2 DEF Last
      <4>4. QED BY <4>1, <4>3
    <3>3. u.rec.lastMeta # NoNode
      BY <3>1, <3>2 DEF NoNode
    <3>4. QED BY <2>7, <2>9, <3>1, <3>2, <3>3 DEF Due
  \* the buffers that are left, when the payload is sent or is empty
  <2>10. ASSUME NEW T, w.net.sent \subseteq T,
                c.payload.nodes # <<>> => c.payload \in T,
                NEW x, AllNodes(x) = AllNodes(u), x.rec.lastMeta = c.lastMeta,
                x.rec.events.nodes = <<>>, x.net.sent = T, x.net.emitted = w.net.emitted
         PROVE  Lined(x)
    <3> DEFINE s == AllNodes(x)
               L == c.lastMeta
    <3>1. L # NoNode => L.kind = "meta"
      BY <2>2 DEF Contented
    <3>2. CASE ~w.rec.isErrorMode
      BY <2>7, <2>10, <3>1, <3>2 DEF Lined, Ascends, WellLed
    <3>3. CASE w.rec.isErrorMode
      <4> DEFINE e == w.rec.events.nodes
                 b == w.rec.backlog.nodes
      <4>1. s = e /\ b \in Seq(Node) /\ e \in Seq(Node) /\ all = b \o e
        BY <2>7, <2>10, <3>3, NodesTyped DEF AllNodes
      <4>2. Ascends(all) /\ WellLed(w.net.sent, w.rec.lastMeta, all)
            /\ \A i \in DOMAIN all : all[i].n <= w.net.emitted
        BY <2>2 DEF Lined
      <4>3. Last(all).kind # "meta"
        BY <1>3, <2>2, <3>3 DEF Rested
      <4>4. ASSUME e # <<>>, e[1].kind = "snap" PROVE Led(T, L, e[1])
        <5>1. b = <<>>
          BY <2>2, <4>4 DEF Lined
        <5>2. all[1] = e[1]
          BY <5>1, AllIsBoth
        <5>3. /\ L = NoNode
              /\ \/ Met(w.net.sent, e[1])
                 \/ \E j \in DOMAIN c.payload.nodes :
                      c.payload.nodes[j] = e[1] /\ FollowsMeta(c.payload.nodes, j)
          BY <2>2, <4>3, <4>4, <5>2 DEF Contented
        <5>4. Met(T, e[1])
          <6>1. CASE Met(w.net.sent, e[1])
            BY <2>10, <6>1, MetMore
          <6>2. CASE \E j \in DOMAIN c.payload.nodes :
                      c.payload.nodes[j] = e[1] /\ FollowsMeta(c.payload.nodes, j)
            <7>1. c.payload.nodes # <<>>
              BY <6>2
            <7>2. QED BY <2>10, <6>2, <7>1 DEF Met
          <6>3. QED BY <5>3, <6>1, <6>2
        <5>5. QED BY <5>3, <5>4 DEF Led
      <4> HIDE DEF b, e, all, s
      <4>5. Ascends(e) /\ \A i \in DOMAIN e : i > 1 /\ e[i].kind = "snap" => FollowsMeta(e, i)
        BY <4>1, <4>2, SuffixLines
      <4>6. \A i \in DOMAIN e : e[i].n <= w.net.emitted
        <5>1. \A i \in DOMAIN e : Len(b) + i \in DOMAIN all /\ all[Len(b) + i] = e[i]
          BY <4>1
        <5>2. QED BY <4>2, <5>1
      <4>7. WellLed(T, L, e)
        <5>1. DOMAIN e = 1..Len(e) /\ Len(e) \in Nat
          BY <4>1
        <5>2. \A i \in DOMAIN e : i = 1 => e # <<>>
          BY <4>1
        <5>3. QED BY <4>4, <4>5, <5>1, <5>2 DEF WellLed
      <4>8. Ascends(s) /\ WellLed(T, L, s) /\ \A i \in DOMAIN s : s[i].n <= w.net.emitted
        BY <4>1, <4>5, <4>6, <4>7
      <4>9. QED BY <2>10, <3>1, <4>8 DEF Lined, s
    <3>4. QED BY <3>2, <3>3
  <2>11. CASE c.payload.nodes = <<>>
    <3>1. done = u
      BY <2>1, <2>11
    <3>2. Lined(u)
      BY <2>6, <2>7, <2>10, <2>11
    <3>3. Played(u)
      BY <2>6, <3>2 DEF Played
    <3>4. QED BY <2>8, <2>9, <3>1, <3>3 DEF Settling
  <2>12. CASE c.payload.nodes # <<>> /\ Numbers(c.payload.nodes) \cap Huge # {}
    <3>1. done = Abort(v)
      BY <2>1, <2>12
    <3>2. Aborts(v, done)
      BY <2>4, <3>1, AbortAborts DEF Rewrites
    <3> HIDE DEF done
    <3>3. /\ done.agg.blocked /\ done.net = w.net /\ done.page.queue = w.page.queue
          /\ done.agg.drain = w.agg.drain /\ done.rec.retryPayload = w.rec.retryPayload
      BY <2>4, <3>2 DEF Aborts, SameAgg, Rewrites
    <3>4. QED BY <3>3 DEF Settling, Frees, Played, Rested, Due, done
  <2>13. CASE c.payload.nodes # <<>> /\ ~(Numbers(c.payload.nodes) \cap Huge # {})
    <3>1. done = Send(t, c.payload, final)
      BY <2>1, <2>13
    <3>t. t = [u EXCEPT !.rec.retryPayload = c.payload] /\ c.payload \in Buffer
      BY <2>2 DEF Holds
    <3> HIDE DEF t
    <3>2. /\ Rewrites(u, t) /\ t.rec.retryPayload = c.payload /\ AllNodes(t) = AllNodes(u)
          /\ t.rec.backlog = u.rec.backlog /\ t.rec.events = u.rec.events
          /\ t.rec.lastMeta = u.rec.lastMeta
      <4>1. KeptForRetry(u, c.payload, t)
        BY <2>6, <3>t, PayloadIsKept, Zenon
      <4>2. QED BY <4>1 DEF KeptForRetry
    <3>3. Sends(t, c.payload, done)
      BY <2>2, <3>1, <3>2, SendSends DEF Rewrites, Holds
    <3> HIDE DEF done
    <3>4. /\ done.net.sent = S /\ done.net.emitted = w.net.emitted /\ done.agg = w.agg
          /\ done.page = w.page /\ AllNodes(done) = AllNodes(u)
          /\ done.rec.retryPayload = c.payload /\ done.rec.events = u.rec.events
          /\ done.rec.lastMeta = u.rec.lastMeta
      BY <2>6, <3>2, <3>3 DEF Sends, Rewrites, AllNodes
    <3>5. Lined(done)
      BY <2>6, <2>7, <2>10, <3>4
    <3>6. \A p \in S : Plays(S, p.nodes)
      <4>1. \A p \in w.net.sent : Plays(w.net.sent, p.nodes)
        BY DEF Played
      <4>2. Plays(w.net.sent, c.payload.nodes)
        BY <2>2 DEF Contented
      <4>3. QED BY <4>1, <4>2, PlaysMore
    <3>7. Played(done)
      BY <3>4, <3>5, <3>6 DEF Played
    <3>8. Frees(w, done) /\ (Rested(w) => Rested(done))
      BY <2>6, <2>8, <3>4 DEF Frees, Rested
    <3>9. ASSUME ~w.rec.isErrorMode, NEW n \in Nat, Due(w, n) PROVE Due(done, n)
      BY <2>6, <2>9, <3>4, <3>9 DEF Due
    <3>10. QED BY <3>7, <3>8, <3>9 DEF Settling, done
  <2>14. QED BY <2>11, <2>12, <2>13
<1>4. QED BY <1>1, <1>2, <1>3

LEMMA HarvestFlows == ASSUME NEW w \in Worlds, NEW final PROVE Flows(w, Harvest(w, final))
<1> DEFINE v == Harvest(w, final)
<1>1. CASE Played(w) /\ Rested(w)
  <2>1. Settling(w, v)
    BY <1>1, HarvestSettles
  <2> HIDE DEF v
  <2>2. Flows(w, v)
    BY <1>1, <2>1, FreesFlow DEF Settling
  <2>3. QED BY <2>2 DEF v
<1>2. CASE ~(Played(w) /\ Rested(w))
  BY <1>2 DEF Flows, Line, Pending
<1>3. QED BY <1>1, <1>2

\* A node is stored that comes after all others, a snapshot only when it is due.
Fits(w, node) ==
  /\ node.n <= w.net.emitted
  /\ w.agg.blocked \/ \A x \in Node : InNodes(AllNodes(w), x) => x.n < node.n
  /\ node.kind = "snap" => Due(w, node.n)
Lasts(node, v) == IF node.kind = "meta" THEN Due(v, node.n + 1) ELSE Rested(v)

LEMMA AppendParts ==
  ASSUME NEW s \in Seq(Node), NEW x \in Node
  PROVE  /\ Append(s, x) # <<>> /\ Last(Append(s, x)) = x
         /\ \A i \in DOMAIN Append(s, x) :
              Append(s, x)[i] = x \/ (i \in DOMAIN s /\ Append(s, x)[i] = s[i])
<1> DEFINE t == Append(s, x)
<1>1. /\ DOMAIN s = 1..Len(s) /\ Len(s) \in Nat /\ DOMAIN t = 1..(Len(s) + 1)
      /\ Len(t) = Len(s) + 1 /\ t[Len(s) + 1] = x /\ \A i \in 1..Len(s) : t[i] = s[i]
      /\ t # <<>>
  OBVIOUS
<1> HIDE DEF t
<1>2. Last(t) = x
  BY <1>1 DEF Last
<1>3. \A i \in DOMAIN t : t[i] = x \/ (i \in DOMAIN s /\ t[i] = s[i])
  BY <1>1
<1>4. QED BY <1>1, <1>2, <1>3 DEF t

LEMMA StoredLines ==
  ASSUME NEW w \in Worlds, ~w.agg.blocked, Played(w), NEW node \in Node, Fits(w, node),
         NEW v, Rewrites(w, v), v.rec.retryPayload = w.rec.retryPayload, Adds(w, node, v)
  PROVE  /\ Played(v) /\ Lasts(node, v)
         /\ \A x \in Node : InNodes(AllNodes(v), x) => x = node \/ InNodes(AllNodes(w), x)
<1> DEFINE b == w.rec.backlog.nodes
           e == w.rec.events.nodes
           s == IF v.rec.backlog = w.rec.backlog THEN b \o e ELSE e
           S == w.net.sent
           L == w.rec.lastMeta
<1>1. b \in Seq(Node) /\ e \in Seq(Node) /\ AllNodes(w) = b \o e
  BY NodesTyped DEF AllNodes
<1>2. /\ v \in Worlds /\ v.agg = w.agg /\ v.page = w.page /\ v.net = w.net
      /\ v.rec.lastMeta = L
  BY DEF Rewrites, Adds
<1>3. Lined(w)
  BY DEF Played
<1>4. \/ /\ v.rec.backlog.nodes = b /\ v.rec.events.nodes = Append(e, node)
         /\ AllNodes(v) = Append(b \o e, node)
      \/ /\ v.rec.backlog.nodes = e /\ v.rec.events.nodes = <<node>> /\ node.kind = "meta"
         /\ AllNodes(v) = Append(e, node)
  <2> HIDE DEF b, e
  <2>1. b \o Append(e, node) = Append(b \o e, node)
    BY <1>1
  <2>2. Append(<<>>, node) = <<node>> /\ e \o <<node>> = Append(e, node)
    BY <1>1
  <2>3. QED BY <2>1, <2>2 DEF Adds, AllNodes, b, e
<1>5. e # <<>> => /\ b \o e # <<>> /\ Last(b \o e) = Last(e)
  BY <1>1, AllIsBoth
<1>6. \A i \in DOMAIN (b \o e) : (b \o e)[i] \in Node /\ InNodes(AllNodes(w), (b \o e)[i])
  <2>1. \A i \in DOMAIN AllNodes(w) : AllNodes(w)[i] \in Node
    BY NodesTyped
  <2>2. QED BY <1>1, <2>1 DEF InNodes
<1>7. \A i \in DOMAIN e : e[i] \in Node /\ InNodes(AllNodes(w), e[i])
  <2>1. \A i \in DOMAIN e : InNodes(AllNodes(w), e[i])
    BY AllIsBoth
  <2> HIDE DEF e
  <2>2. QED BY <1>1, <2>1
<1>8. \A x \in Node : InNodes(AllNodes(w), x) => x.n < node.n
  BY DEF Fits
<1>9. node.kind = "snap" => \/ /\ e # <<>> /\ Last(e).kind = "meta" /\ Last(e).n + 1 = node.n
                            \/ /\ b \o e = <<>> /\ Led(S, L, node)
  BY <1>1 DEF Fits, Due, Led
<1>10. /\ Ascends(b \o e) /\ WellLed(S, L, b \o e) /\ (L # NoNode => L.kind = "meta")
       /\ b # <<>> /\ e # <<>> => e[1].kind # "snap"
       /\ \A i \in DOMAIN (b \o e) : (b \o e)[i].n <= w.net.emitted
  BY <1>1, <1>3 DEF Lined
<1> HIDE DEF b, e, S, L
<1>11. node.n \in Nat /\ w.net.emitted \in Nat /\ node.n <= w.net.emitted
  BY BoundAssumption DEF Fits, Node, Nodes, Worlds, NetType
<1>12. \A x \in Node : x.n \in Nat
  BY BoundAssumption DEF Node, Nodes
<1>13. CASE v.rec.backlog.nodes = b /\ v.rec.events.nodes = Append(e, node)
            /\ AllNodes(v) = Append(b \o e, node)
  <2> DEFINE t == b \o e
  <2>1. t \in Seq(Node)
    BY <1>1
  <2>2. node.kind = "snap" => \/ t = <<>> /\ Led(S, L, node)
                              \/ t # <<>> /\ t[Len(t)].kind = "meta" /\ t[Len(t)].n + 1 = node.n
    BY <1>5, <1>9 DEF Last
  <2> HIDE DEF t
  <2>3. Ascends(t) /\ WellLed(S, L, t) /\ \A i \in DOMAIN t : t[i].n < node.n
    BY <1>6, <1>8, <1>10 DEF t
  <2>4. Ascends(Append(t, node)) /\ WellLed(S, L, Append(t, node))
    BY <2>1, <2>2, <2>3, AppendLines
  <2>5. \A i \in DOMAIN Append(t, node) :
          Append(t, node)[i] = node \/ (i \in DOMAIN t /\ Append(t, node)[i] = t[i])
    BY <2>1, AppendParts
  <2>6. \A i \in DOMAIN Append(t, node) : Append(t, node)[i].n <= w.net.emitted
    BY <1>10, <1>11, <2>5 DEF t
  <2>7. b # <<>> => Append(e, node)[1].kind # "snap"
    <3>1. CASE e = <<>>
      <4>1. Append(e, node)[1] = node
        BY <1>1, <3>1
      <4>2. b # <<>> => b \o e # <<>>
        BY <1>1, <3>1
      <4>3. QED BY <1>9, <3>1, <4>1, <4>2
    <3>2. CASE e # <<>>
      <4>1. Append(e, node)[1] = e[1]
        BY <1>1, <3>2
      <4>2. QED BY <1>10, <3>2, <4>1
    <3>3. QED BY <3>1, <3>2
  <2>8. Lined(v)
    BY <1>2, <1>10, <1>13, <2>4, <2>6, <2>7 DEF Lined, t, S
  <2>9. Append(e, node) # <<>> /\ Last(Append(e, node)) = node
        /\ Append(t, node) # <<>> /\ Last(Append(t, node)) = node
    BY <1>1, <2>1, AppendParts
  <2>10. Lasts(node, v)
    BY <1>13, <2>9 DEF Lasts, Due, Rested, t
  <2>11. \A x \in Node : InNodes(AllNodes(v), x) => x = node \/ InNodes(AllNodes(w), x)
    BY <1>1, <1>13, <2>5 DEF InNodes, t
  <2>12. QED BY <1>2, <2>8, <2>10, <2>11 DEF Played
<1>14. CASE v.rec.backlog.nodes = e /\ v.rec.events.nodes = <<node>> /\ node.kind = "meta"
            /\ AllNodes(v) = Append(e, node)
  <2>1. Ascends(e) /\ \A i \in DOMAIN e : i > 1 /\ e[i].kind = "snap" => FollowsMeta(e, i)
    BY <1>1, <1>10, SuffixLines
  <2>2. WellLed(S, L, e)
    <3>1. e # <<>> /\ e[1].kind = "snap" => Led(S, L, e[1])
      <4> SUFFICES ASSUME e # <<>>, e[1].kind = "snap" PROVE Led(S, L, e[1])
        OBVIOUS
      <4>1. b = <<>>
        BY <1>10
      <4>2. b \o e = e /\ 1 \in DOMAIN e
        BY <1>1, <4>1
      <4>3. WellLed(S, L, e) /\ ~FollowsMeta(e, 1)
        BY <1>10, <4>2 DEF FollowsMeta
      <4>4. QED BY <1>14, <4>2, <4>3 DEF WellLed
    <3>2. DOMAIN e = 1..Len(e) /\ Len(e) \in Nat /\ (e = <<>> => DOMAIN e = {})
      BY <1>1
    <3>3. QED BY <2>1, <3>1, <3>2 DEF WellLed
  <2>3. \A i \in DOMAIN e : e[i].n < node.n /\ e[i].n \in Nat
    BY <1>7, <1>8, <1>12
  <2>4. Ascends(Append(e, node)) /\ WellLed(S, L, Append(e, node))
    BY <1>1, <1>14, <2>1, <2>2, <2>3, AppendLines
  <2>5. \A i \in DOMAIN Append(e, node) :
          Append(e, node)[i] = node \/ (i \in DOMAIN e /\ Append(e, node)[i] = e[i])
    BY <1>1, AppendParts
  <2>6. \A i \in DOMAIN Append(e, node) : Append(e, node)[i].n <= w.net.emitted
    BY <1>11, <2>3, <2>5
  <2>7. <<node>>[1] = node /\ <<node>> # <<>> /\ Last(<<node>>) = node
    BY DEF Last
  <2>8. Lined(v)
    BY <1>2, <1>10, <1>14, <2>4, <2>6, <2>7 DEF Lined, S
  <2>9. Lasts(node, v)
    BY <1>14, <2>7 DEF Lasts, Due
  <2>10. \A x \in Node : InNodes(AllNodes(v), x) => x = node \/ InNodes(AllNodes(w), x)
    BY <1>7, <1>14, <2>5 DEF InNodes
  <2>11. QED BY <1>2, <2>8, <2>9, <2>10 DEF Played
<1>15. QED BY <1>4, <1>13, <1>14

Stores(w, node, v) ==
  /\ v.page.queue = w.page.queue /\ v.net.emitted = w.net.emitted
  /\ v.agg.drain = w.agg.drain /\ (w.agg.blocked => v.agg.blocked)
  /\ Played(v) /\ Lasts(node, v)
  /\ v.agg.blocked \/ \A x \in Node : InNodes(AllNodes(v), x)
                                        => x = node \/ InNodes(AllNodes(w), x)

LEMMA StoreStores ==
  ASSUME NEW w \in Worlds, Played(w), NEW node \in Node, NEW isCheckout \in BOOLEAN,
         Fits(w, node)
  PROVE  Stores(w, node, Store(w, node, isCheckout))
<1>1. CASE w.agg.blocked
  <2>1. Store(w, node, isCheckout) = w
    BY <1>1 DEF Store
  <2>2. QED BY <1>1, <2>1 DEF Stores, Lasts, Due, Rested
<1>2. CASE ~w.agg.blocked
  <2> DEFINE v == Stored(w, node, isCheckout)
             h == Harvest(v, FALSE)
  <2>1. Store(w, node, isCheckout) = IF FillsPayload(v) /\ ~v.rec.isErrorMode THEN h ELSE v
    BY <1>2 DEF Store
  <2>2. Rewrites(w, v) /\ v.rec.retryPayload = w.rec.retryPayload /\ Adds(w, node, v)
    BY StoredRewrites
  <2> HIDE DEF v
  <2>3. /\ Played(v) /\ Lasts(node, v)
        /\ \A x \in Node : InNodes(AllNodes(v), x) => x = node \/ InNodes(AllNodes(w), x)
    BY <1>2, <2>2, StoredLines
  <2>4. Stores(w, node, v)
    BY <2>2, <2>3 DEF Stores, Rewrites
  <2>5. ASSUME ~v.rec.isErrorMode PROVE Stores(w, node, h)
    <3>1. Settling(v, h)
      BY <2>2, <2>3, <2>5, HarvestSettles DEF Rewrites
    <3> HIDE DEF h
    <3>2. Lasts(node, h)
      <4>1. node.n + 1 \in Nat
        BY BoundAssumption DEF Node, Nodes
      <4>2. QED BY <2>3, <2>5, <3>1, <4>1 DEF Lasts, Settling
    <3>3. QED BY <2>4, <3>1, <3>2 DEF Stores, Settling, Frees
  <2>6. QED BY <2>1, <2>4, <2>5
<1>3. QED BY <1>1, <1>2

-----------------------------------------------------------------------------
\* Before the drain is done what rrweb emits waits at the end of the queue.
LEMMA AppendItem ==
  ASSUME NEW q \in Seq(Item), NEW x \in Item
  PROVE  /\ Append(q, x) \in Seq(Item) /\ DOMAIN Append(q, x) = 1..(Len(q) + 1)
         /\ DOMAIN q = 1..Len(q) /\ Len(q) \in Nat /\ Len(Append(q, x)) = Len(q) + 1
         /\ Append(q, x)[Len(q) + 1] = x /\ \A i \in 1..Len(q) : Append(q, x)[i] = q[i]
<1> HIDE DEF Item
<1> QED OBVIOUS

LEMMA QueueOne ==
  ASSUME NEW q \in Seq(Item), NEW e \in Nat, Queued(q, e), NEW x \in Item,
         x.type = "node", x.node.n = e + 1, x.node.kind = "incr"
  PROVE  Queued(Append(q, x), e + 1) /\ (Steady(q) => Steady(Append(q, x)))
<1> DEFINE t == Append(q, x)
           m == Len(q)
<1>1. /\ DOMAIN t = 1..(m + 1) /\ DOMAIN q = 1..m /\ m \in Nat
      /\ t[m + 1] = x /\ \A i \in 1..m : t[i] = q[i]
  BY AppendItem
<1>2. q = <<>> => m = 0
  OBVIOUS
<1> HIDE DEF t, m
<1>3. \A i \in 1..m : IsNode(t, i) = IsNode(q, i)
  BY <1>1 DEF IsNode
<1>4. \A i \in 1..m : IsNode(q, i) => q[i].node.n <= e /\ q[i].node.n \in Nat
  <2>1. \A i \in 1..m : q[i] \in Item
    BY <1>1
  <2>2. \A i \in 1..m : IsNode(q, i) => q[i].node.n \in Nat
    BY <2>1, BoundAssumption DEF IsNode, Item, NodeItem, OtherItem, Node, Nodes
  <2>3. QED BY <1>1, <2>2 DEF Queued
<1>5. ASSUME NEW i \in DOMAIN t, NEW j \in DOMAIN t, i < j, IsNode(t, i), IsNode(t, j)
      PROVE  t[i].node.n < t[j].node.n
  <2>1. i \in 1..m
    BY <1>1, <1>5
  <2>2. CASE j \in 1..m
    BY <1>1, <1>3, <1>5, <2>1, <2>2 DEF Queued
  <2>3. CASE j = m + 1
    BY <1>1, <1>3, <1>4, <1>5, <2>1, <2>3
  <2>4. QED BY <1>1, <2>2, <2>3
<1>6. \A i \in DOMAIN t : IsNode(t, i) => t[i].node.n <= e + 1
  BY <1>1, <1>3, <1>4
<1>7. ASSUME NEW i \in DOMAIN t, IsNode(t, i), t[i].node.kind = "snap", i > 1
      PROVE  /\ IsNode(t, i - 1) /\ t[i - 1].node.kind = "meta"
             /\ t[i - 1].node.n + 1 = t[i].node.n
  <2>1. i \in 1..m /\ i - 1 \in 1..m
    BY <1>1, <1>7
  <2>2. QED BY <1>1, <1>3, <1>7, <2>1 DEF Queued
<1>8. ASSUME NEW i \in DOMAIN t, IsNode(t, i), t[i].node.kind = "meta"
      PROVE  i + 1 \in DOMAIN t /\ IsNode(t, i + 1) /\ t[i + 1].node.kind = "snap"
  <2>1. i \in 1..m
    BY <1>1, <1>8
  <2>2. i + 1 \in 1..m /\ IsNode(q, i + 1) /\ q[i + 1].node.kind = "snap"
    BY <1>1, <1>3, <1>8, <2>1 DEF Queued
  <2>3. QED BY <1>1, <1>3, <2>2
<1>9. Queued(t, e + 1)
  BY <1>5, <1>6, <1>7, <1>8 DEF Queued
<1>10. Steady(q) => Steady(t)
  BY <1>1, <1>2, <1>3 DEF Steady, IsNode
<1>11. QED BY <1>9, <1>10 DEF t

LEMMA QueueTwo ==
  ASSUME NEW q \in Seq(Item), NEW e \in Nat, Queued(q, e),
         NEW x \in Item, x.type = "node", x.node.n = e + 1, x.node.kind = "meta",
         NEW y \in Item, y.type = "node", y.node.n = e + 2, y.node.kind = "snap"
  PROVE  Queued(Append(Append(q, x), y), e + 2)
         /\ (Steady(q) => Steady(Append(Append(q, x), y)))
<1> DEFINE s == Append(q, x)
           t == Append(s, y)
           m == Len(q)
<1>1. /\ DOMAIN t = 1..(m + 2) /\ DOMAIN q = 1..m /\ m \in Nat
      /\ t[m + 1] = x /\ t[m + 2] = y /\ \A i \in 1..m : t[i] = q[i]
  <2>1. /\ s \in Seq(Item) /\ Len(s) = m + 1 /\ DOMAIN q = 1..m /\ m \in Nat
        /\ s[m + 1] = x /\ \A i \in 1..m : s[i] = q[i]
    BY AppendItem
  <2> HIDE DEF s
  <2>2. /\ DOMAIN t = 1..(Len(s) + 1) /\ t[Len(s) + 1] = y /\ \A i \in 1..Len(s) : t[i] = s[i]
    BY <2>1, AppendItem
  <2> HIDE DEF t, m
  <2>3. Len(s) + 1 = m + 2 /\ m + 1 \in 1..Len(s) /\ \A i \in 1..m : i \in 1..Len(s)
    BY <2>1
  <2>4. DOMAIN t = 1..(m + 2) /\ t[m + 2] = y
    BY <2>2, <2>3
  <2>5. t[m + 1] = x /\ \A i \in 1..m : t[i] = q[i]
    BY <2>1, <2>2, <2>3
  <2>6. QED BY <2>1, <2>4, <2>5
<1>2. q = <<>> => m = 0
  OBVIOUS
<1> HIDE DEF t, s, m
<1>3. \A i \in 1..m : IsNode(t, i) = IsNode(q, i)
  BY <1>1 DEF IsNode
<1>4. \A i \in 1..m : IsNode(q, i) => q[i].node.n <= e /\ q[i].node.n \in Nat
  <2>1. \A i \in 1..m : q[i] \in Item
    BY <1>1
  <2>2. \A i \in 1..m : IsNode(q, i) => q[i].node.n \in Nat
    BY <2>1, BoundAssumption DEF IsNode, Item, NodeItem, OtherItem, Node, Nodes
  <2>3. QED BY <1>1, <2>2 DEF Queued
<1>5. ASSUME NEW i \in DOMAIN t, NEW j \in DOMAIN t, i < j, IsNode(t, i), IsNode(t, j)
      PROVE  t[i].node.n < t[j].node.n
  <2>1. CASE j \in 1..m
    BY <1>1, <1>3, <1>5, <2>1 DEF Queued
  <2>2. CASE j \in {m + 1, m + 2} /\ i \in 1..m
    BY <1>1, <1>3, <1>4, <1>5, <2>2
  <2>3. CASE j = m + 2 /\ i = m + 1
    BY <1>1, <2>3
  <2>4. QED BY <1>1, <1>5, <2>1, <2>2, <2>3
<1>6. \A i \in DOMAIN t : IsNode(t, i) => t[i].node.n <= e + 2
  BY <1>1, <1>3, <1>4
<1>7. ASSUME NEW i \in DOMAIN t, IsNode(t, i), t[i].node.kind = "snap", i > 1
      PROVE  /\ IsNode(t, i - 1) /\ t[i - 1].node.kind = "meta"
             /\ t[i - 1].node.n + 1 = t[i].node.n
  <2>1. CASE i \in 1..m
    <3>1. i - 1 \in 1..m
      BY <1>1, <1>7, <2>1
    <3>2. QED BY <1>1, <1>3, <1>7, <2>1, <3>1 DEF Queued
  <2>2. CASE i = m + 2
    <3>1. i - 1 = m + 1
      BY <1>1, <2>2
    <3>2. QED BY <1>1, <2>2, <3>1 DEF IsNode
  <2>3. i # m + 1
    BY <1>1, <1>7
  <2>4. QED BY <1>1, <2>1, <2>2, <2>3
<1>8. ASSUME NEW i \in DOMAIN t, IsNode(t, i), t[i].node.kind = "meta"
      PROVE  i + 1 \in DOMAIN t /\ IsNode(t, i + 1) /\ t[i + 1].node.kind = "snap"
  <2>1. CASE i \in 1..m
    <3>1. i + 1 \in 1..m /\ IsNode(q, i + 1) /\ q[i + 1].node.kind = "snap"
      BY <1>1, <1>3, <1>8, <2>1 DEF Queued
    <3>2. QED BY <1>1, <1>3, <3>1
  <2>2. CASE i = m + 1
    <3>1. i + 1 = m + 2
      BY <1>1, <2>2
    <3>2. QED BY <1>1, <3>1 DEF IsNode
  <2>3. i # m + 2
    BY <1>1, <1>8
  <2>4. QED BY <1>1, <2>1, <2>2, <2>3
<1>9. Queued(t, e + 2)
  BY <1>5, <1>6, <1>7, <1>8 DEF Queued
<1>10. Steady(q) => Steady(t)
  BY <1>1, <1>2, <1>3 DEF Steady, IsNode
<1>11. QED BY <1>9, <1>10 DEF t, s

LEMMA NodesMore ==
  ASSUME NEW q \in Seq(Item), NEW x \in Item, x.type = "node", NodesOnly(q)
  PROVE  NodesOnly(Append(q, x))
<1>1. \A i \in DOMAIN Append(q, x) :
        Append(q, x)[i] = x \/ (i \in DOMAIN q /\ Append(q, x)[i] = q[i])
  BY AppendItem
<1>2. QED BY <1>1 DEF NodesOnly, IsNode

\* With a greater count what was in line is in line, and below what comes next.
LEMMA CountedPlays ==
  ASSUME NEW w \in Worlds, NEW v, Counted(w, v), Played(w)
  PROVE  /\ Played(v) /\ (Rested(w) => Rested(v)) /\ \A n \in Nat : Due(w, n) => Due(v, n)
         /\ AllNodes(v) = AllNodes(w)
         /\ w.agg.blocked \/ \A x \in Node : InNodes(AllNodes(v), x) => x.n < w.net.emitted + 1
<1>1. AllNodes(v) = AllNodes(w)
  BY DEF Counted, Numbered, AllNodes
<1>2. w.net.emitted \in Nat /\ \A x \in Node : x.n \in Nat
  BY BoundAssumption DEF Worlds, NetType, Node, Nodes
<1>3. \A i \in DOMAIN AllNodes(w) : AllNodes(w)[i].n \in Nat
  <2>1. \A i \in DOMAIN AllNodes(w) : AllNodes(w)[i] \in Node
    BY NodesTyped
  <2>2. QED BY <1>2, <2>1
<1>4. Lined(w) => /\ Lined(v)
                  /\ \A x \in Node : InNodes(AllNodes(v), x) => x.n < w.net.emitted + 1
  <2>1. \A i \in DOMAIN AllNodes(w) :
          AllNodes(w)[i].n <= w.net.emitted => /\ AllNodes(w)[i].n <= w.net.emitted + 1
                                               /\ AllNodes(w)[i].n < w.net.emitted + 1
    BY <1>2, <1>3
  <2>2. QED BY <1>1, <2>1 DEF Lined, Counted, Numbered, InNodes
<1>5. QED BY <1>1, <1>4 DEF Played, Rested, Due, Counted, Numbered

\* A node that goes to the recorder at once, and what it leaves
EmitsStored(w, kind, d) ==
  /\ Played(d) /\ Lasts(NextNode(w, kind), d) /\ d.net.emitted = w.net.emitted + 1
  /\ d.page.queue = w.page.queue /\ d.agg.drain = "done"

LEMMA EmitStores ==
  ASSUME NEW w \in Worlds, NEW kind \in {"meta", "snap", "incr"}, NEW isCheckout \in BOOLEAN,
         w.net.emitted # MaxNodes, ~w.agg.refused, w.agg.drain = "done", Played(w),
         kind = "snap" => Due(w, w.net.emitted + 1)
  PROVE  EmitsStored(w, kind, Emit(w, kind, isCheckout))
<1> DEFINE d == Emit(w, kind, isCheckout)
           node == NextNode(w, kind)
<1>1. Emits(w, node, isCheckout, d)
  BY EmitEmits
<1>2. node.n = w.net.emitted + 1 /\ node.kind = kind
  BY DEF NextNode
<1> HIDE DEF d, node
<1>3. PICK v : Counted(w, v) /\ v.page = w.page /\ d = Store(v, node, isCheckout)
  BY <1>1 DEF Emits
<1>4. v \in Worlds /\ node \in Node /\ v.agg = w.agg /\ v.net.emitted = w.net.emitted + 1
  BY <1>1, <1>3 DEF Counted, Numbered, Emits
<1>5. /\ Played(v) /\ \A n \in Nat : Due(w, n) => Due(v, n)
      /\ w.agg.blocked \/ \A x \in Node : InNodes(AllNodes(v), x) => x.n < w.net.emitted + 1
  BY <1>3, CountedPlays
<1>6. Fits(v, node)
  <2>1. node.n \in Nat
    BY <1>4, BoundAssumption DEF Node, Nodes
  <2>2. QED BY <1>2, <1>4, <1>5, <2>1 DEF Fits
<1>7. Stores(v, node, d)
  BY <1>3, <1>4, <1>5, <1>6, StoreStores
<1>8. QED BY <1>3, <1>4, <1>7 DEF EmitsStored, Stores, d, node

LEMMA BelowAppend ==
  ASSUME NEW w, NEW q \in Seq(Item), Below(w, q), NEW y \in Item,
         w.agg.blocked \/ \A x \in Node : InNodes(AllNodes(w), x) => x.n < y.node.n
  PROVE  Below(w, Append(q, y))
<1>1. \A i \in DOMAIN Append(q, y) :
        Append(q, y)[i] = y \/ (i \in DOMAIN q /\ Append(q, y)[i] = q[i])
  BY AppendItem
<1>2. QED BY <1>1 DEF Below, IsNode

\* An item that holds the next node is appended to what still is to be replayed.
EmitsQueued(w, node, isCheckout, d) ==
  /\ Counted(w, d) /\ d.page.queue = Append(w.page.queue, NodeItemOf(node, isCheckout))
  /\ NodeItemOf(node, isCheckout) \in Item

LEMMA EmitQueues ==
  ASSUME NEW w \in Worlds, NEW kind \in {"meta", "snap", "incr"}, NEW isCheckout \in BOOLEAN,
         w.net.emitted # MaxNodes, ~w.agg.refused, w.agg.drain # "done"
  PROVE  EmitsQueued(w, NextNode(w, kind), isCheckout, Emit(w, kind, isCheckout))
<1>1. Emits(w, NextNode(w, kind), isCheckout, Emit(w, kind, isCheckout))
  BY EmitEmits
<1>2. QED BY <1>1 DEF Emits, EmitsQueued, NodeItemOf, Item, NodeItem

LEMMA QueuedBelow ==
  ASSUME NEW w \in Worlds, NEW node \in Node, NEW isCheckout, NEW d,
         EmitsQueued(w, node, isCheckout, d), node.n = w.net.emitted + 1, Played(w),
         NEW p \in Seq(Item), Below(w, p \o w.page.queue)
  PROVE  /\ Played(d) /\ (Rested(w) => Rested(d)) /\ Below(d, p \o d.page.queue)
         /\ p \o d.page.queue = Append(p \o w.page.queue, NodeItemOf(node, isCheckout))
         /\ NodesOnly(w.page.queue) => NodesOnly(d.page.queue)
<1> DEFINE q == w.page.queue
           x == NodeItemOf(node, isCheckout)
<1>1. q \in Seq(Item) /\ x \in Item /\ x.type = "node" /\ x.node = node
  BY DEF Worlds, PageType, EmitsQueued, NodeItemOf
<1>2. d.page.queue = Append(q, x) /\ Counted(w, d) /\ d.agg = w.agg
  BY DEF EmitsQueued, Counted, Numbered
<1> HIDE DEF q, x
<1>3. p \o Append(q, x) = Append(p \o q, x) /\ p \o q \in Seq(Item)
  <2> HIDE DEF Item
  <2>1. QED BY <1>1
<1>4. /\ Played(d) /\ (Rested(w) => Rested(d)) /\ AllNodes(d) = AllNodes(w)
      /\ w.agg.blocked \/ \A y \in Node : InNodes(AllNodes(d), y) => y.n < w.net.emitted + 1
  BY <1>2, CountedPlays
<1>5. Below(d, p \o q)
  BY <1>2, <1>4 DEF Below, q
<1>6. Below(d, Append(p \o q, x))
  BY <1>1, <1>2, <1>3, <1>4, <1>5, BelowAppend
<1>7. NodesOnly(q) => NodesOnly(Append(q, x))
  BY <1>1, NodesMore
<1>8. QED BY <1>2, <1>3, <1>4, <1>6, <1>7 DEF q, x

\* A world whose drain is done and whose node went to the recorder
LEMMA StoredInLine ==
  ASSUME NEW w \in Worlds, NEW p \in Seq(Item), Line(w, p), w.agg.drain = "done", NEW d,
         d.page.queue = w.page.queue, Played(d), Rested(d)
  PROVE  Line(d, p)
<1>1. p \o d.page.queue = <<>>
  BY DEF Line, Pending
<1>2. QED BY <1>1 DEF Line, Pending, Queued, Below, Steady

LEMMA EmitFlows ==
  ASSUME NEW w \in Worlds, NEW isCheckout \in BOOLEAN
  PROVE  Flows(w, Emit(w, "incr", isCheckout))
<1> DEFINE d == Emit(w, "incr", isCheckout)
           node == NextNode(w, "incr")
<1> SUFFICES ASSUME NEW p \in Seq(Item), Line(w, p)
             PROVE  Line(d, p) /\ (NodesOnly(w.page.queue) => NodesOnly(d.page.queue))
  BY DEF Flows
<1>1. CASE w.net.emitted = MaxNodes \/ w.agg.refused
  <2>1. d = w
    BY <1>1 DEF Emit
  <2>2. QED BY <2>1
<1>2. CASE w.net.emitted # MaxNodes /\ ~w.agg.refused /\ w.agg.drain = "done"
  <2>1. EmitsStored(w, "incr", d)
    BY <1>2, EmitStores DEF Line, Pending
  <2> HIDE DEF d
  <2>2. Rested(d)
    BY <2>1 DEF EmitsStored, Lasts, NextNode
  <2>3. Line(d, p)
    BY <1>2, <2>1, <2>2, StoredInLine DEF EmitsStored
  <2>4. QED BY <2>1, <2>3 DEF EmitsStored
<1>3. CASE w.net.emitted # MaxNodes /\ ~w.agg.refused /\ w.agg.drain # "done"
  <2> DEFINE q == p \o w.page.queue
             x == NodeItemOf(node, isCheckout)
  <2>1. EmitsQueued(w, node, isCheckout, d)
    BY <1>3, EmitQueues
  <2>2. node \in Node /\ node.n = w.net.emitted + 1 /\ node.kind = "incr"
    <3>1. Emits(w, node, isCheckout, d)
      BY <1>3, EmitEmits
    <3>2. QED BY <3>1 DEF Emits, NextNode
  <2> HIDE DEF d, node
  <2>3. Played(w) /\ Rested(w) /\ Below(w, q) /\ Queued(q, w.net.emitted) /\ Steady(q)
    BY DEF Line, Pending
  <2>4. /\ Played(d) /\ Rested(d) /\ Below(d, p \o d.page.queue)
        /\ p \o d.page.queue = Append(q, x)
        /\ NodesOnly(w.page.queue) => NodesOnly(d.page.queue)
    BY <2>1, <2>2, <2>3, QueuedBelow
  <2>5. x \in Item /\ x.type = "node" /\ x.node = node /\ w.net.emitted \in Nat
        /\ q \in Seq(Item)
    <3>1. w.page.queue \in Seq(Item)
      BY DEF Worlds, PageType
    <3>2. q \in Seq(Item)
      <4> HIDE DEF Item
      <4>1. QED BY <3>1
    <3>3. QED BY <2>1, <3>2, BoundAssumption DEF EmitsQueued, NodeItemOf, Worlds, NetType
  <2> HIDE DEF x, q
  <2>6. Queued(Append(q, x), w.net.emitted + 1) /\ Steady(Append(q, x))
    BY <2>2, <2>3, <2>5, QueueOne
  <2>7. d.net.emitted = w.net.emitted + 1 /\ d.agg.drain # "done"
    BY <1>3, <2>1 DEF EmitsQueued, Counted, Numbered
  <2>8. Line(d, p)
    BY <2>4, <2>6, <2>7 DEF Line, Pending
  <2>9. QED BY <2>4, <2>8 DEF d
<1>4. QED BY <1>1, <1>2, <1>3

LEMMA EmitSnapshotFlows ==
  ASSUME NEW w \in Worlds, NEW isCheckout \in BOOLEAN
  PROVE  Flows(w, EmitSnapshot(w, isCheckout))
<1> DEFINE v == Emit(w, "meta", isCheckout)
           d == Emit(v, "snap", isCheckout)
           m == NextNode(w, "meta")
           s == NextNode(v, "snap")
<1> SUFFICES ASSUME NEW p \in Seq(Item), Line(w, p), EmitSnapshot(w, isCheckout) # w
             PROVE  /\ Line(EmitSnapshot(w, isCheckout), p)
                    /\ NodesOnly(w.page.queue)
                         => NodesOnly(EmitSnapshot(w, isCheckout).page.queue)
  BY DEF Flows
<1>1. EmitSnapshot(w, isCheckout) = d /\ ~(w.net.emitted + 2 > MaxNodes)
  BY DEF EmitSnapshot
<1>2. ~w.agg.refused
  <2>1. w.agg.refused => v = w
    BY DEF Emit
  <2>2. w.agg.refused => d = w
    BY <2>1 DEF Emit
  <2>3. QED BY <1>1, <2>2
<1>3. w.net.emitted \in Nat /\ MaxNodes \in Nat /\ w.net.emitted # MaxNodes
      /\ w.net.emitted + 1 # MaxNodes
  BY <1>1, BoundAssumption DEF Worlds, NetType
<1>4. v \in Worlds /\ v.agg.refused = w.agg.refused /\ v.agg.drain = w.agg.drain
  BY EmitRecords DEF Records, SameAgg
<1>5. Played(w) /\ Rested(w) /\ Below(w, p \o w.page.queue)
      /\ Queued(p \o w.page.queue, w.net.emitted) /\ Steady(p \o w.page.queue)
  BY DEF Line, Pending
<1>6. m.n = w.net.emitted + 1 /\ m.kind = "meta" /\ s.n = v.net.emitted + 1 /\ s.kind = "snap"
  BY DEF NextNode
<1>7. CASE w.agg.drain = "done"
  <2>1. EmitsStored(w, "meta", v)
    BY <1>2, <1>3, <1>5, <1>7, EmitStores
  <2> HIDE DEF v
  <2>2. v.net.emitted = w.net.emitted + 1 /\ Played(v) /\ Due(v, (w.net.emitted + 1) + 1)
    BY <1>6, <2>1 DEF EmitsStored, Lasts
  <2>3. EmitsStored(v, "snap", d)
    BY <1>2, <1>3, <1>4, <1>7, <2>2, EmitStores
  <2> HIDE DEF d
  <2>4. Rested(d)
    BY <1>6, <2>3 DEF EmitsStored, Lasts
  <2>5. d.page.queue = w.page.queue
    BY <2>1, <2>3 DEF EmitsStored
  <2>6. Line(d, p)
    BY <1>7, <2>3, <2>4, <2>5, StoredInLine DEF EmitsStored
  <2>7. QED BY <1>1, <2>5, <2>6
<1>8. CASE w.agg.drain # "done"
  <2> DEFINE q == p \o w.page.queue
             x == NodeItemOf(m, isCheckout)
             y == NodeItemOf(s, isCheckout)
  <2>1. EmitsQueued(w, m, isCheckout, v) /\ m \in Node
    <3>1. Emits(w, m, isCheckout, v)
      BY <1>2, <1>3, EmitEmits
    <3>2. QED BY <1>2, <1>3, <1>8, <3>1, EmitQueues DEF Emits
  <2> HIDE DEF v, m
  <2>2. v.net.emitted = w.net.emitted + 1
    BY <2>1 DEF EmitsQueued, Counted
  <2>3. EmitsQueued(v, s, isCheckout, d) /\ s \in Node
    <3>1. Emits(v, s, isCheckout, d)
      BY <1>2, <1>3, <1>4, <2>2, EmitEmits
    <3>2. QED BY <1>2, <1>3, <1>4, <1>8, <2>2, <3>1, EmitQueues DEF Emits
  <2> HIDE DEF s, d
  <2>4. /\ Played(v) /\ Rested(v) /\ Below(v, p \o v.page.queue)
        /\ p \o v.page.queue = Append(q, x)
        /\ NodesOnly(w.page.queue) => NodesOnly(v.page.queue)
    BY <1>5, <1>6, <2>1, QueuedBelow
  <2>5. /\ Played(d) /\ Rested(d) /\ Below(d, p \o d.page.queue)
        /\ p \o d.page.queue = Append(p \o v.page.queue, y)
        /\ NodesOnly(v.page.queue) => NodesOnly(d.page.queue)
    BY <1>4, <1>6, <2>3, <2>4, QueuedBelow
  <2>6. x \in Item /\ x.type = "node" /\ x.node = m /\ y \in Item /\ y.type = "node"
        /\ y.node = s
    BY <2>1, <2>3 DEF EmitsQueued, NodeItemOf
  <2>7. q \in Seq(Item)
    <3>1. w.page.queue \in Seq(Item)
      BY DEF Worlds, PageType
    <3> HIDE DEF Item
    <3>2. QED BY <3>1
  <2> HIDE DEF x, y, q
  <2>8. s.n = w.net.emitted + 2
    BY <1>3, <1>6, <2>2
  <2>9. Queued(Append(Append(q, x), y), w.net.emitted + 2) /\ Steady(Append(Append(q, x), y))
    BY <1>3, <1>5, <1>6, <2>6, <2>7, <2>8, QueueTwo DEF q
  <2>10. d.net.emitted = w.net.emitted + 2 /\ d.agg.drain # "done"
    BY <1>3, <1>4, <1>8, <2>2, <2>3 DEF EmitsQueued, Counted, Numbered
  <2>11. Line(d, p)
    BY <2>4, <2>5, <2>9, <2>10 DEF Line, Pending
  <2>12. QED BY <1>1, <2>4, <2>5, <2>11
<1>9. QED BY <1>7, <1>8
-----------------------------------------------------------------------------
(***************************************************************************)
(* The methods that start and stop a recording                             *)
(***************************************************************************)
Goes(w, v) ==
  /\ v \in Worlds /\ Core(v) /\ Quiet(w, v) /\ Flows(w, v)
  /\ v.agg.loaded = w.agg.loaded /\ v.agg.refused = w.agg.refused
  /\ v.agg.entitled = w.agg.entitled /\ v.agg.flagged = w.agg.flagged
  /\ v.agg.drain = w.agg.drain /\ v.agg.isRetrying = w.agg.isRetrying
  /\ v.net.reason = w.net.reason /\ v.net.paused = w.net.paused

LEMMA GoesNowhere == ASSUME NEW w \in Worlds, Core(w) PROVE Goes(w, w)
BY DEF Goes, Quiet, Flows

LEMMA GoesOn ==
  ASSUME NEW u, NEW w, NEW v, Goes(u, w), Goes(w, v) PROVE Goes(u, v)
BY FlowsOn DEF Goes, Quiet

LEMMA KeepsOn ==
  ASSUME NEW u, NEW w, NEW v, Keeps(u, w), Keeps(w, v), Goes(w, v) PROVE Keeps(u, v)
BY KeepsCompose DEF Goes, Quiet

LEMMA RecordsGo ==
  ASSUME NEW w, NEW v, Core(w), Records(w, v), Flows(w, v) PROVE Goes(w, v)
BY DEF Records, Goes, SameAgg

\* The three parts of Agreed
Initialized(w) == w.agg.entitled => w.agg.initialized
Matches(w) ==
  w.agg.entitled /\ w.agg.recorder /\ ~w.agg.blocked /\ w.agg.waiting = <<>>
    => w.agg.mode = w.page.mode
PausedOff(w) == w.net.paused /\ w.agg.mode = "off" => w.page.mode \in {"off", Unset}

LEMMA AgreedParts ==
  ASSUME NEW w PROVE Agreed(w) <=> Initialized(w) /\ Matches(w) /\ PausedOff(w)
BY DEF Agreed, Initialized, Matches, PausedOff

\* A change of the page other than of its queue; the session's mode is what it
\* was or becomes the replay's.
Pages(w, v) ==
  /\ v \in Worlds /\ v.inst = w.inst /\ v.agg = w.agg /\ v.rec = w.rec /\ v.net = w.net
  /\ v.page.mode \in {w.page.mode, w.agg.mode} /\ v.page.queue = w.page.queue

LEMMA PagesGo ==
  ASSUME NEW w \in Worlds, Core(w), NEW v, Pages(w, v) PROVE Goes(w, v) /\ Keeps(w, v)
<1>1. AllNodes(v) = AllNodes(w)
  BY DEF Pages, AllNodes
<1>2. Reasoned(v) /\ Ordered(v) /\ Filled(v)
  BY <1>1 DEF Pages, Core, Reasoned, Ordered, Filled
<1>3. Waits(v)
  <2>1. CallsFor(v) = CallsFor(w) /\ WaitersFor(v) = WaitersFor(w) /\ ItemsFor(v) = ItemsFor(w)
    BY ForSame DEF Pages
  <2>2. QED BY <2>1 DEF Core, Waits, Pages
<1>4. Flows(w, v)
  <2>1. Untouched(w, v)
    BY DEF Pages, Untouched
  <2>2. QED BY <2>1, UntouchedFlow DEF Pages
<1>5. QED BY <1>1, <1>2, <1>3, <1>4 DEF Pages, Goes, Core, Quiet, Keeps, Carried

\* A change of the mode, or of whether the replay is initialized and staged
Flips(w, v) ==
  /\ v \in Worlds /\ v.inst = w.inst /\ v.rec = w.rec /\ v.page = w.page /\ v.net = w.net
  /\ v.agg.loaded = w.agg.loaded /\ v.agg.refused = w.agg.refused
  /\ v.agg.recorder = w.agg.recorder /\ v.agg.blocked = w.agg.blocked
  /\ v.agg.entitled = w.agg.entitled /\ v.agg.flagged = w.agg.flagged
  /\ v.agg.drain = w.agg.drain /\ v.agg.isRetrying = w.agg.isRetrying
  /\ v.agg.compressor = w.agg.compressor /\ v.agg.waiting = w.agg.waiting

LEMMA FlipsGo ==
  ASSUME NEW w \in Worlds, Core(w), NEW v, Flips(w, v), v.agg.mode = "full" => w.net.reason
  PROVE  Goes(w, v) /\ Keeps(w, v)
<1>1. AllNodes(v) = AllNodes(w)
  BY DEF Flips, AllNodes
<1>2. Reasoned(v) /\ Ordered(v) /\ Filled(v)
  BY <1>1 DEF Flips, Core, Reasoned, Ordered, Filled
<1>3. Waits(v)
  <2>1. CallsFor(v) = CallsFor(w) /\ WaitersFor(v) = WaitersFor(w) /\ ItemsFor(v) = ItemsFor(w)
    BY ForSame DEF Flips
  <2>2. QED BY <2>1 DEF Core, Waits, Flips
<1>4. Flows(w, v)
  <2>1. Untouched(w, v)
    BY DEF Flips, Untouched
  <2>2. QED BY <2>1, UntouchedFlow DEF Flips
<1>5. QED BY <1>1, <1>2, <1>3, <1>4 DEF Flips, Goes, Core, Quiet, Keeps, Carried

\* A recording begins, unless it may not.  Its first snapshot may end in an abort.
Begins(w, v) ==
  /\ v.inst = w.inst /\ SameAgg(v.agg, w.agg) /\ v.page.visible = w.page.visible
  /\ \/ v.agg.mode = w.agg.mode /\ v.agg.blocked = w.agg.blocked /\ v.page.mode = w.page.mode
     \/ v.agg.mode = "off" /\ v.agg.blocked /\ v.page.mode = "off"

LEMMA BeginsAgree ==
  ASSUME NEW w, NEW v, Begins(w, v), Goes(w, v), Agreed(w) PROVE Agreed(v)
BY DEF Begins, Goes, SameAgg, Agreed, Unset

Arms(w, v) ==
  Goes(w, v) /\ Keeps(w, v) /\ v.inst = w.inst /\ v.agg = w.agg /\ v.page = w.page

LEMMA Triggered ==
  ASSUME NEW w \in Worlds, Core(w), NEW trigger \in Triggers, NEW e \in BOOLEAN,
         trigger = "api" => w.net.reason,
         NEW v, v = [w EXCEPT !.rec.trigger = trigger, !.rec.isErrorMode = e]
  PROVE  Arms(w, v)
<1> DEFINE r == [w.rec EXCEPT !.trigger = trigger, !.isErrorMode = e]
<1>1. /\ r \in RecType /\ r.backlog = w.rec.backlog /\ r.events = w.rec.events
      /\ r.retryPayload = w.rec.retryPayload /\ r.trigger = trigger /\ r.isErrorMode = e
      /\ r.lastMeta = w.rec.lastMeta
  BY DEF Worlds, RecType
<1>2. v = [w EXCEPT !.rec = r]
  BY DEF Worlds, RecType
<1> HIDE DEF r
<1>3. v \in Worlds /\ v.inst = w.inst /\ v.agg = w.agg /\ v.page = w.page /\ v.net = w.net
      /\ v.rec = r
  BY <1>1, <1>2 DEF Worlds
<1>4. AllNodes(v) = AllNodes(w)
  BY <1>1, <1>3 DEF AllNodes
<1>5. Reasoned(v) /\ Ordered(v) /\ Filled(v)
  BY <1>1, <1>3, <1>4 DEF Core, Reasoned, Ordered, Filled
<1>6. Waits(v)
  <2>1. CallsFor(v) = CallsFor(w) /\ WaitersFor(v) = WaitersFor(w) /\ ItemsFor(v) = ItemsFor(w)
    BY <1>3, ForSame
  <2>2. QED BY <1>3, <2>1 DEF Core, Waits
<1>7. Flows(w, v)
  <2>1. Untouched(w, v)
    BY <1>1, <1>3 DEF Untouched
  <2>2. QED BY <1>3, <2>1, UntouchedFlow
<1>8. QED BY <1>1, <1>3, <1>4, <1>5, <1>6, <1>7 DEF Arms, Goes, Core, Quiet, Keeps, Carried

LEMMA Recording ==
  ASSUME NEW w \in Worlds, NEW v, v = [w EXCEPT !.page.isRecording = TRUE]
  PROVE  Pages(w, v) /\ v.page.mode = w.page.mode /\ v.page.visible = w.page.visible
<1> DEFINE p == [w.page EXCEPT !.isRecording = TRUE]
<1>1. p \in PageType /\ p.mode = w.page.mode /\ p.queue = w.page.queue
      /\ p.visible = w.page.visible
  BY DEF Worlds, PageType
<1>2. v = [w EXCEPT !.page = p]
  BY DEF Worlds, PageType
<1> HIDE DEF p
<1>3. QED BY <1>1, <1>2 DEF Pages, Worlds

LEMMA Running ==
  ASSUME NEW w \in Worlds, NEW v, v = [w EXCEPT !.page.rrweb = TRUE]
  PROVE  Pages(w, v) /\ v.page.mode = w.page.mode /\ v.page.visible = w.page.visible
<1> DEFINE p == [w.page EXCEPT !.rrweb = TRUE]
<1>1. p \in PageType /\ p.mode = w.page.mode /\ p.queue = w.page.queue
      /\ p.visible = w.page.visible
  BY DEF Worlds, PageType
<1>2. v = [w EXCEPT !.page = p]
  BY DEF Worlds, PageType
<1> HIDE DEF p
<1>3. QED BY <1>1, <1>2 DEF Pages, Worlds

LEMMA StartRecordingBegins ==
  ASSUME NEW w \in Worlds, Core(w), NEW trigger \in Triggers, NEW mode \in Mode,
         trigger = "api" => w.net.reason
  PROVE  /\ Goes(w, StartRecording(w, trigger, mode)) /\ Keeps(w, StartRecording(w, trigger, mode))
         /\ Begins(w, StartRecording(w, trigger, mode))
<1>1. CASE ~w.rec.canRecord
  <2>1. StartRecording(w, trigger, mode) = w
    BY <1>1 DEF StartRecording
  <2>2. QED BY <2>1, GoesNowhere, RecordsNothing DEF Begins, SameAgg
<1>2. CASE w.rec.canRecord
  <2> DEFINE e == mode = "error"
             u == [w EXCEPT !.rec.trigger = trigger, !.rec.isErrorMode = e]
             v == Stop(u)
             t == [v EXCEPT !.page.isRecording = TRUE]
             s == EmitSnapshot(t, FALSE)
             d == [s EXCEPT !.page.rrweb = TRUE]
  <2>1. StartRecording(w, trigger, mode) = d
    BY <1>2 DEF StartRecording
  <2>2. e \in BOOLEAN
    OBVIOUS
  <2> HIDE DEF e
  <2>u. u = [w EXCEPT !.rec.trigger = trigger, !.rec.isErrorMode = e]
    OBVIOUS
  <2> HIDE DEF u
  <2>3. Goes(w, u) /\ Keeps(w, u) /\ u.inst = w.inst /\ u.agg = w.agg /\ u.page = w.page
    <3>1. Arms(w, u)
      BY <2>2, <2>u, Triggered, Zenon
    <3>2. QED BY <3>1 DEF Arms
  <2>4. Pages(u, v) /\ v.page.mode = u.page.mode /\ v.page.visible = u.page.visible
    BY <2>3, StopStops DEF Goes, Stops, Pages
  <2> HIDE DEF v
  <2>5. Goes(w, v) /\ Keeps(w, v)
    <3>1. Goes(u, v) /\ Keeps(u, v)
      BY <2>3, <2>4, PagesGo DEF Goes
    <3>2. QED BY <2>3, <3>1, GoesOn, KeepsOn
  <2>6. Pages(v, t) /\ t.page.mode = v.page.mode /\ t.page.visible = v.page.visible
    BY <2>5, Recording DEF Goes
  <2> HIDE DEF t
  <2>7. Goes(w, t) /\ Keeps(w, t)
    <3>1. Goes(v, t) /\ Keeps(v, t)
      BY <2>5, <2>6, PagesGo DEF Goes
    <3>2. QED BY <2>5, <3>1, GoesOn, KeepsOn
  <2>8. Records(t, s) /\ Keeps(t, s) /\ Flows(t, s)
    BY <2>7, EmitSnapshotRecords, EmitSnapshotFlows DEF Goes, Drops
  <2> HIDE DEF s
  <2>9. Goes(w, s) /\ Keeps(w, s)
    <3>1. Goes(t, s)
      BY <2>7, <2>8, RecordsGo DEF Goes
    <3>2. QED BY <2>7, <2>8, <3>1, GoesOn, KeepsOn
  <2>10. Pages(s, d) /\ d.page.mode = s.page.mode /\ d.page.visible = s.page.visible
    BY <2>9, Running DEF Goes
  <2> HIDE DEF d
  <2>11. Goes(w, d) /\ Keeps(w, d)
    <3>1. Goes(s, d) /\ Keeps(s, d)
      BY <2>9, <2>10, PagesGo DEF Goes
    <3>2. QED BY <2>9, <3>1, GoesOn, KeepsOn
  <2>12. Begins(w, d)
    <3>1. t.inst = w.inst /\ t.agg = w.agg /\ t.page.mode = w.page.mode
          /\ t.page.visible = w.page.visible
      BY <2>3, <2>4, <2>6 DEF Pages
    <3>2. Begins(w, s)
      BY <2>8, <3>1 DEF Records, Begins
    <3>3. QED BY <2>10, <3>2 DEF Begins, Pages
  <2>13. QED BY <2>1, <2>11, <2>12
<1>3. QED BY <1>1, <1>2
-----------------------------------------------------------------------------
(***************************************************************************)
(* initializeRecording and what follows its imports                        *)
(***************************************************************************)
Moves(w, v) == Goes(w, v) /\ Keeps(w, v)

LEMMA MovesNowhere == ASSUME NEW w \in Worlds, Core(w) PROVE Moves(w, w)
BY GoesNowhere, RecordsNothing DEF Moves

LEMMA MovesOn == ASSUME NEW u, NEW w, NEW v, Moves(u, w), Moves(w, v) PROVE Moves(u, v)
BY GoesOn, KeepsOn DEF Moves

\* A method that moves on and leaves the instrument alone; what it does to the modes
Ends(w, v) ==
  /\ Moves(w, v) /\ v.inst = w.inst /\ v.page = w.page
  /\ v.agg.mode = w.agg.mode /\ v.agg.recorder = w.agg.recorder
  /\ v.agg.initialized = w.agg.initialized /\ v.agg.blocked = w.agg.blocked
  /\ v.agg.waiting = w.agg.waiting

LEMMA EndsAgree == ASSUME NEW w, NEW v, Ends(w, v), Agreed(w) PROVE Agreed(v)
BY DEF Ends, Moves, Goes, Agreed

LEMMA FinishEnds ==
  ASSUME NEW w \in Worlds, Core(w), NEW call PROVE Ends(w, Finish(w, call))
<1>1. CASE ~call.drains
  <2>1. Finish(w, call) = w
    BY <1>1 DEF Finish
  <2>2. QED BY <2>1, MovesNowhere DEF Ends
<1>2. CASE call.drains
  <2> DEFINE a == [w.agg EXCEPT !.staged = TRUE]
             v == [w EXCEPT !.agg = a]
  <2>1. Finish(w, call) = v
    BY <1>2 DEF Finish, Worlds, AggType
  <2>2. /\ a \in AggType /\ SameAgg([a EXCEPT !.staged = w.agg.staged], w.agg)
        /\ a.loaded = w.agg.loaded /\ a.refused = w.agg.refused /\ a.recorder = w.agg.recorder
        /\ a.initialized = w.agg.initialized /\ a.entitled = w.agg.entitled
        /\ a.flagged = w.agg.flagged /\ a.drain = w.agg.drain
        /\ a.isRetrying = w.agg.isRetrying /\ a.compressor = w.agg.compressor
        /\ a.waiting = w.agg.waiting /\ a.mode = w.agg.mode /\ a.blocked = w.agg.blocked
    BY DEF Worlds, AggType, SameAgg
  <2> HIDE DEF a
  <2>3. Flips(w, v) /\ v.agg = a
    BY <2>2 DEF Flips, Worlds
  <2> HIDE DEF v
  <2>4. v.agg.mode = "full" => w.net.reason
    <3>1. w.net.reason \in BOOLEAN
      BY DEF Worlds, NetType
    <3>2. QED BY <2>2, <2>3, <3>1 DEF Core, Reasoned
  <2>5. Moves(w, v)
    BY <2>3, <2>4, FlipsGo DEF Moves
  <2>6. Ends(w, v)
    BY <2>2, <2>3, <2>5 DEF Ends, Flips
  <2>7. QED BY <2>1, <2>6
<1>3. QED BY <1>1, <1>2

LEMMA WriteModeMoves ==
  ASSUME NEW w \in Worlds, Core(w)
  PROVE  Moves(w, WriteMode(w)) /\ (Initialized(w) => Agreed(WriteMode(w)))
         /\ WriteMode(w).inst = w.inst
<1> DEFINE v == WriteMode(w)
<1>1. Writes(w, v)
  BY WriteModeWrites
<1> HIDE DEF v
<1>2. Pages(w, v)
  BY <1>1 DEF Writes, Pages
<1>3. Moves(w, v)
  BY <1>2, PagesGo DEF Moves
<1>4. Initialized(w) => Agreed(v)
  BY <1>1 DEF Writes, Initialized, Agreed
<1>5. QED BY <1>1, <1>3, <1>4 DEF v, Writes

LEMMA AfterCompressorMoves ==
  ASSUME NEW w \in Worlds, Core(w), NEW call \in CallsFor(w)
  PROVE  /\ Moves(w, AfterCompressor(w, call)) /\ AfterCompressor(w, call).inst = w.inst
         /\ Initialized(w) => Agreed(AfterCompressor(w, call))
<1> DEFINE v == IF w.page.isRecording THEN w ELSE StartRecording(w, call.trigger, w.agg.mode)
           u == WriteMode(v)
           t == Finish(u, call)
<1>1. AfterCompressor(w, call) = t
  BY DEF AfterCompressor
<1>2. Moves(w, v) /\ Begins(w, v)
  <2>1. call.trigger \in Triggers /\ (call.trigger = "api" => w.net.reason)
    BY DEF CallsFor, Call, Triggers
  <2>2. w.agg.mode \in Mode
    BY DEF Worlds, AggType
  <2> DEFINE s == StartRecording(w, call.trigger, w.agg.mode)
  <2>3. Goes(w, s) /\ Keeps(w, s) /\ Begins(w, s)
    BY <2>1, <2>2, StartRecordingBegins
  <2> HIDE DEF s
  <2>4. CASE w.page.isRecording
    <3>1. v = w
      BY <2>4
    <3>2. QED BY <3>1, MovesNowhere DEF Begins, SameAgg
  <2>5. CASE ~w.page.isRecording
    <3>1. v = s
      BY <2>5 DEF s
    <3>2. QED BY <2>3, <3>1 DEF Moves
  <2>6. QED BY <2>4, <2>5
<1> HIDE DEF v
<1>3. v \in Worlds /\ Core(v)
  BY <1>2 DEF Moves, Goes
<1>4. Moves(v, u) /\ u.inst = v.inst /\ (Initialized(v) => Agreed(u))
  BY <1>3, WriteModeMoves
<1> HIDE DEF u
<1>5. Ends(u, t)
  BY <1>4, FinishEnds DEF Moves, Goes
<1> HIDE DEF t
<1>6. Moves(w, t)
  BY <1>2, <1>4, <1>5, MovesOn DEF Ends
<1>7. Initialized(w) => Initialized(v)
  BY <1>2 DEF Initialized, Begins, SameAgg
<1>8. Initialized(w) => Agreed(t)
  BY <1>4, <1>5, <1>7, EndsAgree
<1>9. QED BY <1>1, <1>2, <1>4, <1>5, <1>6, <1>8 DEF Begins, Ends

\* The aggregate learns of the recorder and, when an error was noticed, goes to full.
Learns(w, v) ==
  /\ Moves(w, v) /\ v.inst = w.inst /\ v.page = w.page /\ v.agg.recorder
  /\ v.agg.waiting = w.agg.waiting /\ v.agg.compressor = w.agg.compressor
  /\ (v.agg.mode = "off" <=> w.agg.mode = "off")
  /\ v.agg.initialized = w.agg.initialized

LEMMA RecorderLearnt ==
  ASSUME NEW w \in Worlds, Core(w), w.inst.recorder = "ready", NEW m \in Mode,
         m = w.agg.mode \/ (w.agg.mode = "error" /\ w.inst.errorNoticed /\ m = "full"),
         NEW v, v = [w EXCEPT !.agg.recorder = TRUE, !.agg.mode = m]
  PROVE  Learns(w, v)
<1> DEFINE a == [w.agg EXCEPT !.recorder = TRUE, !.mode = m]
<1>1. /\ a \in AggType /\ a.recorder = TRUE /\ a.mode = m
      /\ a.loaded = w.agg.loaded /\ a.refused = w.agg.refused
      /\ a.initialized = w.agg.initialized /\ a.entitled = w.agg.entitled
      /\ a.flagged = w.agg.flagged /\ a.drain = w.agg.drain
      /\ a.isRetrying = w.agg.isRetrying /\ a.compressor = w.agg.compressor
      /\ a.waiting = w.agg.waiting /\ a.blocked = w.agg.blocked
  BY DEF Worlds, AggType
<1>2. v = [w EXCEPT !.agg = a]
  BY DEF Worlds, AggType
<1> HIDE DEF a
<1>3. v \in Worlds /\ v.inst = w.inst /\ v.agg = a /\ v.rec = w.rec /\ v.page = w.page
      /\ v.net = w.net
  BY <1>1, <1>2 DEF Worlds
<1>4. AllNodes(v) = AllNodes(w)
  BY <1>3 DEF AllNodes
<1>5. w.net.reason \in BOOLEAN /\ w.inst.errorNoticed \in BOOLEAN
  BY DEF Worlds, NetType, InstType
<1>6. Reasoned(v) /\ Ordered(v) /\ Filled(v)
  BY <1>1, <1>3, <1>4, <1>5 DEF Core, Reasoned, Ordered, Filled
<1>7. Waits(v)
  <2>1. CallsFor(v) = CallsFor(w) /\ WaitersFor(v) = WaitersFor(w) /\ ItemsFor(v) = ItemsFor(w)
    <3>1. v.net.reason = w.net.reason /\ v.agg.entitled = w.agg.entitled
      BY <1>1, <1>3
    <3>2. QED BY <3>1, ForSame
  <2>2. QED BY <1>1, <1>3, <2>1 DEF Core, Waits
<1>u. Untouched(w, v)
  BY <1>1, <1>3, <1>4 DEF Untouched
<1>f. Flows(w, v)
  BY <1>3, <1>4, <1>u, UntouchedFlow
<1>8. Moves(w, v)
  BY <1>1, <1>3, <1>4, <1>6, <1>7, <1>f DEF Moves, Goes, Core, Quiet, Keeps, Carried
<1>9. QED BY <1>1, <1>3, <1>8 DEF Learns

\* A call waits for the compressor.
Suspends(w, v) ==
  /\ Moves(w, v) /\ v.inst = w.inst /\ v.page = w.page /\ v.agg.waiting # <<>>
  /\ v.agg.mode = w.agg.mode /\ v.agg.initialized = w.agg.initialized

LEMMA CallSuspends ==
  ASSUME NEW w \in Worlds, Core(w), w.agg.recorder, w.agg.entitled, NEW call \in CallsFor(w),
         NEW v, v = [w EXCEPT !.agg.compressor = "loading", !.agg.waiting = Append(@, call)]
  PROVE  Suspends(w, v)
<1> DEFINE q == Append(w.agg.waiting, call)
           a == [w.agg EXCEPT !.compressor = "loading", !.waiting = q]
           C == CallsFor(w)
<1>1. q \in Seq(Call) /\ q \in Seq(CallsFor(w)) /\ q # <<>>
  <2>1. w.agg.waiting \in Seq(Call) /\ w.agg.waiting \in Seq(C) /\ call \in Call /\ call \in C
    BY DEF Worlds, AggType, Core, Waits, CallsFor
  <2> HIDE DEF C
  <2>2. q \in Seq(Call) /\ q \in Seq(C) /\ q # <<>>
    BY <2>1
  <2>3. QED BY <2>2 DEF C
<1>2. v = [w EXCEPT !.agg = a]
  BY DEF Worlds, AggType
<1> HIDE DEF q, C
<1>3. /\ a \in AggType /\ a.recorder = w.agg.recorder /\ a.mode = w.agg.mode
      /\ a.loaded = w.agg.loaded /\ a.refused = w.agg.refused
      /\ a.initialized = w.agg.initialized /\ a.entitled = w.agg.entitled
      /\ a.flagged = w.agg.flagged /\ a.drain = w.agg.drain
      /\ a.isRetrying = w.agg.isRetrying /\ a.compressor = "loading"
      /\ a.waiting = q /\ a.blocked = w.agg.blocked
  BY <1>1 DEF Worlds, AggType
<1> HIDE DEF a
<1>4. v \in Worlds /\ v.inst = w.inst /\ v.agg = a /\ v.rec = w.rec /\ v.page = w.page
      /\ v.net = w.net
  BY <1>2, <1>3 DEF Worlds
<1>5. AllNodes(v) = AllNodes(w)
  BY <1>4 DEF AllNodes
<1>6. Reasoned(v) /\ Ordered(v) /\ Filled(v)
  <2>1. Reasoned(v)
    BY <1>3, <1>4 DEF Core, Reasoned
  <2>2. Ordered(v)
    BY <1>3, <1>4 DEF Core, Ordered
  <2>3. Filled(v)
    BY <1>3, <1>4, <1>5 DEF Core, Filled
  <2>4. QED BY <2>1, <2>2, <2>3
<1>7. Waits(v)
  <2>1. CallsFor(v) = CallsFor(w) /\ WaitersFor(v) = WaitersFor(w) /\ ItemsFor(v) = ItemsFor(w)
    BY <1>3, <1>4, ForSame
  <2>2. QED BY <1>1, <1>3, <1>4, <2>1 DEF Core, Waits
<1>u. Untouched(w, v)
  BY <1>1, <1>3, <1>4 DEF Untouched
<1>f. Flows(w, v)
  BY <1>3, <1>4, <1>u, UntouchedFlow
<1>8. Moves(w, v)
  BY <1>3, <1>4, <1>5, <1>6, <1>7, <1>f DEF Moves, Goes, Core, Quiet, Keeps, Carried
<1>9. QED BY <1>1, <1>3, <1>4, <1>8 DEF Suspends

LEMMA AfterRecorderMoves ==
  ASSUME NEW w \in Worlds, Core(w), w.inst.recorder = "ready", w.agg.entitled,
         NEW call \in CallsFor(w)
  PROVE  /\ Moves(w, AfterRecorder(w, call)) /\ AfterRecorder(w, call).inst = w.inst
         /\ Initialized(w) /\ PausedOff(w) => Agreed(AfterRecorder(w, call))
<1> DEFINE m == IF w.agg.mode = "error" /\ w.inst.errorNoticed THEN "full" ELSE w.agg.mode
           v == [w EXCEPT !.agg.recorder = TRUE, !.agg.mode = m]
           u == [v EXCEPT !.agg.compressor = "loading", !.agg.waiting = Append(@, call)]
           c == AfterCompressor(v, call)
<1>1. m \in Mode
  BY Constants DEF Worlds, AggType
<1>2. AfterRecorder(w, call) = IF v.agg.compressor = "ready" THEN c ELSE u
  <2> DEFINE x == [w EXCEPT !.agg.recorder = TRUE,
                           !.agg.mode = IF @ = "error" /\ w.inst.errorNoticed THEN "full" ELSE @]
  <2>1. AfterRecorder(w, call)
          = IF x.agg.compressor = "ready" THEN AfterCompressor(x, call)
            ELSE [x EXCEPT !.agg.compressor = "loading", !.agg.waiting = Append(@, call)]
    BY Zenon DEF AfterRecorder
  <2>2. x = v
    BY DEF Worlds, AggType
  <2> HIDE DEF v, x
  <2>3. QED BY <2>1, <2>2
<1>3. m = w.agg.mode \/ (w.agg.mode = "error" /\ w.inst.errorNoticed /\ m = "full")
  OBVIOUS
<1>v. v = [w EXCEPT !.agg.recorder = TRUE, !.agg.mode = m]
  OBVIOUS
<1> HIDE DEF m, v
<1>4. Learns(w, v)
  BY <1>1, <1>3, <1>v, RecorderLearnt, Zenon
<1>5. v \in Worlds /\ Core(v) /\ v.agg.recorder /\ v.agg.entitled /\ call \in CallsFor(v)
  BY <1>4 DEF Learns, Moves, Goes, CallsFor
<1>6. Moves(v, c) /\ c.inst = v.inst /\ (Initialized(v) => Agreed(c))
  BY <1>5, AfterCompressorMoves
<1>u. u = [v EXCEPT !.agg.compressor = "loading", !.agg.waiting = Append(@, call)]
  OBVIOUS
<1> HIDE DEF c, u
<1>7. Suspends(v, u)
  BY <1>5, <1>u, CallSuspends, Zenon
<1>8. Moves(w, c) /\ Moves(w, u)
  BY <1>4, <1>6, <1>7, MovesOn DEF Learns, Suspends
<1>9. c.inst = w.inst /\ u.inst = w.inst
  BY <1>4, <1>6, <1>7 DEF Learns, Suspends
<1>10. ASSUME Initialized(w), PausedOff(w) PROVE Agreed(c) /\ Agreed(u)
  <2>1. Initialized(v) /\ PausedOff(v)
    BY <1>4, <1>10 DEF Learns, Moves, Goes, Initialized, PausedOff
  <2>2. Agreed(u)
    BY <1>7, <2>1 DEF Suspends, Moves, Goes, Initialized, PausedOff, Agreed
  <2>3. QED BY <1>6, <2>1, <2>2
<1>11. QED BY <1>2, <1>8, <1>9, <1>10
Awaits(w, v) == Moves(w, v) /\ v.agg = w.agg /\ v.page = w.page

LEMMA ImportAwaits ==
  ASSUME NEW w \in Worlds, Core(w), w.inst.recorder # "ready", NEW waiter \in WaitersFor(w)
  PROVE  Awaits(w, ImportRecorder(w, waiter))
<1> DEFINE W == WaitersFor(w)
           q == Append(w.inst.waiting, waiter)
           i == [w.inst EXCEPT !.recorder = "loading", !.waiting = q]
           v == [w EXCEPT !.inst = i]
<1>1. q \in Seq(Waiter) /\ q \in Seq(WaitersFor(w))
  <2>1. w.inst.waiting \in Seq(Waiter) /\ w.inst.waiting \in Seq(W) /\ waiter \in Waiter
        /\ waiter \in W
    BY DEF Worlds, InstType, Core, Waits, WaitersFor
  <2> HIDE DEF W
  <2>2. q \in Seq(Waiter) /\ q \in Seq(W)
    BY <2>1
  <2>3. QED BY <2>2 DEF W
<1>2. ImportRecorder(w, waiter) = v
  BY DEF ImportRecorder, Worlds, InstType
<1> HIDE DEF q, W
<1>3. i \in InstType /\ i.recorder = "loading" /\ i.waiting = q
      /\ i.errorNoticed = w.inst.errorNoticed
  BY <1>1 DEF Worlds, InstType
<1> HIDE DEF i
<1>4. v \in Worlds /\ v.inst = i /\ v.agg = w.agg /\ v.rec = w.rec /\ v.page = w.page
      /\ v.net = w.net
  BY <1>3 DEF Worlds
<1> HIDE DEF v
<1>5. AllNodes(v) = AllNodes(w)
  BY <1>4 DEF AllNodes
<1>6. Reasoned(v) /\ Ordered(v) /\ Filled(v)
  <2>1. ~w.agg.recorder
    BY DEF Core, Ordered, Worlds, AggType
  <2>2. QED BY <1>3, <1>4, <1>5, <2>1 DEF Core, Reasoned, Ordered, Filled
<1>7. Waits(v)
  <2>1. CallsFor(v) = CallsFor(w) /\ WaitersFor(v) = WaitersFor(w) /\ ItemsFor(v) = ItemsFor(w)
    BY <1>4, ForSame
  <2>2. QED BY <1>1, <1>3, <1>4, <2>1 DEF Core, Waits
<1>u. Untouched(w, v)
  BY <1>4 DEF Untouched
<1>f. Flows(w, v)
  BY <1>4, <1>u, UntouchedFlow
<1>8. Moves(w, v)
  BY <1>4, <1>5, <1>6, <1>7, <1>f DEF Moves, Goes, Core, Quiet, Keeps, Carried
<1>9. QED BY <1>2, <1>4, <1>8 DEF Awaits

LEMMA AbortMoves ==
  ASSUME NEW w \in Worlds, Core(w)
  PROVE  Moves(w, Abort(w)) /\ (Initialized(w) => Agreed(Abort(w)))
         /\ Abort(w).inst = w.inst
<1> DEFINE v == Abort(w)
<1>1. Records(w, v) /\ Keeps(w, v) /\ Aborts(w, v)
  BY AbortRecords, AbortAborts
<1> HIDE DEF v
<1>f. Flows(w, v)
  <2>1. Untouched(w, v)
    BY <1>1 DEF Aborts, Untouched, SameAgg
  <2>2. QED BY <1>1, <2>1, UntouchedFlow DEF Aborts
<1>2. Moves(w, v)
  BY <1>1, <1>f, RecordsGo DEF Moves
<1>3. Initialized(w) => Agreed(v)
  BY <1>1 DEF Aborts, SameAgg, Initialized, Agreed
<1>4. QED BY <1>1, <1>2, <1>3 DEF v, Aborts

LEMMA InitializeMoves ==
  ASSUME NEW w \in Worlds, Core(w), NEW srMode \in Modes, srMode = "full" => w.net.reason,
         NEW ignore \in BOOLEAN, NEW call \in CallsFor(w)
  PROVE  /\ Moves(w, InitializeRecording(w, srMode, ignore, call))
         /\ w.agg.entitled \/ PausedOff(w) => Agreed(InitializeRecording(w, srMode, ignore, call))
<1> DEFINE a == [w.agg EXCEPT !.initialized = TRUE]
           v == [w EXCEPT !.agg = a]
           mode == IF v.agg.recorder /\ v.rec.trigger = "api" /\ v.page.isRecording THEN "full"
                   ELSE IF v.page.mode # Unset /\ ~ignore THEN v.page.mode
                   ELSE srMode
           b == [v.agg EXCEPT !.mode = mode]
           u == [v EXCEPT !.agg = b]
           waiter == [for |-> "aggregate", call |-> call]
           d == InitializeRecording(w, srMode, ignore, call)
<1>1. d = IF ~v.agg.entitled THEN Finish(v, call)
          ELSE IF mode = "off" THEN Finish(WriteMode(u), call)
          ELSE IF u.agg.recorder \/ u.inst.recorder = "ready" THEN AfterRecorder(u, call)
          ELSE IF u.inst.recorder = "failed" THEN Finish(Abort(u), call)
          ELSE ImportRecorder(u, waiter)
  <2> DEFINE x == [w EXCEPT !.agg.initialized = TRUE]
             k == IF x.agg.recorder /\ x.rec.trigger = "api" /\ x.page.isRecording THEN "full"
                  ELSE IF x.page.mode # Unset /\ ~ignore THEN x.page.mode
                  ELSE srMode
             y == [x EXCEPT !.agg.mode = k]
  <2>1. d = IF ~x.agg.entitled THEN Finish(x, call)
            ELSE IF k = "off" THEN Finish(WriteMode(y), call)
            ELSE IF y.agg.recorder \/ y.inst.recorder = "ready" THEN AfterRecorder(y, call)
            ELSE IF y.inst.recorder = "failed" THEN Finish(Abort(y), call)
            ELSE ImportRecorder(y, waiter)
    BY Zenon DEF InitializeRecording
  <2>2. x = v
    BY DEF Worlds, AggType
  <2> HIDE DEF x, v
  <2>3. k = mode
    BY <2>2
  <2> HIDE DEF k, mode
  <2>4. y = u
    <3>1. v \in Worlds
      BY DEF v, Worlds, AggType
    <3>2. QED BY <2>2, <2>3, <3>1 DEF Worlds, AggType
  <2> HIDE DEF y, u, d, waiter
  <2>5. QED BY <2>1, <2>2, <2>3, <2>4
<1>2. /\ a \in AggType /\ a.initialized = TRUE /\ a.recorder = w.agg.recorder
      /\ a.loaded = w.agg.loaded /\ a.refused = w.agg.refused /\ a.mode = w.agg.mode
      /\ a.entitled = w.agg.entitled /\ a.blocked = w.agg.blocked
      /\ a.flagged = w.agg.flagged /\ a.drain = w.agg.drain
      /\ a.isRetrying = w.agg.isRetrying /\ a.compressor = w.agg.compressor
      /\ a.waiting = w.agg.waiting
  BY DEF Worlds, AggType
<1> HIDE DEF a
<1>3. Flips(w, v) /\ v.agg = a
  BY <1>2 DEF Flips, Worlds
<1> HIDE DEF v
<1>4. w.net.reason \in BOOLEAN /\ w.agg.entitled \in BOOLEAN
  BY DEF Worlds, NetType, AggType
<1>5. Moves(w, v) /\ v \in Worlds /\ Core(v) /\ v.agg.initialized
  <2>1. v.agg.mode = "full" => w.net.reason
    BY <1>2, <1>3, <1>4 DEF Core, Reasoned
  <2>2. QED BY <1>2, <1>3, <2>1, FlipsGo DEF Moves, Goes
<1>6. mode \in Mode /\ (mode = "full" => v.net.reason)
  <2>1. v.page.mode \in Mode /\ srMode \in Mode
    BY <1>5 DEF Worlds, PageType, Mode
  <2>2. v.net.reason = w.net.reason /\ Reasoned(v)
    BY <1>3, <1>5 DEF Flips, Core
  <2>3. QED BY <1>4, <2>1, <2>2, Constants DEF Reasoned
<1>7. mode # "off" \/ mode = "off"
  OBVIOUS
<1> HIDE DEF mode
<1>8. /\ b \in AggType /\ b.mode = mode /\ b.initialized = v.agg.initialized
      /\ b.recorder = v.agg.recorder /\ b.loaded = v.agg.loaded /\ b.refused = v.agg.refused
      /\ b.entitled = v.agg.entitled /\ b.blocked = v.agg.blocked
      /\ b.flagged = v.agg.flagged /\ b.drain = v.agg.drain
      /\ b.isRetrying = v.agg.isRetrying /\ b.compressor = v.agg.compressor
      /\ b.waiting = v.agg.waiting
  BY <1>5, <1>6 DEF Worlds, AggType
<1> HIDE DEF b
<1>9. Flips(v, u) /\ u.agg = b
  BY <1>5, <1>8 DEF Flips, Worlds
<1> HIDE DEF u
<1>10. Moves(v, u) /\ Moves(w, u)
  <2>1. Moves(v, u)
    BY <1>5, <1>6, <1>8, <1>9, FlipsGo DEF Moves
  <2>2. QED BY <1>5, <2>1, MovesOn
<1>11. u \in Worlds /\ Core(u) /\ Initialized(u) /\ call \in CallsFor(u) /\ call \in CallsFor(v)
       /\ u.agg.entitled = v.agg.entitled /\ v.agg.entitled = w.agg.entitled
  BY <1>5, <1>8, <1>9, <1>10 DEF Moves, Goes, CallsFor, Initialized
<1> HIDE DEF d
<1>12. CASE ~v.agg.entitled
  <2>1. d = Finish(v, call)
    BY <1>1, <1>12
  <2>2. Ends(v, Finish(v, call))
    BY <1>5, FinishEnds
  <2>3. Moves(w, d)
    BY <1>5, <2>1, <2>2, MovesOn DEF Ends
  <2>4. PausedOff(w) => Agreed(v)
    BY <1>2, <1>3, <1>12 DEF Agreed, PausedOff, Flips
  <2>5. QED BY <1>11, <1>12, <2>1, <2>2, <2>3, <2>4, EndsAgree DEF d
<1>13. CASE v.agg.entitled /\ mode = "off"
  <2> DEFINE t == WriteMode(u)
  <2>1. d = Finish(t, call)
    BY <1>1, <1>13
  <2>2. Moves(u, t) /\ Agreed(t)
    BY <1>11, WriteModeMoves
  <2> HIDE DEF t
  <2>3. Ends(t, d)
    BY <2>1, <2>2, FinishEnds DEF Moves, Goes
  <2>4. QED BY <1>10, <2>2, <2>3, MovesOn, EndsAgree DEF d, Ends
<1>14. CASE v.agg.entitled /\ mode # "off" /\ (u.agg.recorder \/ u.inst.recorder = "ready")
  <2>1. d = AfterRecorder(u, call)
    BY <1>1, <1>14
  <2>2. u.inst.recorder = "ready" /\ u.agg.entitled
    BY <1>11, <1>14 DEF Core, Ordered
  <2>3. PausedOff(u)
    BY <1>8, <1>9, <1>14 DEF PausedOff
  <2>4. Moves(u, AfterRecorder(u, call)) /\ Agreed(AfterRecorder(u, call))
    BY <1>11, <2>2, <2>3, AfterRecorderMoves
  <2>5. QED BY <1>10, <2>1, <2>4, MovesOn DEF d
<1>15. CASE v.agg.entitled /\ mode # "off" /\ ~(u.agg.recorder \/ u.inst.recorder = "ready")
            /\ u.inst.recorder = "failed"
  <2> DEFINE t == Abort(u)
  <2>1. d = Finish(t, call)
    BY <1>1, <1>15
  <2>2. Moves(u, t) /\ Agreed(t)
    BY <1>11, AbortMoves
  <2> HIDE DEF t
  <2>3. Ends(t, d)
    BY <2>1, <2>2, FinishEnds DEF Moves, Goes
  <2>4. QED BY <1>10, <2>2, <2>3, MovesOn, EndsAgree DEF d, Ends
<1>16. CASE v.agg.entitled /\ mode # "off" /\ ~(u.agg.recorder \/ u.inst.recorder = "ready")
            /\ u.inst.recorder # "failed"
  <2>1. d = ImportRecorder(u, waiter)
    BY <1>1, <1>16
  <2>2. waiter \in WaitersFor(u)
    <3>1. waiter \in AggregateWaiter /\ waiter.for = "aggregate" /\ waiter.call = call
      BY <1>11 DEF AggregateWaiter, CallsFor
    <3> HIDE DEF waiter
    <3>2. QED BY <1>11, <1>16, <3>1 DEF WaitersFor, Waiter
  <2> HIDE DEF waiter
  <2>3. Awaits(u, d)
    BY <1>11, <1>16, <2>1, <2>2, ImportAwaits
  <2>4. Agreed(d)
    BY <1>8, <1>9, <1>11, <1>16, <2>3 DEF Awaits, Agreed, Initialized
  <2>5. QED BY <1>10, <2>3, <2>4, MovesOn DEF d, Awaits
<1>17. QED BY <1>7, <1>12, <1>13, <1>14, <1>15, <1>16
LEMMA ModeFlips ==
  ASSUME NEW w \in Worlds, NEW m \in Mode, NEW v, v = [w EXCEPT !.agg.mode = m]
  PROVE  Flips(w, v) /\ v.agg.mode = m /\ v.agg.initialized = w.agg.initialized
<1> DEFINE a == [w.agg EXCEPT !.mode = m]
<1>1. /\ a \in AggType /\ a.mode = m /\ a.initialized = w.agg.initialized
      /\ a.recorder = w.agg.recorder /\ a.loaded = w.agg.loaded /\ a.refused = w.agg.refused
      /\ a.entitled = w.agg.entitled /\ a.blocked = w.agg.blocked
      /\ a.flagged = w.agg.flagged /\ a.drain = w.agg.drain
      /\ a.isRetrying = w.agg.isRetrying /\ a.compressor = w.agg.compressor
      /\ a.waiting = w.agg.waiting
  BY DEF Worlds, AggType
<1>2. v = [w EXCEPT !.agg = a]
  BY DEF Worlds, AggType
<1> HIDE DEF a
<1>3. QED BY <1>1, <1>2 DEF Flips, Worlds

LEMMA SwitchMoves ==
  ASSUME NEW w \in Worlds, Core(w), w.net.reason
  PROVE  Moves(w, SwitchToFull(w)) /\ (Agreed(w) => Agreed(SwitchToFull(w)))
<1> DEFINE v == [w EXCEPT !.agg.mode = "full"]
           s == StartRecording(v, "switchToFull", "full")
           x == IF v.page.isRecording THEN v ELSE s
           d == InitializeRecording(v, "full", TRUE, [trigger |-> "switchToFull", drains |-> FALSE])
<1>1. SwitchToFull(w) = IF ~w.agg.entitled \/ w.agg.blocked THEN w
                        ELSE IF v.agg.recorder /\ v.agg.initialized THEN WriteMode(x) ELSE d
  BY DEF SwitchToFull
<1>2. Flips(w, v) /\ v.agg.mode = "full" /\ v.agg.initialized = w.agg.initialized
  BY Constants, ModeFlips
<1> HIDE DEF v
<1>3. Moves(w, v) /\ v \in Worlds /\ Core(v) /\ v.net.reason
  BY <1>2, FlipsGo DEF Moves, Goes
<1>4. CASE ~w.agg.entitled \/ w.agg.blocked
  <2>1. SwitchToFull(w) = w
    BY <1>1, <1>4
  <2>2. QED BY <2>1, MovesNowhere
<1>5. CASE ~(~w.agg.entitled \/ w.agg.blocked) /\ v.agg.recorder /\ v.agg.initialized
  <2>1. SwitchToFull(w) = WriteMode(x)
    BY <1>1, <1>5
  <2>2. Moves(v, s) /\ Begins(v, s)
    BY <1>3, Constants, StartRecordingBegins DEF Moves, Triggers
  <2> HIDE DEF s
  <2>3. Moves(v, x) /\ Initialized(x)
    <3>1. CASE v.page.isRecording
      <4>1. x = v
        BY <3>1
      <4>2. QED BY <1>3, <1>5, <4>1, MovesNowhere DEF Initialized
    <3>2. CASE ~v.page.isRecording
      <4>1. x = s
        BY <3>2
      <4>2. QED BY <1>5, <2>2, <4>1 DEF Initialized, Begins, SameAgg
    <3>3. QED BY <3>1, <3>2
  <2> HIDE DEF x
  <2>4. Moves(x, WriteMode(x)) /\ Agreed(WriteMode(x))
    BY <2>3, WriteModeMoves DEF Moves, Goes
  <2>5. QED BY <1>3, <2>1, <2>3, <2>4, MovesOn
<1>6. CASE ~(~w.agg.entitled \/ w.agg.blocked) /\ ~(v.agg.recorder /\ v.agg.initialized)
  <2> DEFINE call == [trigger |-> "switchToFull", drains |-> FALSE]
  <2>1. call \in CallsFor(v)
    BY DEF CallsFor, Call
  <2> HIDE DEF call
  <2>2. Moves(v, InitializeRecording(v, "full", TRUE, call))
        /\ Agreed(InitializeRecording(v, "full", TRUE, call))
    <3>1. "full" \in Modes /\ TRUE \in BOOLEAN
      BY DEF Modes
    <3>2. v.agg.entitled
      BY <1>2, <1>6 DEF Flips
    <3>3. QED BY <1>3, <2>1, <3>1, <3>2, InitializeMoves
  <2>3. SwitchToFull(w) = InitializeRecording(v, "full", TRUE, call)
    BY <1>1, <1>6 DEF call
  <2>4. QED BY <1>3, <2>2, <2>3, MovesOn
<1>7. QED BY <1>4, <1>5, <1>6

LEMMA HandleErrorMoves ==
  ASSUME NEW w \in Worlds, Core(w), w.net.reason
  PROVE  /\ Moves(w, HandleError(w)) /\ (Agreed(w) => Agreed(HandleError(w)))
         /\ w.agg.mode = "off" => HandleError(w) = w
<1>1. w.agg.mode = "off" => HandleError(w) = w
  BY DEF HandleError
<1>2. QED BY <1>1, SwitchMoves, MovesNowhere DEF HandleError

\* A recording ends, or was not on.
Stopped(w, v) == v.agg.mode = "off" /\ (v.page.rrweb => w.page.rrweb)

LEMMA StopKnownMoves ==
  ASSUME NEW w \in Worlds, Core(w)
  PROVE  /\ Moves(w, StopKnown(w)) /\ StopKnown(w).agg = w.agg
         /\ (StopKnown(w).page.rrweb => w.page.rrweb) /\ (Agreed(w) => Agreed(StopKnown(w)))
<1> DEFINE v == StopKnown(w)
<1>1. Stops(w, v)
  BY StopKnownStops
<1> HIDE DEF v
<1>2. Pages(w, v)
  BY <1>1 DEF Stops, Pages
<1>3. Moves(w, v)
  BY <1>2, PagesGo DEF Moves
<1>4. Agreed(w) => Agreed(v)
  BY <1>1 DEF Stops, Agreed
<1>5. QED BY <1>1, <1>3, <1>4 DEF v, Stops

LEMMA ForceStopMoves ==
  ASSUME NEW w \in Worlds, Core(w), NEW force \in BOOLEAN
  PROVE  /\ Moves(w, ForceStop(w, force)) /\ (Initialized(w) => Agreed(ForceStop(w, force)))
         /\ Stopped(w, ForceStop(w, force))
<1> DEFINE h == Harvest(w, FALSE)
           v == IF force THEN h ELSE w
           u == [v EXCEPT !.agg.mode = "off"]
           t == StopKnown(u)
           d == WriteMode(t)
<1>1. ForceStop(w, force) = d
  BY DEF ForceStop
<1>2. Moves(w, h) /\ Records(w, h)
  BY HarvestRecords, HarvestFlows, RecordsGo DEF Moves
<1> HIDE DEF h
<1>3. Moves(w, v) /\ (Initialized(w) => Initialized(v)) /\ (v.page.rrweb => w.page.rrweb)
  <2>1. CASE force
    <3>1. v = h
      BY <2>1
    <3>2. QED BY <1>2, <3>1 DEF Records, Initialized, SameAgg
  <2>2. CASE ~force
    <3>1. v = w
      BY <2>2
    <3>2. QED BY <3>1, MovesNowhere
  <2>3. QED BY <2>1, <2>2
<1> HIDE DEF v
<1>4. v \in Worlds /\ Core(v)
  BY <1>3 DEF Moves, Goes
<1>5. Flips(v, u) /\ u.agg.mode = "off" /\ u.agg.initialized = v.agg.initialized
  BY <1>4, Constants, ModeFlips
<1> HIDE DEF u
<1>6. Moves(v, u) /\ u \in Worlds /\ Core(u) /\ (Initialized(v) => Initialized(u))
  <2>1. Moves(v, u)
    BY <1>4, <1>5, FlipsGo DEF Moves
  <2>2. QED BY <1>5, <2>1 DEF Moves, Goes, Initialized
<1>7. Moves(u, t) /\ t.agg = u.agg /\ (t.page.rrweb => u.page.rrweb)
  BY <1>6, StopKnownMoves
<1> HIDE DEF t
<1>8. Moves(t, d) /\ (Initialized(t) => Agreed(d)) /\ Writes(t, d)
  BY <1>7, WriteModeMoves, WriteModeWrites DEF Moves, Goes
<1> HIDE DEF d
<1>9. Moves(w, d)
  <2>1. Moves(w, t)
    BY <1>3, <1>6, <1>7, MovesOn
  <2>2. QED BY <1>8, <2>1, MovesOn
<1>10. Initialized(w) => Agreed(d)
  BY <1>3, <1>6, <1>7, <1>8 DEF Initialized
<1>11. Stopped(w, d)
  BY <1>3, <1>5, <1>7, <1>8 DEF Stopped, Flips, Writes
<1>12. QED BY <1>1, <1>9, <1>10, <1>11

LEMMA StopUnlessOnGoes ==
  ASSUME NEW w \in Worlds, Core(w)
  PROVE  Goes(w, StopUnlessOn(w)) /\ (Agreed(w) => Agreed(StopUnlessOn(w)))
<1>1. CASE ~(w.agg.mode \in {"off", Unset} /\ w.agg.recorder)
  <2>1. StopUnlessOn(w) = w
    BY <1>1 DEF StopUnlessOn
  <2>2. QED BY <2>1, GoesNowhere
<1>2. CASE w.agg.mode \in {"off", Unset} /\ w.agg.recorder
  <2> DEFINE v == Stop(w)
             u == ClearAll(v)
  <2>1. StopUnlessOn(w) = u
    BY <1>2 DEF StopUnlessOn
  <2>2. Stops(w, v)
    BY StopStops
  <2> HIDE DEF v
  <2>3. Pages(w, v)
    BY <2>2 DEF Stops, Pages
  <2>4. Goes(w, v) /\ v \in Worlds /\ Core(v)
    BY <2>3, PagesGo DEF Goes
  <2>5. Refills(v, u) /\ AllNodes(u) = <<>>
    BY <2>4, ClearAllRefills
  <2> HIDE DEF u
  <2>6. Reasoned(u) /\ Ordered(u) /\ Filled(u)
    BY <2>4, <2>5 DEF Refills, SameRec, Core, Reasoned, Ordered, Filled
  <2>7. Waits(u)
    <3>1. CallsFor(u) = CallsFor(v) /\ WaitersFor(u) = WaitersFor(v) /\ ItemsFor(u) = ItemsFor(v)
      BY <2>5, ForSame DEF Refills
    <3>2. QED BY <2>4, <2>5, <3>1 DEF Core, Waits, Refills
  <2>f. Flows(v, u)
    <3>1. Untouched(v, u)
      BY <2>5 DEF Refills, Untouched
    <3>2. QED BY <2>5, <3>1, UntouchedFlow DEF Refills
  <2>8. Goes(v, u)
    BY <2>5, <2>6, <2>7, <2>f DEF Goes, Core, Refills, Quiet
  <2>9. Agreed(w) => Agreed(u)
    BY <2>2, <2>5 DEF Stops, Refills, Agreed
  <2>10. QED BY <2>1, <2>4, <2>8, <2>9, GoesOn
<1>3. QED BY <1>1, <1>2

LEMMA NotEntitledMoves ==
  ASSUME NEW w \in Worlds, Core(w), ~w.agg.entitled
  PROVE  Moves(w, NotEntitled(w)) /\ Agreed(NotEntitled(w))
<1> DEFINE u == [w EXCEPT !.agg.mode = "off"]
           v == WriteMode(u)
           a == Abort(v)
<1>1. NotEntitled(w) = IF v.page.isRecording THEN a ELSE v
  BY DEF NotEntitled
<1>2. Flips(w, u) /\ u.agg.mode = "off"
  BY Constants, ModeFlips
<1> HIDE DEF u
<1>3. Moves(w, u) /\ u \in Worlds /\ Core(u) /\ ~u.agg.entitled
  BY <1>2, FlipsGo DEF Moves, Goes
<1>4. Moves(u, v) /\ Agreed(v)
  BY <1>3, WriteModeMoves DEF Initialized
<1> HIDE DEF v
<1>5. Moves(v, a) /\ Agreed(a)
  BY <1>4, AbortMoves DEF Moves, Goes, Agreed, Initialized
<1> HIDE DEF a
<1>6. Moves(w, v) /\ Moves(w, a)
  BY <1>3, <1>4, <1>5, MovesOn
<1>7. QED BY <1>1, <1>4, <1>5, <1>6
-----------------------------------------------------------------------------
(***************************************************************************)
(* The world a callback starts from, and the folds                         *)
(***************************************************************************)
Marked(w, v) ==
  /\ v \in Worlds /\ Ordered(v)
  /\ w.net.reason => v.net.reason
  /\ w.agg.entitled => v.agg.entitled
  /\ v.inst.errorNoticed => w.inst.errorNoticed \/ v.net.reason
  /\ v.inst.waiting \in {w.inst.waiting, <<>>}
  /\ v.agg.waiting \in {w.agg.waiting, <<>>}
  /\ v.page.queue \in {w.page.queue, <<>>}
  /\ v.agg.mode = "full" => w.agg.mode = "full" \/ v.net.reason
  /\ v.page.mode = "full" => w.page.mode = "full" \/ v.net.reason
  /\ v.agg.blocked = w.agg.blocked
  /\ v.agg.compressor = w.agg.compressor \/ v.agg.entitled
  /\ v.agg.isRetrying => w.agg.isRetrying \/ w.net.inflight # <<>>
  /\ w.agg.drain # "none" => v.agg.drain # "none"
  /\ v.agg.drain = "done" => w.agg.drain = "done" \/ v.page.queue = <<>>
  /\ v.rec.backlog = w.rec.backlog /\ v.rec.events = w.rec.events
  /\ v.rec.lastMeta = w.rec.lastMeta
  /\ v.rec.trigger = w.rec.trigger
  /\ v.rec.retryPayload \in {w.rec.retryPayload, NoPayload}
  /\ v.net.sent = w.net.sent /\ v.net.emitted = w.net.emitted
  /\ w.net.inflight = <<>> => v.net.inflight = <<>>

\* A callback's start and what it makes of the modes and of the two promises
InLine(w) == Line(w, <<>>)
Starts(w, v) ==
  v \in Worlds /\ Core(v) /\ Quiet(w, v) /\ Keeps(w, v) /\ (InLine(w) => InLine(v))

\* No item is being replayed.
LEMMA InLineParts ==
  ASSUME NEW w \in Worlds
  PROVE  InLine(w) <=> /\ Pending(w, w.page.queue) /\ Steady(w.page.queue) /\ Rested(w)
<1>1. w.page.queue \in Seq(Item)
  BY DEF Worlds, PageType
<1>2. <<>> \o w.page.queue = w.page.queue
  <2> HIDE DEF Item
  <2>1. QED BY <1>1
<1>3. QED BY <1>2 DEF InLine, Line

LEMMA FlowsInLine == ASSUME NEW w, NEW v, Flows(w, v), InLine(w) PROVE InLine(v)
<1>1. <<>> \in Seq(Item)
  OBVIOUS
<1>2. QED BY <1>1 DEF Flows, InLine

LEMMA SequencesOf ==
  ASSUME NEW S, NEW T, S \subseteq T, NEW q \in Seq(S) PROVE q \in Seq(T)
OBVIOUS

LEMMA MarkedStarts ==
  ASSUME NEW w \in Worlds, Core(w), NEW v, Marked(w, v) PROVE Starts(w, v)
<1>1. AllNodes(v) = AllNodes(w)
  BY DEF Marked, AllNodes
<1>2. /\ w.net.reason \in BOOLEAN /\ v.net.reason \in BOOLEAN
      /\ w.agg.entitled \in BOOLEAN /\ v.agg.entitled \in BOOLEAN
  BY DEF Marked, Worlds, NetType, AggType
<1>3. Reasoned(v)
  BY <1>2 DEF Marked, Core, Reasoned
<1>4. Filled(v)
  BY <1>1 DEF Marked, Core, Filled
<1>5. Waits(v)
  <2> DEFINE W == WaitersFor(w)
             W2 == WaitersFor(v)
             C == CallsFor(w)
             C2 == CallsFor(v)
             I == ItemsFor(w)
             I2 == ItemsFor(v)
  <2>1. C \subseteq C2 /\ I \subseteq I2
    BY DEF Marked, CallsFor, ItemsFor
  <2>2. W \subseteq W2
    BY <2>1 DEF Marked, WaitersFor
  <2>3. w.inst.waiting \in Seq(W) /\ w.agg.waiting \in Seq(C) /\ w.page.queue \in Seq(I)
    BY DEF Core, Waits
  <2>e. <<>> \in Seq(W2) /\ <<>> \in Seq(C2) /\ <<>> \in Seq(I2)
    OBVIOUS
  <2> HIDE DEF W, W2, C, C2, I, I2
  <2>4. w.inst.waiting \in Seq(W2) /\ w.agg.waiting \in Seq(C2) /\ w.page.queue \in Seq(I2)
    BY <2>1, <2>2, <2>3, SequencesOf
  <2>5. v.inst.waiting \in Seq(W2) /\ v.agg.waiting \in Seq(C2) /\ v.page.queue \in Seq(I2)
    BY <2>4, <2>e DEF Marked
  <2>6. QED BY <2>5 DEF Waits, W2, C2, I2
<1>6. ASSUME InLine(w) PROVE InLine(v)
  <2>1. Pending(w, w.page.queue) /\ Steady(w.page.queue) /\ Rested(w)
    BY <1>6, InLineParts
  <2>2. Played(v) /\ Rested(v)
    BY <1>1, <2>1 DEF Marked, Pending, Played, Rested, Lined
  <2>3. CASE v.page.queue = <<>>
    <3>1. Pending(v, <<>>) /\ Steady(<<>>)
      BY <2>2 DEF Pending, Queued, Below, Steady
    <3>2. QED BY <2>2, <2>3, <3>1, InLineParts DEF Marked
  <2>4. CASE v.page.queue = w.page.queue
    <3>1. Pending(v, w.page.queue)
      BY <1>1, <2>1, <2>2, <2>4 DEF Marked, Pending, Below
    <3>2. QED BY <2>1, <2>2, <2>4, <3>1, InLineParts DEF Marked
  <2>5. QED BY <2>3, <2>4 DEF Marked
<1>7. QED BY <1>1, <1>3, <1>4, <1>5, <1>6 DEF Marked, Starts, Core, Quiet, Keeps, Carried

LEMMA StartsMoves ==
  ASSUME NEW u, NEW w, NEW v, Starts(u, w), Moves(w, v) PROVE Starts(u, v)
BY KeepsCompose, FlowsInLine DEF Starts, Moves, Goes, Quiet

-----------------------------------------------------------------------------
P == INSTANCE Folding WITH Op <- Proceed
R == INSTANCE Folding WITH Op <- Reject
A == INSTANCE Folding WITH Op <- AfterCompressor
E == INSTANCE Folding WITH Op <- Replay

LEMMA SameProceed == \A v, q : FoldLeft(Proceed, v, q) = P!FoldLeft(Proceed, v, q)
BY DEF FoldLeft, P!FoldLeft, MapThenFoldSet, P!MapThenFoldSet, Max, P!Max
LEMMA SameReject == \A v, q : FoldLeft(Reject, v, q) = R!FoldLeft(Reject, v, q)
BY DEF FoldLeft, R!FoldLeft, MapThenFoldSet, R!MapThenFoldSet, Max, R!Max
LEMMA SameCompressor ==
  \A v, q : FoldLeft(AfterCompressor, v, q) = A!FoldLeft(AfterCompressor, v, q)
BY DEF FoldLeft, A!FoldLeft, MapThenFoldSet, A!MapThenFoldSet, Max, A!Max
LEMMA SameReplay == \A v, q : FoldLeft(Replay, v, q) = E!FoldLeft(Replay, v, q)
BY DEF FoldLeft, E!FoldLeft, MapThenFoldSet, E!MapThenFoldSet, Max, E!Max

\* Everybody who waits for the recorder goes on.
Result(w, v) == Moves(w, v) /\ Agreed(v)

LEMMA ProceedFolds ==
  ASSUME NEW w \in Worlds, Core(w), Agreed(w), w.inst.recorder = "ready",
         NEW q \in Seq(WaitersFor(w))
  PROVE  Result(w, FoldLeft(Proceed, w, q))
<1> DEFINE W == {v \in Worlds : Moves(w, v) /\ Agreed(v) /\ v.inst = w.inst}
           Q == WaitersFor(w)
<1>1. w \in W
  BY MovesNowhere
<1>2. ASSUME NEW v \in W, NEW x \in Q PROVE Proceed(v, x) \in W
  <2>0. Moves(w, v) /\ Agreed(v) /\ v.inst = w.inst /\ v \in Worlds /\ Core(v)
        /\ v.net.reason = w.net.reason /\ v.agg.entitled = w.agg.entitled
    BY DEF Moves, Goes
  <2>f. CallsFor(v) = CallsFor(w)
    BY <2>0, ForSame
  <2>1. CASE x.for = "preload"
    <3> DEFINE u == StartRecording(v, "preload", x.call.trigger)
    <3>1. Proceed(v, x) = u
      BY <2>1 DEF Proceed
    <3>2. x.call.trigger \in Mode
      BY <2>1 DEF WaitersFor, Waiter, PreloadWaiter, AggregateWaiter, ApiWaiter
    <3>3. Goes(v, u) /\ Keeps(v, u) /\ Begins(v, u)
      BY <2>0, <3>2, StartRecordingBegins DEF Triggers
    <3> HIDE DEF u
    <3>4. Moves(w, u) /\ Agreed(u) /\ u.inst = w.inst
      BY <2>0, <3>3, MovesOn, BeginsAgree DEF Moves, Begins
    <3>5. QED BY <3>1, <3>4 DEF Moves, Goes
  <2>2. CASE x.for = "api"
    <3> DEFINE u == StartRecording(v, "api", "full")
    <3>1. Proceed(v, x) = u
      BY <2>2 DEF Proceed
    <3>2. v.net.reason
      BY <2>0, <2>2 DEF WaitersFor
    <3>3. Goes(v, u) /\ Keeps(v, u) /\ Begins(v, u)
      BY <2>0, <3>2, Constants, StartRecordingBegins DEF Triggers
    <3> HIDE DEF u
    <3>4. Moves(w, u) /\ Agreed(u) /\ u.inst = w.inst
      BY <2>0, <3>3, MovesOn, BeginsAgree DEF Moves, Begins
    <3>5. QED BY <3>1, <3>4 DEF Moves, Goes
  <2>3. CASE x.for = "aggregate"
    <3> DEFINE u == AfterRecorder(v, x.call)
    <3>1. Proceed(v, x) = u
      BY <2>3 DEF Proceed
    <3>2. x.call \in CallsFor(v) /\ v.agg.entitled
      BY <2>0, <2>f, <2>3 DEF WaitersFor
    <3>3. Initialized(v) /\ PausedOff(v)
      BY <2>0, AgreedParts
    <3>4. Moves(v, u) /\ u.inst = v.inst /\ Agreed(u)
      BY <2>0, <3>2, <3>3, AfterRecorderMoves
    <3> HIDE DEF u
    <3>5. Moves(w, u) /\ Agreed(u) /\ u.inst = w.inst
      BY <2>0, <3>4, MovesOn
    <3>6. QED BY <3>1, <3>5 DEF Moves, Goes
  <2>4. x.for = "preload" \/ x.for = "api" \/ x.for = "aggregate"
    BY DEF WaitersFor, Waiter, PreloadWaiter, AggregateWaiter, ApiWaiter
  <2>5. QED BY <2>1, <2>2, <2>3, <2>4
<1>3. q \in Seq(Q)
  OBVIOUS
<1> HIDE DEF W, Q
<1>4. P!FoldLeft(Proceed, w, q) \in W
  BY <1>1, <1>2, <1>3, P!FoldStays, Zenon
<1>5. QED BY <1>4, SameProceed DEF W, Result

LEMMA RejectFolds ==
  ASSUME NEW w \in Worlds, Core(w), Agreed(w), NEW q \in Seq(WaitersFor(w))
  PROVE  Result(w, FoldLeft(Reject, w, q))
<1> DEFINE W == {v \in Worlds : Moves(w, v) /\ Agreed(v)}
           Q == WaitersFor(w)
<1>1. w \in W
  BY MovesNowhere
<1>2. ASSUME NEW v \in W, NEW x \in Q PROVE Reject(v, x) \in W
  <2> DEFINE a == Abort(v)
             u == Finish(a, x.call)
  <2>1. Reject(v, x) = IF x.for = "aggregate" THEN u ELSE v
    BY DEF Reject
  <2>2. Moves(v, a) /\ Agreed(a)
    BY AbortMoves, AgreedParts DEF Moves, Goes
  <2> HIDE DEF a
  <2>3. Ends(a, u)
    BY <2>2, FinishEnds DEF Moves, Goes
  <2> HIDE DEF u
  <2>4. Moves(w, u) /\ Agreed(u)
    <3>1. Moves(v, u)
      BY <2>2, <2>3, MovesOn DEF Ends
    <3>2. QED BY <2>2, <2>3, <3>1, MovesOn, EndsAgree
  <2>5. QED BY <2>1, <2>4 DEF Moves, Goes
<1>3. q \in Seq(Q)
  OBVIOUS
<1> HIDE DEF W, Q
<1>4. R!FoldLeft(Reject, w, q) \in W
  BY <1>1, <1>2, <1>3, R!FoldStays, Zenon
<1>5. QED BY <1>4, SameReject DEF W, Result

\* Everybody who waits for the compressor goes on; the last one writes the mode.
LEMMA CompressorFolds ==
  ASSUME NEW w \in Worlds, Core(w), Initialized(w), NEW q \in Seq(CallsFor(w)), q # <<>>
  PROVE  Result(w, FoldLeft(AfterCompressor, w, q))
<1> DEFINE W == {v \in Worlds : Moves(w, v) /\ Initialized(v)}
           Q == CallsFor(w)
           f == FoldLeft(AfterCompressor, w, q)
<1>1. w \in W
  BY MovesNowhere
<1>2. ASSUME NEW v \in W, NEW x \in Q
      PROVE  AfterCompressor(v, x) \in W /\ Agreed(AfterCompressor(v, x))
  <2> DEFINE u == AfterCompressor(v, x)
  <2>0. Moves(w, v) /\ Initialized(v) /\ v \in Worlds /\ Core(v)
        /\ v.net.reason = w.net.reason /\ v.agg.entitled = w.agg.entitled
    BY DEF Moves, Goes
  <2>1. x \in CallsFor(v)
    BY <2>0, ForSame
  <2>2. Moves(v, u) /\ Agreed(u)
    BY <2>0, <2>1, AfterCompressorMoves
  <2> HIDE DEF u
  <2>3. Moves(w, u) /\ Initialized(u) /\ u \in Worlds
    BY <2>0, <2>2, MovesOn, AgreedParts DEF Moves, Goes
  <2>4. QED BY <2>2, <2>3 DEF u
<1>3. q \in Seq(Q) /\ \A v \in W, x \in Q : AfterCompressor(v, x) \in W
  BY <1>2
<1>4. \A v \in W, x \in Q : Agreed(AfterCompressor(v, x))
  BY <1>2
<1> HIDE DEF W, Q
<1>5. A!FoldLeft(AfterCompressor, w, q) \in W
  BY <1>1, <1>3, A!FoldStays, Zenon
<1>6. A!IsLastOf(W, Q, w, q)
  BY <1>1, <1>3, A!FoldLast, Zenon
<1>7. f \in W /\ f = A!FoldLeft(AfterCompressor, w, q)
  BY <1>5, SameCompressor
<1>8. Agreed(f)
  <2>1. PICK v \in W, x \in Q : A!FoldLeft(AfterCompressor, w, q) = AfterCompressor(v, x)
    BY <1>6 DEF A!IsLastOf
  <2> HIDE DEF f
  <2>2. QED BY <1>4, <1>7, <2>1
<1>9. QED BY <1>7, <1>8 DEF W, Result
\* The start of pause(): the request to stay off counts if the replay runs.
LEMMA PausedMarks ==
  ASSUME NEW w \in Worlds, Core(w), NEW b \in BOOLEAN, NEW v, v = [w EXCEPT !.net.paused = b]
  PROVE  Marked(w, v) /\ v.agg = w.agg /\ v.page = w.page /\ v.net.reason = w.net.reason
<1> DEFINE n == [w.net EXCEPT !.paused = b]
<1>1. n \in NetType /\ n.reason = w.net.reason /\ n.sent = w.net.sent
      /\ n.inflight = w.net.inflight /\ n.emitted = w.net.emitted
  BY DEF Worlds, NetType
<1>2. v = [w EXCEPT !.net = n]
  BY DEF Worlds, NetType
<1> HIDE DEF n
<1>3. v \in Worlds /\ v.inst = w.inst /\ v.agg = w.agg /\ v.rec = w.rec /\ v.page = w.page
      /\ v.net = n
  BY <1>1, <1>2 DEF Worlds
<1>4. Ordered(v)
  BY <1>3 DEF Core, Ordered
<1>5. QED BY <1>1, <1>3, <1>4 DEF Marked

Pauses(w, v) ==
  /\ Starts(w, v) /\ Agreed(v) /\ Stopped(w, v) /\ Flows(w, v)
  /\ v.net.reason = w.net.reason /\ v.agg.drain = w.agg.drain

LEMMA PausePauses ==
  ASSUME NEW w \in Worlds, Core(w), Agreed(w) PROVE Pauses(w, Pause(w))
<1> DEFINE b == w.net.paused \/ w.page.isRecording
           v == [w EXCEPT !.net.paused = b]
           force == w.agg.mode = "full"
           d == ForceStop(v, force)
<1>1. Pause(w) = d
  BY DEF Pause, Worlds, NetType
<1>2. b \in BOOLEAN /\ force \in BOOLEAN
  OBVIOUS
<1> HIDE DEF b, force
<1>v. v = [w EXCEPT !.net.paused = b]
  OBVIOUS
<1> HIDE DEF v
<1>3. Marked(w, v) /\ v.agg = w.agg /\ v.page = w.page /\ v.net.reason = w.net.reason
  BY <1>2, <1>v, PausedMarks
<1>4. Starts(w, v) /\ v \in Worlds /\ Core(v)
  BY <1>3, MarkedStarts DEF Starts
<1>5. Moves(v, d) /\ (Initialized(v) => Agreed(d)) /\ Stopped(v, d)
  BY <1>2, <1>4, ForceStopMoves
<1>6. Initialized(v)
  BY <1>3 DEF Agreed, Initialized
<1> HIDE DEF d
<1>7. Starts(w, d)
  BY <1>4, <1>5, StartsMoves
<1>f. Flows(w, d)
  <2>1. Untouched(w, v)
    BY <1>3 DEF Marked, Untouched
  <2>2. Flows(w, v) /\ Flows(v, d)
    BY <1>4, <1>5, <2>1, UntouchedFlow DEF Moves, Goes
  <2>3. QED BY <2>2, FlowsOn
<1>8. QED BY <1>1, <1>3, <1>5, <1>6, <1>7, <1>f DEF Pauses, Stopped, Moves, Goes

\* The world while items q still are to be replayed: the next node fits.
Paired(q) == \A i \in DOMAIN q : IsNode(q, i) /\ q[i].node.kind = "meta" => i + 1 \in DOMAIN q
Resumes(w, q) ==
  LET all == q \o w.page.queue
  IN /\ Pending(w, all) /\ Paired(q)
     /\ IF Steady(all) THEN Rested(w) ELSE q # <<>> /\ Due(w, q[1].node.n)

\* What comes after the first item
LEMMA TailOfQueue ==
  ASSUME NEW e \in Item, NEW t \in Seq(Item)
  PROVE  LET q == <<e>> \o t
         IN /\ DOMAIN q = 1..(Len(t) + 1) /\ DOMAIN t = 1..Len(t) /\ Len(t) \in Nat
            /\ q[1] = e /\ \A i \in 1..Len(t) : q[i + 1] = t[i]
            /\ q # <<>>
<1> HIDE DEF Item
<1> QED OBVIOUS

\* It is queued as it was; a meta node's snapshot is the first of it, and it begins
\* with a snapshot after nothing else.
TailQueued(e, t, n) ==
  /\ Queued(t, n)
  /\ Paired(<<e>> \o t) => Paired(t)
  /\ IF e.type = "node" /\ e.node.kind = "meta"
     THEN ~Steady(t) /\ t[1].node.n = e.node.n + 1 ELSE Steady(t)
  /\ e.type = "node" => /\ e.node.n <= n
                        /\ \A j \in DOMAIN t : IsNode(t, j) => e.node.n < t[j].node.n

LEMMA QueuedTail ==
  ASSUME NEW e \in Item, NEW t \in Seq(Item), NEW n, Queued(<<e>> \o t, n)
  PROVE  TailQueued(e, t, n)
<1> DEFINE q == <<e>> \o t
<1>1. /\ DOMAIN q = 1..(Len(t) + 1) /\ DOMAIN t = 1..Len(t) /\ Len(t) \in Nat
      /\ q[1] = e /\ \A i \in 1..Len(t) : q[i + 1] = t[i]
  BY TailOfQueue
<1>2. Queued(q, n)
  OBVIOUS
<1>3. t = <<>> => Len(t) = 0
  OBVIOUS
<1> HIDE DEF q
<1>4. \A i \in DOMAIN t : /\ i \in Nat /\ i > 0 /\ i + 1 \in DOMAIN q /\ q[i + 1] = t[i]
                          /\ IsNode(q, i + 1) = IsNode(t, i) /\ (i + 1) - 1 = i
  BY <1>1 DEF IsNode
<1>5. 1 \in DOMAIN q /\ IsNode(q, 1) = (e.type = "node")
  BY <1>1 DEF IsNode
<1>6. Queued(t, n)
  <2>1. ASSUME NEW i \in DOMAIN t, NEW j \in DOMAIN t, i < j, IsNode(t, i), IsNode(t, j)
        PROVE  t[i].node.n < t[j].node.n
    <3>1. i + 1 < j + 1
      BY <1>1, <2>1
    <3>2. q[i + 1].node.n < q[j + 1].node.n
      BY <1>2, <1>4, <2>1, <3>1 DEF Queued
    <3>3. QED BY <1>4, <3>2
  <2>2. \A i \in DOMAIN t : IsNode(t, i) => t[i].node.n <= n
    BY <1>2, <1>4 DEF Queued
  <2>3. ASSUME NEW i \in DOMAIN t, IsNode(t, i), t[i].node.kind = "snap", i > 1
        PROVE  /\ IsNode(t, i - 1) /\ t[i - 1].node.kind = "meta"
               /\ t[i - 1].node.n + 1 = t[i].node.n
    <3>1. i - 1 \in DOMAIN t /\ (i - 1) + 1 = i
      BY <1>1, <2>3
    <3>2. i + 1 > 1
      BY <1>4
    <3>3. /\ IsNode(q, i) /\ q[i].node.kind = "meta" /\ q[i].node.n + 1 = q[i + 1].node.n
      BY <1>2, <1>4, <2>3, <3>2 DEF Queued
    <3>4. q[i] = t[i - 1] /\ IsNode(q, i) = IsNode(t, i - 1)
      BY <1>4, <3>1
    <3>5. QED BY <1>4, <3>3, <3>4
  <2>4. ASSUME NEW i \in DOMAIN t, IsNode(t, i), t[i].node.kind = "meta"
        PROVE  i + 1 \in DOMAIN t /\ IsNode(t, i + 1) /\ t[i + 1].node.kind = "snap"
    <3>1. /\ (i + 1) + 1 \in DOMAIN q /\ IsNode(q, (i + 1) + 1)
          /\ q[(i + 1) + 1].node.kind = "snap"
      BY <1>2, <1>4, <2>4 DEF Queued
    <3>2. i + 1 \in DOMAIN t
      BY <1>1, <3>1
    <3>3. QED BY <1>4, <3>1, <3>2
  <2>5. QED BY <2>1, <2>2, <2>3, <2>4 DEF Queued
<1>7. Paired(q) => Paired(t)
  <2> SUFFICES ASSUME Paired(q), NEW i \in DOMAIN t, IsNode(t, i), t[i].node.kind = "meta"
               PROVE  i + 1 \in DOMAIN t
    BY DEF Paired
  <2>1. (i + 1) + 1 \in DOMAIN q
    BY <1>4 DEF Paired
  <2>2. QED BY <1>1, <2>1
<1>8. ASSUME e.type = "node", e.node.kind = "meta"
      PROVE  ~Steady(t) /\ t[1].node.n = e.node.n + 1
  <2>1. 1 + 1 \in DOMAIN q /\ IsNode(q, 1 + 1) /\ q[1 + 1].node.kind = "snap"
    BY <1>1, <1>2, <1>5, <1>8 DEF Queued
  <2>2. 1 \in DOMAIN t /\ t # <<>>
    BY <1>1, <1>3, <2>1
  <2>3. q[1 + 1] = t[1] /\ IsNode(t, 1)
    BY <1>4, <2>1, <2>2
  <2>4. 1 + 1 > 1 /\ (1 + 1) - 1 = 1
    OBVIOUS
  <2>5. q[1].node.n + 1 = q[1 + 1].node.n
    BY <1>2, <2>1, <2>4 DEF Queued
  <2>6. QED BY <1>1, <2>1, <2>2, <2>3, <2>5 DEF Steady
<1>9. ASSUME ~(e.type = "node" /\ e.node.kind = "meta") PROVE Steady(t)
  <2> SUFFICES ASSUME t # <<>>, IsNode(t, 1), t[1].node.kind = "snap" PROVE FALSE
    BY DEF Steady
  <2>1. 1 \in DOMAIN t
    BY <1>1
  <2>2. 1 + 1 \in DOMAIN q /\ IsNode(q, 1 + 1) /\ q[1 + 1].node.kind = "snap"
    BY <1>4, <2>1
  <2>3. ASSUME NEW i \in DOMAIN q, i > 1, IsNode(q, i), q[i].node.kind = "snap"
        PROVE  IsNode(q, i - 1) /\ q[i - 1].node.kind = "meta"
    BY <1>2, <2>3 DEF Queued
  <2>4. IsNode(q, 1) /\ q[1].node.kind = "meta"
    <3>1. 1 + 1 > 1 /\ (1 + 1) - 1 = 1
      OBVIOUS
    <3> HIDE DEF q
    <3>2. QED BY <2>2, <2>3, <3>1
  <2>5. QED BY <1>1, <1>5, <1>9, <2>4
<1>10. ASSUME e.type = "node"
       PROVE  e.node.n <= n /\ \A j \in DOMAIN t : IsNode(t, j) => e.node.n < t[j].node.n
  <2>1. e.node.n <= n
    BY <1>1, <1>2, <1>5, <1>10 DEF Queued
  <2>2. ASSUME NEW j \in DOMAIN t, IsNode(t, j) PROVE e.node.n < t[j].node.n
    <3>1. j + 1 \in DOMAIN q /\ IsNode(q, j + 1) /\ q[j + 1] = t[j] /\ 1 < j + 1
      BY <1>4, <2>2
    <3>2. 1 \in DOMAIN q /\ IsNode(q, 1) /\ q[1] = e
      BY <1>1, <1>5, <1>10
    <3>3. QED BY <1>2, <3>1, <3>2 DEF Queued
  <2>3. QED BY <2>1, <2>2
<1>11. QED BY <1>6, <1>7, <1>8, <1>9, <1>10 DEF TailQueued, q

\* One more item is replayed.
Resumed(v, e, r, u) ==
  /\ Resumes(u, r) /\ (NodesOnly(v.page.queue) => NodesOnly(u.page.queue))
  /\ e.type = "node" => u.page.queue = v.page.queue

LEMMA ReplayResumes ==
  ASSUME NEW v \in Worlds, Core(v), Agreed(v), v.agg.drain = "running", NEW e \in ItemsFor(v),
         NEW r \in Seq(Item), Resumes(v, <<e>> \o r)
  PROVE  Resumed(v, e, r, Replay(v, e))
<1> DEFINE t == r \o v.page.queue
           u == Replay(v, e)
           q == <<e>> \o t
<1>1. e \in Item
  BY DEF ItemsFor
<1>2. t \in Seq(Item) /\ (<<e>> \o r) \o v.page.queue = q
  <2>1. v.page.queue \in Seq(Item)
    BY DEF Worlds, PageType
  <2> HIDE DEF Item
  <2>2. <<e>> \in Seq(Item)
    BY <1>1
  <2> DEFINE a == <<e>>
             c == v.page.queue
  <2>3. (a \o r) \o c = a \o (r \o c)
    <3> HIDE DEF a, c, t, u, q
    <3>1. a \in Seq(Item) /\ c \in Seq(Item)
      BY <2>1, <2>2 DEF a, c
    <3>2. QED BY <3>1, ConcatAssociative
  <2>4. r \o v.page.queue \in Seq(Item)
    BY <2>1
  <2>5. QED BY <2>3, <2>4
<1> HIDE DEF t
<1>3. /\ q # <<>> /\ q[1] = e /\ 1 \in DOMAIN q /\ (<<e>> \o r)[1] = e
      /\ \A j \in DOMAIN t : j + 1 \in DOMAIN q /\ q[j + 1] = t[j]
  BY <1>1, <1>2, TailOfQueue
<1>4. /\ Played(v) /\ Queued(q, v.net.emitted) /\ Below(v, q) /\ Paired(<<e>> \o r)
      /\ IF Steady(q) THEN Rested(v) ELSE Due(v, e.node.n)
  BY <1>2, <1>3 DEF Resumes, Pending
<1>5. TailQueued(e, t, v.net.emitted)
  BY <1>1, <1>2, <1>4, QueuedTail
<1>6. Paired(r)
  <2>1. /\ DOMAIN (<<e>> \o r) = 1..(Len(r) + 1) /\ DOMAIN r = 1..Len(r) /\ Len(r) \in Nat
        /\ \A i \in 1..Len(r) : (<<e>> \o r)[i + 1] = r[i]
    BY <1>1, TailOfQueue
  <2> DEFINE s == <<e>> \o r
  <2> HIDE DEF s
  <2>2. \A i \in DOMAIN r : i + 1 \in DOMAIN s /\ s[i + 1] = r[i]
                            /\ ((i + 1) + 1 \in DOMAIN s => i + 1 \in DOMAIN r)
    BY <2>1 DEF s
  <2>3. Paired(s)
    BY <1>4 DEF s
  <2>4. QED BY <2>2, <2>3 DEF Paired, IsNode
<1>7. IF e.type = "node" /\ e.node.kind = "meta" THEN r # <<>> /\ t[1] = r[1] ELSE TRUE
  <2> SUFFICES ASSUME e.type = "node", e.node.kind = "meta" PROVE r # <<>> /\ t[1] = r[1]
    OBVIOUS
  <2>1. /\ DOMAIN (<<e>> \o r) = 1..(Len(r) + 1) /\ Len(r) \in Nat /\ (<<e>> \o r)[1] = e
    BY <1>1, TailOfQueue
  <2> DEFINE s == <<e>> \o r
  <2> HIDE DEF s
  <2>2. Paired(s) /\ s[1] = e /\ 1 \in DOMAIN s
    BY <1>4, <2>1 DEF s
  <2>3. 1 + 1 \in DOMAIN s
    BY <2>2 DEF Paired, IsNode
  <2>4. r # <<>>
    BY <2>1, <2>3 DEF s
  <2>5. v.page.queue \in Seq(Item)
    BY DEF Worlds, PageType
  <2>6. t[1] = r[1]
    <3> HIDE DEF Item
    <3>1. QED BY <2>4, <2>5 DEF t
  <2>7. QED BY <2>4, <2>6
<1> HIDE DEF q, u
<1>8. ASSUME e.type = "node" PROVE Resumed(v, e, r, u)
  <2> DEFINE node == e.node
  <2>1. u = Store(v, node, e.isCheckout) /\ node \in Node /\ e.isCheckout \in BOOLEAN
    BY <1>1, <1>8 DEF Replay, Item, NodeItem, OtherItem, u
  <2>2. Fits(v, node)
    <3>1. node.n <= v.net.emitted
      BY <1>5, <1>8 DEF TailQueued
    <3>2. v.agg.blocked \/ \A x \in Node : InNodes(AllNodes(v), x) => x.n < node.n
      BY <1>3, <1>4, <1>8 DEF Below, IsNode
    <3>3. node.kind = "snap" => Due(v, node.n)
      BY <1>3, <1>4, <1>8 DEF Steady, IsNode
    <3>4. QED BY <3>1, <3>2, <3>3 DEF Fits
  <2>3. Stores(v, node, u)
    BY <1>4, <2>1, <2>2, StoreStores
  <2>4. u.page.queue = v.page.queue /\ u.net.emitted = v.net.emitted /\ Played(u)
        /\ u.agg.drain = "running" /\ Lasts(node, u)
    BY <2>3 DEF Stores
  <2>5. Below(u, t)
    <3>1. Below(v, t)
      BY <1>3, <1>4 DEF Below, IsNode
    <3>2. \A j \in DOMAIN t : IsNode(t, j) => node.n < t[j].node.n
      BY <1>5, <1>8 DEF TailQueued
    <3>3. QED BY <2>3, <3>1, <3>2 DEF Stores, Below
  <2>6. Pending(u, t)
    BY <1>5, <2>4, <2>5 DEF Pending, TailQueued
  <2>7. IF Steady(t) THEN Rested(u) ELSE r # <<>> /\ Due(u, r[1].node.n)
    BY <1>5, <1>7, <1>8, <2>4 DEF TailQueued, Lasts
  <2>8. Resumes(u, r)
    BY <1>6, <2>4, <2>6, <2>7 DEF Resumes, t
  <2>9. QED BY <2>4, <2>8 DEF Resumed
<1>9. ASSUME e.type # "node" PROVE Resumed(v, e, r, u)
  <2>1. Flows(v, u) /\ u.agg.drain = "running"
    <3>1. e.type = "error" \/ e.type = "pause"
      BY <1>1, <1>9 DEF Item, NodeItem, OtherItem
    <3>2. CASE e.type = "error"
      <4>1. u = HandleError(v) /\ v.net.reason
        BY <3>2 DEF Replay, ItemsFor, u
      <4>2. Moves(v, u)
        BY <4>1, HandleErrorMoves
      <4>3. QED BY <4>2 DEF Moves, Goes
    <3>3. CASE e.type = "pause"
      <4>1. u = Pause(v)
        BY <3>3 DEF Replay, u
      <4>2. QED BY <4>1, PausePauses DEF Pauses
    <3>4. QED BY <3>1, <3>2, <3>3
  <2>2. Steady(q)
    BY <1>3, <1>9 DEF Steady, IsNode
  <2>3. Below(v, t)
    BY <1>3, <1>4 DEF Below, IsNode
  <2>4. Line(v, r)
    <3>1. Pending(v, t)
      BY <1>4, <1>5, <2>3 DEF Pending, TailQueued
    <3>2. Steady(t)
      BY <1>5, <1>9 DEF TailQueued
    <3>3. QED BY <1>4, <2>2, <3>1, <3>2 DEF Line, t
  <2>5. Line(u, r) /\ (NodesOnly(v.page.queue) => NodesOnly(u.page.queue))
    BY <2>1, <2>4 DEF Flows
  <2>6. Resumes(u, r)
    BY <1>6, <2>5 DEF Line, Resumes
  <2>7. QED BY <1>9, <2>5, <2>6 DEF Resumed
<1>10. QED BY <1>8, <1>9 DEF u

\* The buffered events are replayed.
StaysOff(w, v) == w.agg.mode = "off" => Stopped(w, v)
Replays(w, v) ==
  /\ v \in Worlds /\ Core(v) /\ Agreed(v) /\ Quiet(w, v) /\ StaysOff(w, v)
  /\ v.agg.drain = "running"

\* The items are in line with what they are replayed to: so is what they leave.  Nodes
\* leave the queue alone.
Rest(q, k) == SubSeq(q, k + 1, Len(q))
Reaches(w, q, k, v) ==
  /\ Resumes(v, Rest(q, k)) /\ NodesOnly(v.page.queue)
  /\ NodesOnly(q) => v.page.queue = w.page.queue
Replayed(w, q, v) ==
  Resumes(w, q) /\ NodesOnly(w.page.queue)
    => /\ Resumes(v, <<>>) /\ NodesOnly(v.page.queue)
       /\ NodesOnly(q) => v.page.queue = w.page.queue

LEMMA RestOf ==
  ASSUME NEW S, NEW q \in Seq(S), NEW k \in Nat, k <= Len(q)
  PROVE  /\ Rest(q, k) \in Seq(S) /\ Len(Rest(q, k)) = Len(q) - k
         /\ \A i \in 1..(Len(q) - k) : Rest(q, k)[i] = q[k + i]
<1>1. Len(q) \in Nat /\ DOMAIN q = 1..Len(q) /\ \A i \in 1..Len(q) : q[i] \in S
  OBVIOUS
<1> DEFINE m == k + 1
           n == Len(q)
<1>2. m \in 1..(n + 1) /\ n \in Nat /\ \A i \in m..n : q[i] \in S
  BY <1>1
<1>3. SubSeq(q, m, n) \in Seq(S) /\ Len(SubSeq(q, m, n)) = IF m <= n THEN n - m + 1 ELSE 0
  BY <1>1, <1>2
<1>4. Len(SubSeq(q, m, n)) = n - k
  BY <1>2, <1>3
<1>5. ASSUME NEW i \in 1..(n - k) PROVE SubSeq(q, m, n)[i] = q[k + i]
  BY <1>1
<1>6. QED BY <1>3, <1>4, <1>5 DEF Rest

LEMMA RestSplits ==
  ASSUME NEW S, NEW q \in Seq(S), NEW k \in Nat, k + 1 <= Len(q)
  PROVE  Rest(q, k) = <<q[k + 1]>> \o Rest(q, k + 1) /\ Rest(q, k + 1) \in Seq(S)
<1> DEFINE r == Rest(q, k + 1)
           a == Rest(q, k)
<1>1. Len(q) \in Nat /\ DOMAIN q = 1..Len(q) /\ \A i \in 1..Len(q) : q[i] \in S
  OBVIOUS
<1>2. r \in Seq(S) /\ a \in Seq(S)
  BY RestOf
<1>3. /\ Len(r) = Len(q) - (k + 1) /\ \A i \in 1..(Len(q) - (k + 1)) : r[i] = q[(k + 1) + i]
  BY RestOf
<1>4. /\ Len(a) = Len(q) - k /\ \A i \in 1..(Len(q) - k) : a[i] = q[k + i]
  <2>1. k <= Len(q)
    BY <1>1
  <2>2. QED BY <2>1, RestOf, Zenon
<1> DEFINE x == q[k + 1]
<1>5. x \in S
  BY <1>1
<1> HIDE DEF r, a, x
<1>6. /\ <<x>> \o r \in Seq(S) /\ Len(<<x>> \o r) = 1 + Len(r) /\ (<<x>> \o r)[1] = x
      /\ \A i \in 1..Len(r) : (<<x>> \o r)[1 + i] = r[i]
  BY <1>2, <1>5
<1> DEFINE c == <<x>> \o r
<1> HIDE DEF c
<1>7. a = c
  <2>1. a \in Seq(S) /\ c \in Seq(S) /\ Len(a) = Len(c)
    <3>1. Len(a) = 1 + Len(r)
      BY <1>1, <1>3, <1>4
    <3>2. QED BY <1>2, <1>6, <3>1 DEF c
  <2>2. ASSUME NEW i \in 1..Len(a) PROVE a[i] = c[i]
    <3>1. CASE i = 1
      BY <1>1, <1>4, <1>6, <2>2, <3>1 DEF c, x
    <3>2. CASE i # 1
      <4>1. i - 1 \in 1..Len(r) /\ 1 + (i - 1) = i /\ (k + 1) + (i - 1) = k + i
        BY <1>1, <1>3, <1>4, <2>2, <3>2
      <4>2. c[i] = r[i - 1]
        BY <1>6, <4>1 DEF c
      <4>3. r[i - 1] = q[k + i]
        BY <1>3, <4>1
      <4>4. a[i] = q[k + i]
        BY <1>4, <2>2
      <4>5. QED BY <4>2, <4>3, <4>4
    <3>3. QED BY <3>1, <3>2
  <2>3. QED BY <2>1, <2>2
<1>8. QED BY <1>2, <1>7 DEF a, c, r, x

LEMMA ReplayFolds ==
  ASSUME NEW w \in Worlds, Core(w), Agreed(w), w.agg.drain = "running", NEW q \in Seq(ItemsFor(w))
  PROVE  Replays(w, FoldLeft(Replay, w, q)) /\ Replayed(w, q, FoldLeft(Replay, w, q))
<1> DEFINE W == {v \in Worlds : /\ Replays(w, v)
                                /\ v.net.reason = w.net.reason}
           Q == ItemsFor(w)
<1>1. w \in W
  BY DEF Replays, Quiet, StaysOff, Stopped
<1>2. ASSUME NEW v \in W, NEW x \in Q PROVE Replay(v, x) \in W
  <2>0. v \in Worlds /\ Core(v) /\ Agreed(v) /\ v.agg.drain = "running"
        /\ v.net.reason = w.net.reason /\ Replays(w, v)
    BY DEF Replays
  <2>1. CASE x.type = "node"
    <3> DEFINE u == Store(v, x.node, x.isCheckout)
    <3>1. Replay(v, x) = u
      BY <2>1 DEF Replay
    <3>2. x.node \in Node /\ x.isCheckout \in BOOLEAN
      BY <2>1 DEF ItemsFor, Item, NodeItem, OtherItem
    <3>3. Records(v, u)
      BY <2>0, <3>2, StoreRecords
    <3> HIDE DEF u
    <3>4. u \in Worlds /\ Core(u) /\ Agreed(u) /\ u.agg.drain = "running"
          /\ u.net.reason = w.net.reason
      BY <2>0, <3>3, RecordsAgree DEF Records, SameAgg
    <3>5. Quiet(w, u)
      BY <2>0, <3>3 DEF Replays, Records, Quiet
    <3>6. StaysOff(w, u)
      BY <2>0, <3>3 DEF Replays, Records, StaysOff, Stopped
    <3>7. QED BY <3>1, <3>4, <3>5, <3>6 DEF Replays
  <2>2. CASE x.type = "error"
    <3> DEFINE u == HandleError(v)
    <3>1. Replay(v, x) = u
      BY <2>2 DEF Replay
    <3>2. v.net.reason
      BY <2>0, <2>2 DEF ItemsFor
    <3>3. Moves(v, u) /\ Agreed(u) /\ (v.agg.mode = "off" => u = v)
      BY <2>0, <3>2, HandleErrorMoves
    <3> HIDE DEF u
    <3>4. u \in Worlds /\ Core(u) /\ u.agg.drain = "running" /\ u.net.reason = w.net.reason
      BY <2>0, <3>3 DEF Moves, Goes
    <3>5. Quiet(w, u)
      BY <2>0, <3>3 DEF Replays, Moves, Goes, Quiet
    <3>6. StaysOff(w, u)
      BY <2>0, <3>3 DEF Replays, StaysOff, Stopped
    <3>7. QED BY <3>1, <3>3, <3>4, <3>5, <3>6 DEF Replays
  <2>3. CASE x.type = "pause"
    <3> DEFINE u == Pause(v)
    <3>1. Replay(v, x) = u
      BY <2>3 DEF Replay
    <3>2. Pauses(v, u)
      BY <2>0, PausePauses
    <3> HIDE DEF u
    <3>3. u \in Worlds /\ Core(u) /\ Agreed(u) /\ u.agg.drain = "running"
          /\ u.net.reason = w.net.reason
      BY <2>0, <3>2 DEF Pauses, Starts
    <3>4. Quiet(w, u)
      BY <2>0, <3>2 DEF Replays, Pauses, Starts, Quiet
    <3>5. StaysOff(w, u)
      BY <2>0, <3>2 DEF Replays, Pauses, StaysOff, Stopped
    <3>6. QED BY <3>1, <3>3, <3>4, <3>5 DEF Replays
  <2>4. x.type = "node" \/ x.type = "error" \/ x.type = "pause"
    BY DEF ItemsFor, Item, NodeItem, OtherItem
  <2>5. QED BY <2>1, <2>2, <2>3, <2>4
<1>3. q \in Seq(Q)
  OBVIOUS
<1>f. \A v \in W : /\ v \in Worlds /\ Core(v) /\ Agreed(v) /\ v.agg.drain = "running"
                   /\ Q = ItemsFor(v) /\ Replays(w, v)
  <2> SUFFICES ASSUME NEW v \in W
               PROVE  /\ v \in Worlds /\ Core(v) /\ Agreed(v) /\ v.agg.drain = "running"
                      /\ Q = ItemsFor(v) /\ Replays(w, v)
    OBVIOUS
  <2>1. Replays(w, v) /\ v.net.reason = w.net.reason
    OBVIOUS
  <2>2. QED BY <2>1 DEF Replays, ItemsFor
<1>s. Q \subseteq Item
  BY DEF ItemsFor
<1> HIDE DEF W, Q
<1>4. E!HasChain(W, w, q)
  BY <1>1, <1>2, <1>3, E!FoldChain, Zenon
<1>5. PICK g \in [0..Len(q) -> W] :
        E!Chain(g, w, q) /\ E!FoldLeft(Replay, w, q) = g[Len(q)]
  BY <1>4 DEF E!HasChain
<1> DEFINE f == FoldLeft(Replay, w, q)
<1>6. f = g[Len(q)] /\ f \in W
  <2>1. Len(q) \in 0..Len(q)
    BY <1>3
  <2>2. QED BY <1>5, <2>1, SameReplay
<1>7. ASSUME Resumes(w, q), NodesOnly(w.page.queue)
      PROVE  \A k \in Nat : k <= Len(q) => Reaches(w, q, k, g[k])
  <2> DEFINE S == {k \in Nat : k <= Len(q) => Reaches(w, q, k, g[k])}
  <2>1. 0 \in S
    <3>1. g[0] = w
      BY <1>5 DEF E!Chain
    <3>2. Rest(q, 0) = q
      BY <1>3 DEF Rest
    <3>3. QED BY <1>7, <3>1, <3>2 DEF Reaches
  <2>2. ASSUME NEW k \in S \cap Nat PROVE k + 1 \in S
    <3> SUFFICES ASSUME k + 1 <= Len(q) PROVE Reaches(w, q, k + 1, g[k + 1])
      OBVIOUS
    <3> DEFINE e == q[k + 1]
               r == Rest(q, k + 1)
    <3>1. /\ k \in 0..(Len(q) - 1) /\ k \in 0..Len(q) /\ k <= Len(q) /\ k + 1 \in DOMAIN q
          /\ e \in Q
      BY <1>3
    <3>2. g[k + 1] = Replay(g[k], e) /\ g[k] \in W
      BY <1>5, <3>1 DEF E!Chain
    <3>3. Rest(q, k) = <<e>> \o r /\ r \in Seq(Item)
      BY <1>3, <1>s, <3>1, RestSplits
    <3>4. Reaches(w, q, k, g[k])
      BY <3>1
    <3> HIDE DEF e, r
    <3>5. Resumed(g[k], e, r, Replay(g[k], e))
      BY <1>f, <3>1, <3>2, <3>3, <3>4, ReplayResumes DEF Reaches
    <3>6. NodesOnly(q) => e.type = "node"
      BY <3>1 DEF NodesOnly, IsNode, e
    <3>7. QED BY <3>2, <3>4, <3>5, <3>6 DEF Reaches, Resumed, r
  <2> HIDE DEF S
  <2>3. \A k \in Nat : k \in S
    BY <2>1, <2>2, E!Induct
  <2>4. QED BY <2>3 DEF S
<1>8. Replayed(w, q, f)
  <2> SUFFICES ASSUME Resumes(w, q), NodesOnly(w.page.queue)
               PROVE  /\ Resumes(f, <<>>) /\ NodesOnly(f.page.queue)
                      /\ NodesOnly(q) => f.page.queue = w.page.queue
    BY DEF Replayed
  <2>1. Len(q) \in Nat /\ Len(q) <= Len(q)
    BY <1>3
  <2>2. Reaches(w, q, Len(q), f)
    BY <1>6, <1>7, <2>1
  <2>3. Rest(q, Len(q)) = <<>>
    BY <1>3 DEF Rest
  <2>4. QED BY <2>2, <2>3 DEF Reaches
<1>9. QED BY <1>f, <1>6, <1>8 DEF f

\* What was in line is so after a replay; the queue then only holds nodes, and after
\* a replay of nodes it is empty.
Drains(w, v) ==
  InLine(w) => /\ InLine(v) /\ NodesOnly(v.page.queue)
               /\ NodesOnly(w.page.queue) => v.page.queue = <<>>

LEMMA ReplaysAll ==
  ASSUME NEW w \in Worlds, Core(w), Agreed(w), w.agg.drain = "running"
  PROVE  Replays(w, ReplayAll(w)) /\ Drains(w, ReplayAll(w))
<1> DEFINE p == [w.page EXCEPT !.queue = <<>>]
           m == [w EXCEPT !.page.queue = <<>>]
           v == FoldLeft(Replay, m, w.page.queue)
<1>1. ReplayAll(w) = v
  BY DEF ReplayAll
<1>e. <<>> \in Seq(Item)
  OBVIOUS
<1>2. m = [w EXCEPT !.page = p]
  BY DEF Worlds, PageType
<1>3. p \in PageType /\ p.mode = w.page.mode /\ p.rrweb = w.page.rrweb /\ p.queue = <<>>
  BY <1>e DEF Worlds, PageType
<1> HIDE DEF p, m
<1>4. m \in Worlds /\ m.inst = w.inst /\ m.agg = w.agg /\ m.rec = w.rec /\ m.page = p
      /\ m.net = w.net
  BY <1>2, <1>3 DEF Worlds
<1>5. Starts(w, m) /\ Core(m)
  <2>1. Ordered(m)
    BY <1>4 DEF Core, Ordered
  <2>2. Marked(w, m)
    BY <1>3, <1>4, <2>1 DEF Marked
  <2>3. QED BY <2>2, MarkedStarts DEF Starts
<1>6. Agreed(m) /\ m.agg.drain = "running"
  BY <1>3, <1>4 DEF Agreed
<1>7. w.page.queue \in Seq(ItemsFor(m))
  <2>1. ItemsFor(m) = ItemsFor(w)
    BY <1>4, ForSame
  <2>2. QED BY <2>1 DEF Core, Waits
<1>8. Replays(m, v) /\ Replayed(m, w.page.queue, v)
  BY <1>4, <1>5, <1>6, <1>7, ReplayFolds
<1> HIDE DEF v
<1>9. Quiet(w, v)
  BY <1>5, <1>8 DEF Starts, Replays, Quiet
<1>10. StaysOff(w, v)
  BY <1>3, <1>4, <1>8 DEF Replays, StaysOff, Stopped
<1>11. ASSUME InLine(w)
       PROVE  /\ InLine(v) /\ NodesOnly(v.page.queue)
              /\ NodesOnly(w.page.queue) => v.page.queue = <<>>
  <2> DEFINE q == w.page.queue
  <2>1. Pending(w, q) /\ Steady(q) /\ Rested(w)
    BY <1>11, InLineParts
  <2>2. q \in Seq(Item) /\ m.page.queue = <<>>
    BY <1>3, <1>4 DEF Worlds, PageType
  <2> HIDE DEF q
  <2>3. q \o m.page.queue = q
    <3> HIDE DEF Item
    <3>1. QED BY <2>2
  <2>4. AllNodes(m) = AllNodes(w)
    BY <1>4 DEF AllNodes
  <2>5. Played(m) /\ Rested(m)
    BY <1>4, <2>1, <2>4 DEF Pending, Played, Lined, Rested
  <2>6. Pending(m, q)
    BY <1>4, <2>1, <2>4, <2>5 DEF Pending, Below
  <2>7. Resumes(m, q) /\ NodesOnly(m.page.queue)
    BY <2>1, <2>2, <2>3, <2>5, <2>6 DEF Resumes, Pending, Paired, Queued, NodesOnly
  <2>8. /\ Resumes(v, <<>>) /\ NodesOnly(v.page.queue)
        /\ NodesOnly(q) => v.page.queue = <<>>
    BY <1>8, <2>2, <2>7 DEF Replayed, q
  <2>9. InLine(v)
    BY <2>8 DEF Resumes, InLine, Line
  <2>10. QED BY <2>8, <2>9 DEF q
<1>12. QED BY <1>1, <1>8, <1>9, <1>10, <1>11 DEF Replays, Drains

\* The drain begins, or ends: the handlers are attached.
Phases(w, d, v) ==
  /\ Starts(w, v) /\ (Agreed(w) => Agreed(v)) /\ v.agg.drain = d
  /\ v.agg.mode = w.agg.mode /\ v.page = w.page

LEMMA PhaseWritten ==
  ASSUME NEW w \in Worlds, Core(w), NEW d \in {"running", "done"},
         d = "done" => w.page.queue = <<>>, NEW v, v = [w EXCEPT !.agg.drain = d]
  PROVE  Phases(w, d, v)
<1> DEFINE a == [w.agg EXCEPT !.drain = d]
<1>1. /\ a \in AggType /\ a.drain = d /\ a.loaded = w.agg.loaded
      /\ a.recorder = w.agg.recorder
      /\ a.mode = w.agg.mode /\ a.initialized = w.agg.initialized
      /\ a.compressor = w.agg.compressor /\ a.waiting = w.agg.waiting
      /\ a.entitled = w.agg.entitled /\ a.blocked = w.agg.blocked
      /\ a.flagged = w.agg.flagged /\ a.isRetrying = w.agg.isRetrying
  BY DEF Worlds, AggType
<1>2. v = [w EXCEPT !.agg = a]
  BY DEF Worlds, AggType
<1> HIDE DEF a
<1>3. v \in Worlds /\ v.inst = w.inst /\ v.agg = a /\ v.rec = w.rec /\ v.page = w.page
      /\ v.net = w.net
  BY <1>1, <1>2 DEF Worlds
<1>4. Ordered(v)
  BY <1>1, <1>3 DEF Core, Ordered
<1>5. Marked(w, v)
  BY <1>1, <1>3, <1>4 DEF Marked
<1>6. Starts(w, v)
  BY <1>5, MarkedStarts
<1>7. Agreed(w) => Agreed(v)
  BY <1>1, <1>3 DEF Agreed
<1>8. QED BY <1>1, <1>3, <1>6, <1>7 DEF Phases

-----------------------------------------------------------------------------
(***************************************************************************)
(* The steps                                                               *)
(***************************************************************************)
Sound(w) == w \in Worlds /\ Core(w) /\ Agreed(w)

\* What a step does between two worlds: the promises of the action properties
Saves(w, v) ==
  ~(w.rec.isErrorMode /\ v.rec.isErrorMode) /\ w.agg.flagged
    => AllNodes(w) = <<>> \/ Keeps(w, v)
Rests(w) ==
  /\ w.net.paused /\ w.agg.mode = "off" /\ ~w.agg.isRetrying /\ w.agg.flagged
  /\ w.inst.recorder # "loading" /\ w.agg.waiting = <<>>
StaysPaused(w, v) == Rests(w) /\ v.net.paused => (v.page.rrweb => w.page.rrweb)
Advances(w, v) ==
  /\ Sound(v) /\ Quiet(w, v) /\ Saves(w, v) /\ StaysPaused(w, v)
  /\ InLine(w) => InLine(v)

LEMMA AppliedIsNext ==
  ASSUME NEW w \in Worlds, Apply(w) PROVE World' = w
BY DEF Apply, World, Worlds

LEMMA WorldFields ==
  World.inst = inst /\ World.agg = agg /\ World.rec = rec /\ World.page = page /\ World.net = net
BY DEF World

\* A step that moves on from a start
LEMMA MovesAdvance ==
  ASSUME NEW w, NEW m, NEW v, Starts(w, m), Moves(m, v), Agreed(v), StaysPaused(w, v)
  PROVE  Advances(w, v)
<1>1. Starts(w, v)
  BY StartsMoves
<1>2. QED BY <1>1 DEF Starts, Advances, Sound, Saves

LEMMA RecordsAdvance ==
  ASSUME NEW w, NEW v, Sound(w), Records(w, v), Keeps(w, v), InLine(w) => InLine(v)
  PROVE  Advances(w, v)
<1>1. Sound(v) /\ Quiet(w, v)
  BY RecordsAgree DEF Sound, Records
<1>2. StaysPaused(w, v)
  BY DEF Records, StaysPaused
<1>3. QED BY <1>1, <1>2 DEF Advances, Saves

\* The import of the recorder settles.
Settles(w, m, r) ==
  /\ Starts(w, m) /\ Agreed(m) /\ m.inst.recorder = r
  /\ w.inst.waiting \in Seq(WaitersFor(m))

LEMMA RecorderSettles ==
  ASSUME NEW w, Sound(w), w.inst.recorder = "loading", NEW r \in {"ready", "failed"},
         NEW m, m = [w EXCEPT !.inst.recorder = r, !.inst.waiting = <<>>]
  PROVE  Settles(w, m, r)
<1> DEFINE i == [w.inst EXCEPT !.recorder = r, !.waiting = <<>>]
<1>e. <<>> \in Seq(Waiter)
  OBVIOUS
<1>1. i \in InstType /\ i.recorder = r /\ i.waiting = <<>> /\ i.errorNoticed = w.inst.errorNoticed
  BY <1>e DEF Sound, Worlds, InstType
<1>2. m = [w EXCEPT !.inst = i]
  BY DEF Sound, Worlds, InstType
<1> HIDE DEF i
<1>3. m \in Worlds /\ m.inst = i /\ m.agg = w.agg /\ m.rec = w.rec /\ m.page = w.page
      /\ m.net = w.net
  BY <1>1, <1>2 DEF Sound, Worlds
<1>4. Ordered(m)
  <2>1. ~w.agg.recorder
    BY DEF Sound, Core, Ordered, Worlds, AggType
  <2>2. QED BY <1>1, <1>3, <2>1 DEF Sound, Core, Ordered
<1>5. Marked(w, m)
  BY <1>1, <1>3, <1>4 DEF Marked
<1>6. WaitersFor(m) = WaitersFor(w)
  BY <1>3, ForSame
<1>7. QED BY <1>1, <1>3, <1>5, <1>6, MarkedStarts DEF Settles, Sound, Core, Waits, Agreed

LEMMA ArrivesAdvances ==
  ASSUME Sound(World), RecorderArrives PROVE Advances(World, World')
<1> DEFINE w == World
           m == [World EXCEPT !.inst.recorder = "ready", !.inst.waiting = <<>>]
           v == FoldLeft(Proceed, m, w.inst.waiting)
<1>1. w.inst.recorder = "loading" /\ Apply(v) /\ Sound(w)
  BY WorldFields DEF RecorderArrives
<1>2. m = [w EXCEPT !.inst.recorder = "ready", !.inst.waiting = <<>>]
  OBVIOUS
<1> HIDE DEF w, m
<1>3. Settles(w, m, "ready")
  BY <1>1, <1>2, RecorderSettles
<1>4. Result(m, v)
  BY <1>3, ProceedFolds DEF Settles, Starts
<1> HIDE DEF v
<1>5. Advances(w, v)
  <2>1. StaysPaused(w, v)
    BY <1>1 DEF StaysPaused, Rests
  <2>2. QED BY <1>3, <1>4, <2>1, MovesAdvance DEF Settles, Result
<1>6. World' = v
  BY <1>1, <1>4, AppliedIsNext DEF Result, Moves, Goes
<1>7. QED BY <1>5, <1>6 DEF w

LEMMA FailsAdvances ==
  ASSUME Sound(World), RecorderFails PROVE Advances(World, World')
<1> DEFINE w == World
           m == [World EXCEPT !.inst.recorder = "failed", !.inst.waiting = <<>>]
           v == FoldLeft(Reject, m, w.inst.waiting)
<1>1. w.inst.recorder = "loading" /\ Apply(v) /\ Sound(w)
  BY WorldFields DEF RecorderFails
<1>2. m = [w EXCEPT !.inst.recorder = "failed", !.inst.waiting = <<>>]
  OBVIOUS
<1> HIDE DEF w, m
<1>3. Settles(w, m, "failed")
  BY <1>1, <1>2, RecorderSettles
<1>4. Result(m, v)
  BY <1>3, RejectFolds DEF Settles, Starts
<1> HIDE DEF v
<1>5. Advances(w, v)
  <2>1. StaysPaused(w, v)
    BY <1>1 DEF StaysPaused, Rests
  <2>2. QED BY <1>3, <1>4, <2>1, MovesAdvance DEF Settles, Result
<1>6. World' = v
  BY <1>1, <1>4, AppliedIsNext DEF Result, Moves, Goes
<1>7. QED BY <1>5, <1>6 DEF w

LEMMA EmptyCompressorFold == \A w : FoldLeft(AfterCompressor, w, <<>>) = w
<1> TAKE w
<1> DEFINE W == {w}
           Q == {}
           q == <<>>
<1>1. w \in W /\ q \in Seq(Q) /\ \A v \in W, x \in Q : AfterCompressor(v, x) \in W
  OBVIOUS
<1>2. \A x \in W : x = w
  OBVIOUS
<1> HIDE DEF W, Q, q
<1>3. A!FoldLeft(AfterCompressor, w, q) \in W
  BY <1>1, A!FoldStays, Zenon
<1>4. QED BY <1>2, <1>3, SameCompressor DEF q

LEMMA CompressorAdvances ==
  ASSUME Sound(World), CompressorSettles PROVE Advances(World, World')
<1> DEFINE w == World
           a == [w.agg EXCEPT !.compressor = "ready", !.waiting = <<>>]
           m == [World EXCEPT !.agg.compressor = "ready", !.agg.waiting = <<>>]
           v == FoldLeft(AfterCompressor, m, w.agg.waiting)
<1>1. w.agg.compressor = "loading" /\ Apply(v) /\ Sound(w)
  BY WorldFields DEF CompressorSettles
<1>e. <<>> \in Seq(Call)
  OBVIOUS
<1>2. m = [w EXCEPT !.agg = a]
  BY <1>1 DEF Sound, Worlds, AggType
<1> HIDE DEF w
<1>3. /\ a \in AggType /\ a.compressor = "ready" /\ a.waiting = <<>> /\ a.mode = w.agg.mode
      /\ a.initialized = w.agg.initialized /\ a.recorder = w.agg.recorder
      /\ a.loaded = w.agg.loaded /\ a.refused = w.agg.refused
      /\ a.entitled = w.agg.entitled /\ a.blocked = w.agg.blocked
      /\ a.flagged = w.agg.flagged /\ a.drain = w.agg.drain
      /\ a.isRetrying = w.agg.isRetrying
  BY <1>1, <1>e DEF Sound, Worlds, AggType
<1> HIDE DEF a, m
<1>4. m \in Worlds /\ m.inst = w.inst /\ m.agg = a /\ m.rec = w.rec /\ m.page = w.page
      /\ m.net = w.net
  BY <1>1, <1>2, <1>3 DEF Sound, Worlds
<1>5. Marked(w, m)
  <2>1. Ordered(m)
    BY <1>1, <1>3, <1>4 DEF Sound, Core, Ordered
  <2>2. m.agg.entitled
    <3>1. w.agg.entitled \in BOOLEAN
      BY <1>1 DEF Sound, Worlds, AggType
    <3>2. QED BY <1>1, <1>3, <1>4, <3>1 DEF Sound, Core, Reasoned
  <2>3. QED BY <1>3, <1>4, <2>1, <2>2 DEF Marked
<1>6. Starts(w, m) /\ Core(m) /\ Initialized(m) /\ PausedOff(m)
  <2>1. Starts(w, m)
    BY <1>1, <1>5, MarkedStarts DEF Sound
  <2>2. QED BY <1>1, <1>3, <1>4, <2>1 DEF Sound, Agreed, Initialized, PausedOff, Starts
<1>7. CASE w.agg.waiting = <<>>
  <2>1. v = m
    BY <1>7, EmptyCompressorFold
  <2>2. Agreed(m)
    BY <1>1, <1>3, <1>4, <1>7 DEF Sound, Agreed
  <2>3. Advances(w, m)
    <3>1. StaysPaused(w, m)
      BY <1>4 DEF StaysPaused
    <3>2. QED BY <1>4, <1>6, <2>2, <3>1, MovesNowhere, MovesAdvance
  <2>4. World' = m
    BY <1>1, <1>4, <2>1, AppliedIsNext
  <2>5. QED BY <2>3, <2>4 DEF w
<1>8. CASE w.agg.waiting # <<>>
  <2>1. w.agg.waiting \in Seq(CallsFor(m))
    <3>1. CallsFor(m) = CallsFor(w)
      BY <1>3, <1>4, ForSame
    <3>2. QED BY <1>1, <3>1 DEF Sound, Core, Waits
  <2>2. Result(m, v)
    BY <1>4, <1>6, <1>8, <2>1, CompressorFolds
  <2> HIDE DEF v
  <2>3. StaysPaused(w, v)
    BY <1>8 DEF StaysPaused, Rests
  <2>4. Advances(w, v)
    BY <1>6, <2>2, <2>3, MovesAdvance DEF Result
  <2>5. World' = v
    BY <1>1, <2>2, AppliedIsNext DEF Result, Moves, Goes
  <2>6. QED BY <2>4, <2>5 DEF w
<1>9. QED BY <1>7, <1>8

LEMMA LoadAdvances ==
  ASSUME Sound(World), LoadAggregate PROVE Advances(World, World')
<1> DEFINE w == World
           r == w.inst.recorder = "ready"
           a == [w.agg EXCEPT !.loaded = TRUE, !.recorder = r]
           m == [World EXCEPT !.agg.loaded = TRUE, !.agg.recorder = (inst.recorder = "ready")]
<1>1. ~w.agg.loaded /\ Apply(m) /\ Sound(w)
  BY WorldFields DEF LoadAggregate
<1>r. r \in BOOLEAN
  OBVIOUS
<1>2. m = [w EXCEPT !.agg = a]
  BY <1>1, WorldFields DEF Sound, Worlds, AggType
<1> HIDE DEF w, r
<1>3. /\ a \in AggType /\ a.loaded = TRUE /\ a.recorder = r /\ a.mode = w.agg.mode
      /\ a.initialized = w.agg.initialized /\ a.compressor = w.agg.compressor
      /\ a.waiting = w.agg.waiting /\ a.refused = w.agg.refused
      /\ a.entitled = w.agg.entitled /\ a.blocked = w.agg.blocked
      /\ a.flagged = w.agg.flagged /\ a.drain = w.agg.drain
      /\ a.isRetrying = w.agg.isRetrying
  BY <1>1, <1>r DEF Sound, Worlds, AggType
<1> HIDE DEF a, m
<1>4. m \in Worlds /\ m.inst = w.inst /\ m.agg = a /\ m.rec = w.rec /\ m.page = w.page
      /\ m.net = w.net
  BY <1>1, <1>2, <1>3 DEF Sound, Worlds
<1>5. ~w.agg.entitled
  BY <1>1 DEF Sound, Core, Ordered, Worlds, AggType
<1>6. Marked(w, m)
  <2>1. Ordered(m)
    BY <1>1, <1>3, <1>4 DEF Sound, Core, Ordered, r
  <2>2. QED BY <1>3, <1>4, <2>1 DEF Marked
<1>7. Starts(w, m)
  BY <1>1, <1>6, MarkedStarts DEF Sound
<1>8. Agreed(m)
  BY <1>1, <1>3, <1>4, <1>5 DEF Sound, Agreed
<1>9. StaysPaused(w, m)
  BY <1>4 DEF StaysPaused
<1>10. Advances(w, m)
  BY <1>7, <1>8, <1>9, MovesNowhere, MovesAdvance DEF Starts
<1>11. QED BY <1>1, <1>4, <1>10, AppliedIsNext DEF w
LEMMA SessionFailsAdvances ==
  ASSUME Sound(World), SessionFails PROVE Advances(World, World')
<1> DEFINE w == World
           a == [w.agg EXCEPT !.refused = TRUE]
           p == [w.page EXCEPT !.queue = <<>>]
           r == [w.rec EXCEPT !.canRecord = FALSE]
           m == [World EXCEPT !.agg.refused = TRUE, !.page.queue = <<>>]
           n == [m EXCEPT !.rec.canRecord = FALSE]
           s == Stop(n)
           v == IF w.inst.recorder = "ready" THEN s ELSE m
<1>1. Apply(v) /\ Sound(w)
  BY WorldFields DEF SessionFails
<1>e. <<>> \in Seq(Item)
  OBVIOUS
<1>2. m = [w EXCEPT !.agg = a, !.page = p]
  BY <1>1 DEF Sound, Worlds, AggType, PageType
<1> HIDE DEF w
<1>3. /\ a \in AggType /\ a.loaded = w.agg.loaded /\ a.recorder = w.agg.recorder
      /\ a.mode = w.agg.mode /\ a.initialized = w.agg.initialized
      /\ a.compressor = w.agg.compressor /\ a.waiting = w.agg.waiting
      /\ a.entitled = w.agg.entitled /\ a.blocked = w.agg.blocked
      /\ a.flagged = w.agg.flagged /\ a.drain = w.agg.drain
      /\ a.isRetrying = w.agg.isRetrying
  BY <1>1 DEF Sound, Worlds, AggType
<1>4. p \in PageType /\ p.mode = w.page.mode /\ p.rrweb = w.page.rrweb /\ p.queue = <<>>
  BY <1>1, <1>e DEF Sound, Worlds, PageType
<1>5. /\ r \in RecType /\ r.backlog = w.rec.backlog /\ r.events = w.rec.events
      /\ r.trigger = w.rec.trigger /\ r.retryPayload = w.rec.retryPayload
      /\ r.lastMeta = w.rec.lastMeta
  BY <1>1 DEF Sound, Worlds, RecType
<1> HIDE DEF a, p, m
<1>6. m \in Worlds /\ m.inst = w.inst /\ m.agg = a /\ m.rec = w.rec /\ m.page = p
      /\ m.net = w.net
  BY <1>1, <1>2, <1>3, <1>4 DEF Sound, Worlds
<1>7. n = [m EXCEPT !.rec = r]
  BY <1>6 DEF Worlds, RecType
<1> HIDE DEF r, n
<1>8. n \in Worlds /\ n.inst = w.inst /\ n.agg = a /\ n.rec = r /\ n.page = p
      /\ n.net = w.net
  BY <1>5, <1>6, <1>7 DEF Worlds
<1>9. Marked(w, m) /\ Marked(w, n)
  <2>1. Ordered(m) /\ Ordered(n)
    BY <1>1, <1>3, <1>6, <1>8 DEF Sound, Core, Ordered
  <2>2. QED BY <1>3, <1>4, <1>5, <1>6, <1>8, <2>1 DEF Marked
<1>10. Starts(w, m) /\ Starts(w, n) /\ Core(n) /\ Core(m)
  BY <1>1, <1>9, MarkedStarts DEF Sound, Starts
<1>11. Agreed(m) /\ Agreed(n)
  BY <1>1, <1>3, <1>4, <1>6, <1>8 DEF Sound, Agreed
<1>12. Stops(n, s)
  BY <1>8, StopStops
<1> HIDE DEF s
<1>13. Moves(n, s) /\ Agreed(s)
  <2>1. Pages(n, s)
    BY <1>12 DEF Stops, Pages
  <2>2. QED BY <1>8, <1>10, <1>11, <1>12, <2>1, PagesGo DEF Moves, Stops, Agreed
<1>14. Advances(w, s)
  <2>1. StaysPaused(w, s)
    BY <1>4, <1>8, <1>12 DEF Stops, StaysPaused
  <2>2. QED BY <1>10, <1>13, <2>1, MovesAdvance
<1>15. Advances(w, m)
  <2>1. StaysPaused(w, m)
    BY <1>4, <1>6 DEF StaysPaused
  <2>2. QED BY <1>6, <1>10, <1>11, <2>1, MovesNowhere, MovesAdvance
<1>16. Advances(w, v)
  BY <1>14, <1>15
<1> HIDE DEF v
<1>17. World' = v
  BY <1>1, <1>16, AppliedIsNext DEF Advances, Sound
<1>18. QED BY <1>16, <1>17 DEF w

LEMMA FlagsAdvances ==
  ASSUME Sound(World), NEW srMode \in Sampled, NEW entitled \in Entitlements,
         OnFlags(srMode, entitled)
  PROVE  Advances(World, World')
<1> DEFINE w == World
           reason == w.net.reason \/ srMode = "full"
           a == [w.agg EXCEPT !.flagged = TRUE, !.entitled = entitled]
           n == [w.net EXCEPT !.reason = reason]
           m == [World EXCEPT !.agg.flagged = TRUE, !.agg.entitled = entitled,
                              !.net.reason = @ \/ srMode = "full"]
           call == [trigger |-> "initialize", drains |-> TRUE]
           d == InitializeRecording(m, srMode, FALSE, call)
           e == NotEntitled(m)
           u == IF entitled THEN d ELSE e
           v == StopUnlessOn(u)
<1>1. w.agg.loaded /\ ~w.agg.flagged /\ Apply(v) /\ Sound(w)
  BY WorldFields DEF OnFlags
<1>2. srMode \in Modes /\ entitled \in BOOLEAN /\ reason \in BOOLEAN
  BY FlagAssumption
<1>3. m = [w EXCEPT !.agg = a, !.net = n]
  BY <1>1 DEF Sound, Worlds, AggType, NetType
<1> HIDE DEF w
<1>r. w.net.reason => reason
  OBVIOUS
<1>s. srMode = "full" => reason
  OBVIOUS
<1> HIDE DEF reason
<1>4. /\ a \in AggType /\ a.flagged = TRUE /\ a.entitled = entitled
      /\ a.loaded = w.agg.loaded /\ a.recorder = w.agg.recorder
      /\ a.mode = w.agg.mode /\ a.initialized = w.agg.initialized
      /\ a.compressor = w.agg.compressor /\ a.waiting = w.agg.waiting
      /\ a.blocked = w.agg.blocked /\ a.drain = w.agg.drain
      /\ a.isRetrying = w.agg.isRetrying
  BY <1>1, <1>2 DEF Sound, Worlds, AggType
<1>5. n \in NetType /\ n.reason = reason /\ n.sent = w.net.sent
      /\ n.inflight = w.net.inflight /\ n.paused = w.net.paused
      /\ n.emitted = w.net.emitted
  BY <1>1, <1>2 DEF Sound, Worlds, NetType
<1> HIDE DEF a, n, m
<1>6. m \in Worlds /\ m.inst = w.inst /\ m.agg = a /\ m.rec = w.rec /\ m.page = w.page
      /\ m.net = n
  BY <1>1, <1>3, <1>4, <1>5 DEF Sound, Worlds
<1>7. ~w.agg.entitled
  BY <1>1 DEF Sound, Core, Ordered, Worlds, AggType
<1>8. Marked(w, m)
  <2>1. Ordered(m)
    BY <1>1, <1>4, <1>6 DEF Sound, Core, Ordered
  <2>2. QED BY <1>4, <1>5, <1>6, <1>7, <1>r, <2>1 DEF Marked
<1>9. Starts(w, m) /\ Core(m)
  BY <1>1, <1>8, MarkedStarts DEF Sound, Starts
<1>10. entitled => Moves(m, d) /\ Agreed(d)
  <2>1. call \in CallsFor(m) /\ FALSE \in BOOLEAN
    BY DEF CallsFor, Call
  <2>2. srMode = "full" => m.net.reason
    BY <1>5, <1>6, <1>s
  <2> HIDE DEF call
  <2>3. QED BY <1>2, <1>4, <1>6, <1>9, <2>1, <2>2, InitializeMoves
<1>11. ~entitled => Moves(m, e) /\ Agreed(e)
  BY <1>4, <1>6, <1>9, NotEntitledMoves
<1> HIDE DEF d, e
<1>12. Moves(m, u) /\ Agreed(u)
  BY <1>2, <1>10, <1>11
<1> HIDE DEF u
<1>13. Goes(u, v) /\ Agreed(v)
  BY <1>12, StopUnlessOnGoes DEF Moves, Goes
<1> HIDE DEF v
<1>14. Advances(w, v)
  <2>1. Sound(v)
    BY <1>13 DEF Goes, Sound
  <2>2. Quiet(w, v)
    BY <1>9, <1>12, <1>13 DEF Starts, Moves, Goes, Quiet
  <2>3. ASSUME InLine(w) PROVE InLine(v)
    <3>1. InLine(m)
      BY <1>9, <2>3 DEF Starts
    <3>2. InLine(u)
      BY <1>12, <3>1, FlowsInLine DEF Moves, Goes
    <3>3. QED BY <1>13, <3>2, FlowsInLine DEF Goes
  <2>4. Saves(w, v) /\ StaysPaused(w, v)
    BY <1>1 DEF Saves, StaysPaused, Rests
  <2>5. QED BY <2>1, <2>2, <2>3, <2>4 DEF Advances
<1>15. World' = v
  BY <1>1, <1>14, AppliedIsNext DEF Advances, Sound
<1>16. QED BY <1>14, <1>15 DEF w

LEMMA DrainAdvances ==
  ASSUME Sound(World), InLine(World), Drain PROVE Advances(World, World')
<1> DEFINE w == World
           m == [World EXCEPT !.agg.drain = "running"]
           t == ReplayAll(m)
           u == ReplayAll(t)
           v == [u EXCEPT !.agg.drain = "done"]
<1>1. w.agg.drain = "none" /\ Apply(v) /\ Sound(w) /\ InLine(w)
  BY WorldFields DEF Drain
<1>2. m = [w EXCEPT !.agg.drain = "running"]
  OBVIOUS
<1> HIDE DEF w, m
<1>3. Phases(w, "running", m)
  BY <1>1, <1>2, PhaseWritten DEF Sound
<1>4. m \in Worlds /\ Core(m) /\ Agreed(m) /\ m.agg.drain = "running"
  BY <1>1, <1>3 DEF Phases, Starts, Sound
<1>5. Replays(m, t) /\ Drains(m, t)
  BY <1>4, ReplaysAll
<1> HIDE DEF t
<1>6. Replays(t, u) /\ Drains(t, u)
  BY <1>5, ReplaysAll DEF Replays
<1> HIDE DEF u
<1>v. v = [u EXCEPT !.agg.drain = "done"]
  OBVIOUS
<1> HIDE DEF v
<1>7. u.page.queue = <<>> => Phases(u, "done", v)
  BY <1>6, <1>v, PhaseWritten DEF Replays
<1>8. Advances(w, v)
  <2>1. InLine(u) /\ u.page.queue = <<>>
    BY <1>1, <1>3, <1>5, <1>6 DEF Phases, Starts, Drains
  <2>2. Sound(v) /\ InLine(v)
    BY <1>6, <1>7, <2>1 DEF Replays, Phases, Starts, Sound
  <2>3. Quiet(w, v)
    BY <1>3, <1>5, <1>6, <1>7, <2>1 DEF Replays, Phases, Starts, Quiet
  <2>4. Saves(w, v)
    BY <1>1 DEF Sound, Core, Filled, Saves
  <2>5. StaysPaused(w, v)
    BY <1>3, <1>5, <1>6, <1>7, <2>1 DEF Replays, Phases, StaysOff, Stopped, StaysPaused, Rests
  <2>6. QED BY <2>2, <2>3, <2>4, <2>5 DEF Advances
<1>9. World' = v
  BY <1>1, <1>8, AppliedIsNext DEF Advances, Sound
<1>10. QED BY <1>8, <1>9 DEF w

LEMMA RecordAdvances ==
  ASSUME Sound(World), RecordReplay PROVE Advances(World, World')
<1> DEFINE w == World
           n == [w.net EXCEPT !.reason = TRUE, !.paused = FALSE]
           m == [World EXCEPT !.net.reason = TRUE, !.net.paused = FALSE]
           call == [trigger |-> "api", drains |-> FALSE]
           waiter == [for |-> "api"]
           d == InitializeRecording(m, "full", TRUE, call)
           s == StartRecording(m, "api", "full")
           i == ImportRecorder(m, waiter)
           v == IF w.agg.loaded THEN IF w.agg.mode = "full" THEN m ELSE d
                ELSE IF w.inst.recorder = "ready" THEN s ELSE i
<1>1. Apply(v) /\ Sound(w)
  BY WorldFields DEF RecordReplay
<1>2. m = [w EXCEPT !.net = n]
  BY <1>1 DEF Sound, Worlds, NetType
<1> HIDE DEF w
<1>3. n \in NetType /\ n.reason = TRUE /\ n.paused = FALSE /\ n.sent = w.net.sent
      /\ n.inflight = w.net.inflight /\ n.emitted = w.net.emitted
  BY <1>1 DEF Sound, Worlds, NetType
<1> HIDE DEF n, m
<1>4. m \in Worlds /\ m.inst = w.inst /\ m.agg = w.agg /\ m.rec = w.rec /\ m.page = w.page
      /\ m.net = n
  BY <1>1, <1>2, <1>3 DEF Sound, Worlds
<1>5. Marked(w, m)
  <2>1. Ordered(m)
    BY <1>1, <1>4 DEF Sound, Core, Ordered
  <2>2. QED BY <1>3, <1>4, <2>1 DEF Marked
<1>6. Starts(w, m) /\ Core(m)
  BY <1>1, <1>5, MarkedStarts DEF Sound, Starts
<1>7. Agreed(m) /\ PausedOff(m)
  BY <1>1, <1>3, <1>4 DEF Sound, Agreed, PausedOff
<1>8. Moves(m, d) /\ Agreed(d)
  <2>1. call \in CallsFor(m) /\ "full" \in Modes /\ TRUE \in BOOLEAN
    BY <1>3, <1>4 DEF CallsFor, Call, Modes
  <2> HIDE DEF call
  <2>2. QED BY <1>3, <1>4, <1>6, <1>7, <2>1, InitializeMoves
<1>9. Moves(m, s) /\ Agreed(s)
  <2>1. Goes(m, s) /\ Keeps(m, s) /\ Begins(m, s)
    BY <1>3, <1>4, <1>6, Constants, StartRecordingBegins DEF Triggers
  <2> HIDE DEF s
  <2>2. QED BY <1>7, <2>1, BeginsAgree DEF Moves
<1>10. w.inst.recorder # "ready" => Moves(m, i) /\ Agreed(i)
  <2> SUFFICES ASSUME w.inst.recorder # "ready" PROVE Moves(m, i) /\ Agreed(i)
    OBVIOUS
  <2>1. waiter \in WaitersFor(m)
    <3>1. waiter \in ApiWaiter /\ waiter.for = "api"
      BY DEF ApiWaiter
    <3> HIDE DEF waiter
    <3>2. QED BY <1>3, <1>4, <3>1 DEF WaitersFor, Waiter
  <2> HIDE DEF waiter
  <2>2. Awaits(m, i)
    BY <1>4, <1>6, <2>1, ImportAwaits
  <2> HIDE DEF i
  <2>3. QED BY <1>7, <2>2 DEF Awaits, Moves, Goes, Agreed
<1> HIDE DEF d, s, i
<1>11. Moves(m, v) /\ Agreed(v)
  BY <1>4, <1>6, <1>7, <1>8, <1>9, <1>10, MovesNowhere
<1> HIDE DEF v
<1>12. StaysPaused(w, v)
  BY <1>3, <1>4, <1>11 DEF Moves, Goes, StaysPaused
<1>13. Advances(w, v)
  BY <1>6, <1>11, <1>12, MovesAdvance
<1>14. World' = v
  BY <1>1, <1>13, AppliedIsNext DEF Advances, Sound
<1>15. QED BY <1>13, <1>14 DEF w
LEMMA LaterRecords ==
  ASSUME NEW w \in Worlds, NEW x \in ItemsFor(w)
  PROVE  Records(w, Later(w, x)) /\ Keeps(w, Later(w, x))
<1> DEFINE I == ItemsFor(w)
           q == Append(w.page.queue, x)
           p == [w.page EXCEPT !.queue = q]
           v == [w EXCEPT !.page = p]
<1>1. q \in Seq(Item) /\ (Core(w) => q \in Seq(ItemsFor(w)))
  <2>1. w.page.queue \in Seq(Item) /\ x \in Item /\ x \in I
    BY DEF Worlds, PageType, ItemsFor
  <2>2. Core(w) => w.page.queue \in Seq(I)
    BY DEF Core, Waits
  <2> HIDE DEF I
  <2>3. q \in Seq(Item)
    BY <2>1
  <2>4. ASSUME Core(w) PROVE q \in Seq(I)
    BY <2>1, <2>2, <2>4
  <2>5. QED BY <2>3, <2>4 DEF I
<1>2. Later(w, x) = v
  BY DEF Later, Worlds, PageType
<1> HIDE DEF I, q
<1>3. /\ p \in PageType /\ p.mode = w.page.mode /\ p.isRecording = w.page.isRecording
      /\ p.rrweb = w.page.rrweb /\ p.visible = w.page.visible /\ p.queue = q
  BY <1>1 DEF Worlds, PageType
<1> HIDE DEF p
<1>4. Numbered(w, v)
  BY <1>1, <1>3 DEF Numbered, Worlds
<1>5. QED BY <1>2, <1>4, NumberedRecords

\* An error or a pause that waits for the drain is no node.
LEMMA LaterLines ==
  ASSUME NEW w \in Worlds, NEW x \in Item, ~IsNode(<<x>>, 1), w.agg.drain # "done", InLine(w)
  PROVE  InLine(Later(w, x))
<1> DEFINE q == w.page.queue
           t == Append(q, x)
           p == [w.page EXCEPT !.queue = t]
           v == Later(w, x)
<1>1. q \in Seq(Item) /\ w.page \in PageType
  BY DEF Worlds, PageType
<1>2. /\ t \in Seq(Item) /\ DOMAIN t = 1..(Len(q) + 1) /\ DOMAIN q = 1..Len(q)
      /\ Len(q) \in Nat /\ t[Len(q) + 1] = x /\ \A i \in 1..Len(q) : t[i] = q[i]
  BY <1>1, AppendItem
<1>3. v = [w EXCEPT !.page = p]
  BY DEF Later, Worlds, PageType
<1>t. t = Append(w.page.queue, x)
  OBVIOUS
<1> HIDE DEF t, v
<1>4. p \in PageType /\ p.queue = t
  BY <1>1, <1>2 DEF PageType
<1> HIDE DEF p
<1>5. v \in Worlds /\ v.agg = w.agg /\ v.rec = w.rec /\ v.net = w.net /\ v.page = p
  BY <1>3, <1>4 DEF Worlds
<1>6. Pending(w, q) /\ Steady(q) /\ Rested(w)
  BY InLineParts
<1> HIDE DEF q
<1>7. AllNodes(v) = AllNodes(w)
  BY <1>5 DEF AllNodes
<1>8. Played(v) /\ Rested(v)
  BY <1>5, <1>6, <1>7 DEF Pending, Played, Lined, Rested
<1>9. x.type # "node"
  BY DEF IsNode
<1>10. /\ ~IsNode(t, Len(q) + 1)
       /\ \A i \in DOMAIN t : i # Len(q) + 1 => i \in DOMAIN q
       /\ \A i \in DOMAIN q : i \in DOMAIN t /\ t[i] = q[i] /\ IsNode(t, i) = IsNode(q, i)
  BY <1>2, <1>9 DEF IsNode
<1>11. Queued(t, v.net.emitted)
  <2>1. Queued(q, w.net.emitted)
    BY <1>6 DEF Pending
  <2>2. \A i \in DOMAIN q : i > 1 => i - 1 \in DOMAIN q
    BY <1>2
  <2>3. \A i \in DOMAIN t : IsNode(t, i) => i \in DOMAIN q /\ IsNode(q, i) /\ t[i] = q[i]
    BY <1>10
  <2>4. QED BY <1>5, <1>10, <2>1, <2>2, <2>3 DEF Queued
<1>12. Below(v, t)
  BY <1>5, <1>6, <1>7, <1>10 DEF Pending, Below
<1>13. Steady(t)
  <2>1. q # <<>> => 1 \in DOMAIN q
    BY <1>2
  <2>2. q = <<>> => Len(q) + 1 = 1
    OBVIOUS
  <2>3. QED BY <1>6, <1>10, <2>1, <2>2 DEF Steady
<1>14. Pending(v, t)
  BY <1>5, <1>8, <1>11, <1>12 DEF Pending
<1>15. v.page.queue = t
  BY <1>4, <1>5
<1>16. QED BY <1>5, <1>8, <1>13, <1>14, <1>15, InLineParts DEF v

LEMMA PauseAdvances ==
  ASSUME Sound(World), PauseReplay PROVE Advances(World, World')
<1> DEFINE w == World
           x == [type |-> "pause"]
           d == Pause(w)
           l == Later(w, x)
           v == IF w.agg.drain = "done" THEN d ELSE IF w.agg.refused THEN w ELSE l
<1>1. Apply(v) /\ Sound(w)
  BY WorldFields DEF PauseReplay
<1> HIDE DEF w
<1>2. Advances(w, d)
  <2>1. Pauses(w, d)
    BY <1>1, PausePauses DEF Sound
  <2> HIDE DEF d
  <2>2. QED BY <2>1 DEF Pauses, Starts, Advances, Sound, Saves, Stopped, StaysPaused
<1>3. Advances(w, w)
  BY <1>1, RecordsNothing, RecordsAdvance DEF Sound
<1>4. w.agg.drain # "done" => Advances(w, l)
  <2> SUFFICES ASSUME w.agg.drain # "done" PROVE Advances(w, l)
    OBVIOUS
  <2>1. x \in ItemsFor(w) /\ x \in Item /\ ~IsNode(<<x>>, 1)
    BY DEF ItemsFor, Item, OtherItem, IsNode
  <2> HIDE DEF x
  <2>2. Records(w, l) /\ Keeps(w, l)
    BY <1>1, <2>1, LaterRecords DEF Sound
  <2>3. InLine(w) => InLine(l)
    BY <1>1, <2>1, LaterLines DEF Sound
  <2> HIDE DEF l
  <2>4. QED BY <1>1, <2>2, <2>3, RecordsAdvance
<1> HIDE DEF d, l
<1>5. Advances(w, v)
  BY <1>2, <1>3, <1>4
<1> HIDE DEF v
<1>6. World' = v
  BY <1>1, <1>5, AppliedIsNext DEF Advances, Sound
<1>7. QED BY <1>5, <1>6 DEF w

LEMMA ErrorAdvances ==
  ASSUME Sound(World), NoticeError PROVE Advances(World, World')
<1> DEFINE w == World
           i == [w.inst EXCEPT !.errorNoticed = TRUE]
           n == [w.net EXCEPT !.reason = TRUE]
           m == [World EXCEPT !.inst.errorNoticed = TRUE, !.net.reason = TRUE]
           x == [type |-> "error"]
           d == HandleError(m)
           l == Later(m, x)
           v == IF w.agg.drain = "done" THEN d ELSE IF w.agg.refused THEN m ELSE l
<1>1. Apply(v) /\ Sound(w)
  BY WorldFields DEF NoticeError
<1>2. m = [w EXCEPT !.inst = i, !.net = n]
  BY <1>1 DEF Sound, Worlds, InstType, NetType
<1> HIDE DEF w
<1>3. n \in NetType /\ n.reason = TRUE /\ n.paused = w.net.paused /\ n.sent = w.net.sent
      /\ n.inflight = w.net.inflight /\ n.emitted = w.net.emitted
  BY <1>1 DEF Sound, Worlds, NetType
<1>4. i \in InstType /\ i.recorder = w.inst.recorder /\ i.waiting = w.inst.waiting
  BY <1>1 DEF Sound, Worlds, InstType
<1> HIDE DEF i, n, m
<1>5. m \in Worlds /\ m.inst = i /\ m.agg = w.agg /\ m.rec = w.rec /\ m.page = w.page
      /\ m.net = n
  BY <1>1, <1>2, <1>3, <1>4 DEF Sound, Worlds
<1>6. Marked(w, m)
  <2>1. Ordered(m)
    BY <1>1, <1>4, <1>5 DEF Sound, Core, Ordered
  <2>2. QED BY <1>3, <1>4, <1>5, <2>1 DEF Marked
<1>7. Starts(w, m) /\ Core(m)
  BY <1>1, <1>6, MarkedStarts DEF Sound, Starts
<1>8. Agreed(m)
  BY <1>1, <1>3, <1>5 DEF Sound, Agreed
<1>9. Moves(m, d) /\ Agreed(d) /\ (w.agg.mode = "off" => d = m)
  BY <1>3, <1>5, <1>7, <1>8, HandleErrorMoves
<1>10. ASSUME w.agg.drain # "done" PROVE Advances(w, l)
  <2>1. x \in ItemsFor(m) /\ x \in Item /\ ~IsNode(<<x>>, 1)
    BY <1>3, <1>5 DEF ItemsFor, Item, OtherItem, IsNode
  <2> HIDE DEF x
  <2>2. Records(m, l) /\ Keeps(m, l) /\ (InLine(m) => InLine(l))
    <3>1. Records(m, l) /\ Keeps(m, l)
      BY <1>5, <2>1, LaterRecords
    <3>2. m.agg.drain # "done"
      BY <1>5, <1>10
    <3>3. InLine(m) => InLine(l)
      BY <1>5, <2>1, <3>2, LaterLines
    <3>4. QED BY <3>1, <3>3
  <2> HIDE DEF l
  <2>3. Starts(m, l) /\ Agreed(l) /\ Core(l) /\ (l.page.rrweb => m.page.rrweb)
    BY <1>7, <1>8, <2>2, RecordsAgree DEF Starts, Records
  <2>4. Starts(w, l)
    BY <1>7, <2>3, KeepsCompose DEF Starts, Quiet
  <2>5. StaysPaused(w, l)
    BY <1>5, <2>3 DEF StaysPaused
  <2>6. QED BY <2>3, <2>4, <2>5, MovesNowhere, MovesAdvance DEF Starts
<1> HIDE DEF d, l
<1>11. Advances(w, m)
  <2>1. StaysPaused(w, m)
    BY <1>5 DEF StaysPaused
  <2>2. QED BY <1>5, <1>7, <1>8, <2>1, MovesNowhere, MovesAdvance
<1>12. Advances(w, d)
  <2>1. StaysPaused(w, d)
    BY <1>5, <1>9 DEF StaysPaused, Rests
  <2>2. QED BY <1>7, <1>9, <2>1, MovesAdvance
<1>14. Advances(w, v)
  BY <1>10, <1>11, <1>12
<1> HIDE DEF v
<1>15. World' = v
  BY <1>1, <1>14, AppliedIsNext DEF Advances, Sound
<1>16. QED BY <1>14, <1>15 DEF w

LEMMA MutateAdvances ==
  ASSUME Sound(World), Mutate PROVE Advances(World, World')
<1> DEFINE w == World
           v == Emit(w, "incr", FALSE)
<1>1. Apply(v) /\ Sound(w)
  BY DEF Mutate
<1> HIDE DEF w
<1>2. Records(w, v) /\ Keeps(w, v) /\ (InLine(w) => InLine(v))
  BY <1>1, EmitRecords, EmitFlows, FlowsInLine DEF Sound, Drops
<1> HIDE DEF v
<1>3. Advances(w, v)
  BY <1>1, <1>2, RecordsAdvance
<1>4. World' = v
  BY <1>1, <1>3, AppliedIsNext DEF Advances, Sound
<1>5. QED BY <1>3, <1>4 DEF w

LEMMA CheckoutAdvances ==
  ASSUME Sound(World), Checkout PROVE Advances(World, World')
<1> DEFINE w == World
           v == EmitSnapshot(w, TRUE)
<1>1. Apply(v) /\ Sound(w)
  BY DEF Checkout
<1> HIDE DEF w
<1>2. Records(w, v) /\ (~Drops(w, TRUE) => Keeps(w, v)) /\ Flows(w, v)
  BY <1>1, EmitSnapshotRecords, EmitSnapshotFlows DEF Sound
<1> HIDE DEF v
<1>3. Goes(w, v) /\ Agreed(v) /\ (InLine(w) => InLine(v))
  BY <1>1, <1>2, RecordsGo, RecordsAgree, FlowsInLine DEF Sound
<1>4. Advances(w, v)
  <2>1. Saves(w, v)
    BY <1>2 DEF Saves, Drops, Records, SameRec
  <2>2. StaysPaused(w, v)
    BY <1>2 DEF Records, StaysPaused
  <2>3. QED BY <1>3, <2>1, <2>2 DEF Goes, Advances, Sound
<1>5. World' = v
  BY <1>1, <1>4, AppliedIsNext DEF Advances, Sound
<1>6. QED BY <1>4, <1>5 DEF w

LEMMA IntervalAdvances ==
  ASSUME Sound(World), OnHarvestInterval PROVE Advances(World, World')
<1> DEFINE w == World
           v == Harvest(w, FALSE)
<1>1. Apply(v) /\ Sound(w)
  BY DEF OnHarvestInterval
<1> HIDE DEF w
<1>2. Records(w, v) /\ Keeps(w, v) /\ (InLine(w) => InLine(v))
  BY <1>1, HarvestRecords, HarvestFlows, FlowsInLine DEF Sound
<1> HIDE DEF v
<1>3. Advances(w, v)
  BY <1>1, <1>2, RecordsAdvance
<1>4. World' = v
  BY <1>1, <1>3, AppliedIsNext DEF Advances, Sound
<1>5. QED BY <1>3, <1>4 DEF w

\* The page is hidden or shown.
Turns(w, m) ==
  /\ m \in Worlds /\ m.inst = w.inst /\ m.agg = w.agg /\ m.rec = w.rec /\ m.net = w.net
  /\ m.page.mode = w.page.mode /\ m.page.rrweb = w.page.rrweb /\ m.page.queue = w.page.queue

LEMMA VisibilityTurns ==
  ASSUME NEW w \in Worlds, NEW b \in BOOLEAN, NEW m, m = [w EXCEPT !.page.visible = b]
  PROVE  Turns(w, m)
<1> DEFINE p == [w.page EXCEPT !.visible = b]
<1>1. p \in PageType /\ p.mode = w.page.mode /\ p.queue = w.page.queue
      /\ p.rrweb = w.page.rrweb
  BY DEF Worlds, PageType
<1>2. m = [w EXCEPT !.page = p]
  BY DEF Worlds, PageType
<1> HIDE DEF p
<1>3. QED BY <1>1, <1>2 DEF Turns, Worlds

LEMMA TurnsMoves ==
  ASSUME NEW w \in Worlds, Core(w), Agreed(w), NEW m, Turns(w, m)
  PROVE  Moves(w, m) /\ Agreed(m) /\ Starts(w, m) /\ m \in Worlds /\ Core(m)
<1>1. Pages(w, m)
  BY DEF Turns, Pages
<1>2. Moves(w, m)
  BY <1>1, PagesGo DEF Moves
<1>3. Agreed(m)
  BY DEF Turns, Agreed
<1>4. QED BY <1>2, <1>3, FlowsInLine DEF Moves, Goes, Starts

LEMMA HideAdvances ==
  ASSUME Sound(World), Hide PROVE Advances(World, World')
<1> DEFINE w == World
           m == [World EXCEPT !.page.visible = FALSE]
           h == Harvest(m, TRUE)
           s == StopKnown(h)
           v == IF w.agg.loaded THEN s ELSE m
<1>1. Apply(v) /\ Sound(w)
  BY WorldFields DEF Hide
<1>2. m = [w EXCEPT !.page.visible = FALSE]
  OBVIOUS
<1> HIDE DEF w, m
<1>3. Turns(w, m)
  BY <1>1, <1>2, VisibilityTurns DEF Sound
<1>4. Moves(w, m) /\ Agreed(m) /\ Starts(w, m) /\ m \in Worlds /\ Core(m)
  BY <1>1, <1>3, TurnsMoves DEF Sound
<1>5. Records(m, h) /\ Keeps(m, h) /\ Flows(m, h)
  BY <1>4, HarvestRecords, HarvestFlows
<1> HIDE DEF h
<1>6. Moves(m, h) /\ Agreed(h)
  BY <1>4, <1>5, RecordsGo, RecordsAgree DEF Moves
<1>7. Moves(h, s) /\ Agreed(s) /\ (s.page.rrweb => h.page.rrweb)
  BY <1>6, StopKnownMoves DEF Moves, Goes
<1> HIDE DEF s
<1>8. Moves(m, v) /\ Agreed(v)
  BY <1>4, <1>6, <1>7, MovesOn, MovesNowhere
<1>9. StaysPaused(w, v)
  BY <1>3, <1>5, <1>7 DEF StaysPaused, Records, Turns
<1> HIDE DEF v
<1>10. Advances(w, v)
  BY <1>4, <1>8, <1>9, MovesAdvance
<1>11. World' = v
  BY <1>1, <1>10, AppliedIsNext DEF Advances, Sound
<1>12. QED BY <1>10, <1>11 DEF w

LEMMA ShowAdvances ==
  ASSUME Sound(World), Show PROVE Advances(World, World')
<1> DEFINE w == World
           m == [World EXCEPT !.page.visible = TRUE]
           u == [m EXCEPT !.agg.mode = w.page.mode]
           s == StartRecording(u, "resume", u.agg.mode)
           v == IF ~w.agg.loaded \/ ~w.agg.recorder THEN m
                ELSE IF ~w.agg.initialized \/ w.page.mode \in {"off", Unset} THEN u ELSE s
<1>1. Apply(v) /\ Sound(w)
  BY WorldFields DEF Show
<1>2. m = [w EXCEPT !.page.visible = TRUE]
  OBVIOUS
<1> HIDE DEF w, m
<1>3. Turns(w, m)
  BY <1>1, <1>2, VisibilityTurns DEF Sound
<1>4. Moves(w, m) /\ Agreed(m) /\ Starts(w, m) /\ m \in Worlds /\ Core(m)
  BY <1>1, <1>3, TurnsMoves DEF Sound
<1>5. w.page.mode \in Mode
  BY <1>1 DEF Sound, Worlds, PageType
<1>6. Flips(m, u) /\ u.agg.mode = w.page.mode /\ u.agg.initialized = m.agg.initialized
  <2>1. u = [m EXCEPT !.agg.mode = w.page.mode]
    OBVIOUS
  <2> HIDE DEF u
  <2>2. QED BY <1>4, <1>5, <2>1, ModeFlips
<1> HIDE DEF u
<1>7. Moves(m, u) /\ Agreed(u) /\ u \in Worlds /\ Core(u)
  <2>1. u.agg.mode = "full" => m.net.reason
    <3>1. w.net.reason \in BOOLEAN
      BY <1>1 DEF Sound, Worlds, NetType
    <3>2. QED BY <1>1, <1>3, <1>6, <3>1 DEF Sound, Core, Reasoned, Turns
  <2>2. Moves(m, u)
    BY <1>4, <1>6, <2>1, FlipsGo DEF Moves
  <2>3. Agreed(u)
    BY <1>3, <1>4, <1>6 DEF Agreed, Flips, Turns
  <2>4. QED BY <2>2, <2>3 DEF Moves, Goes
<1>8. Moves(u, s) /\ Agreed(s)
  <2>1. u.agg.mode \in Mode
    BY <1>7 DEF Worlds, AggType
  <2>2. Goes(u, s) /\ Keeps(u, s) /\ Begins(u, s)
    BY <1>7, <2>1, StartRecordingBegins DEF Triggers
  <2> HIDE DEF s
  <2>3. QED BY <1>7, <2>2, BeginsAgree DEF Moves
<1> HIDE DEF s
<1>9. Moves(m, v) /\ Agreed(v)
  BY <1>4, <1>7, <1>8, MovesOn, MovesNowhere
<1>10. StaysPaused(w, v)
  <2>1. Rests(w) => w.page.mode \in {"off", Unset}
    BY <1>1 DEF Rests, Sound, Agreed
  <2>2. m.page.rrweb = w.page.rrweb /\ u.page.rrweb = w.page.rrweb
    BY <1>3, <1>6 DEF Turns, Flips
  <2>3. QED BY <2>1, <2>2 DEF StaysPaused
<1> HIDE DEF v
<1>11. Advances(w, v)
  BY <1>4, <1>9, <1>10, MovesAdvance
<1>12. World' = v
  BY <1>1, <1>11, AppliedIsNext DEF Advances, Sound
<1>13. QED BY <1>11, <1>12 DEF w
\* The session's mode changes.
LEMMA ModeWritten ==
  ASSUME NEW w \in Worlds, NEW mode \in Mode, NEW v, v = [w EXCEPT !.page.mode = mode]
  PROVE  /\ v \in Worlds /\ v.inst = w.inst /\ v.agg = w.agg /\ v.rec = w.rec /\ v.net = w.net
         /\ v.page.mode = mode /\ v.page.rrweb = w.page.rrweb /\ v.page.queue = w.page.queue
<1> DEFINE p == [w.page EXCEPT !.mode = mode]
<1>1. p \in PageType /\ p.mode = mode /\ p.queue = w.page.queue /\ p.rrweb = w.page.rrweb
  BY DEF Worlds, PageType
<1>2. v = [w EXCEPT !.page = p]
  BY DEF Worlds, PageType
<1> HIDE DEF p
<1>3. QED BY <1>1, <1>2 DEF Worlds

LEMMA TabAdvances ==
  ASSUME Sound(World), NEW mode \in Modes \cup {Unset}, OtherTabWrites(mode)
  PROVE  Advances(World, World')
<1> DEFINE w == World
           reason == w.net.reason \/ mode = "full"
           p == [w.page EXCEPT !.mode = mode]
           n == [w.net EXCEPT !.paused = FALSE, !.reason = reason]
           m == [World EXCEPT !.page.mode = mode, !.net.paused = FALSE,
                              !.net.reason = @ \/ mode = "full"]
           x == IF w.agg.mode # "off" /\ mode = "off" THEN Abort(m) ELSE m
           u == [x EXCEPT !.agg.mode = mode]
           v == IF ~w.agg.recorder \/ ~w.agg.initialized \/ w.agg.blocked THEN m ELSE u
<1>1. Apply(v) /\ Sound(w)
  BY WorldFields DEF OtherTabWrites
<1>2. m = [w EXCEPT !.page = p, !.net = n]
  BY <1>1 DEF Sound, Worlds, PageType, NetType
<1>t. mode \in Mode /\ reason \in BOOLEAN
  BY DEF Mode
<1> HIDE DEF w
<1>r. (w.net.reason => reason) /\ (mode = "full" => reason)
  OBVIOUS
<1> HIDE DEF reason
<1>3. n \in NetType /\ n.reason = reason /\ n.paused = FALSE /\ n.sent = w.net.sent
      /\ n.inflight = w.net.inflight /\ n.emitted = w.net.emitted
  BY <1>1, <1>t DEF Sound, Worlds, NetType
<1>4. p \in PageType /\ p.mode = mode /\ p.queue = w.page.queue
  BY <1>1, <1>t DEF Sound, Worlds, PageType
<1> HIDE DEF p, n, m
<1>5. m \in Worlds /\ m.inst = w.inst /\ m.agg = w.agg /\ m.rec = w.rec /\ m.page = p
      /\ m.net = n
  BY <1>1, <1>2, <1>3, <1>4 DEF Sound, Worlds
<1>6. Marked(w, m)
  <2>1. Ordered(m)
    BY <1>1, <1>5 DEF Sound, Core, Ordered
  <2>2. QED BY <1>3, <1>4, <1>5, <1>r, <2>1 DEF Marked
<1>7. Starts(w, m) /\ Core(m)
  BY <1>1, <1>6, MarkedStarts DEF Sound, Starts
<1>8. Moves(m, x) /\ x.page.mode = mode /\ SameAgg(x.agg, w.agg)
  <2>1. CASE w.agg.mode # "off" /\ mode = "off"
    <3>1. x = Abort(m)
      BY <2>1
    <3>2. Moves(m, Abort(m)) /\ Aborts(m, Abort(m))
      BY <1>5, <1>7, AbortMoves, AbortAborts
    <3>3. QED BY <1>5, <2>1, <3>1, <3>2 DEF Aborts
  <2>2. CASE ~(w.agg.mode # "off" /\ mode = "off")
    <3>1. x = m
      BY <2>2
    <3>2. QED BY <1>4, <1>5, <1>7, <3>1, MovesNowhere DEF SameAgg
  <2>3. QED BY <2>1, <2>2
<1> HIDE DEF x
<1>9. Moves(m, u) /\ u.agg.mode = u.page.mode /\ u.agg.initialized = w.agg.initialized
  <2>1. x \in Worlds /\ Core(x) /\ x.net.reason = reason
    BY <1>3, <1>5, <1>8 DEF Moves, Goes
  <2>u. u = [x EXCEPT !.agg.mode = mode]
    OBVIOUS
  <2> HIDE DEF u
  <2>2. Flips(x, u) /\ u.agg.mode = mode /\ u.agg.initialized = x.agg.initialized
    <3>1. mode \in Mode /\ x \in Worlds
      BY <1>t, <2>1
    <3>2. \A y : y = [x EXCEPT !.agg.mode = mode] =>
            Flips(x, y) /\ y.agg.mode = mode /\ y.agg.initialized = x.agg.initialized
      BY <3>1, ModeFlips, Zenon
    <3>3. QED BY <2>u, <3>2
  <2>3. Moves(x, u)
    BY <1>r, <2>1, <2>2, FlipsGo DEF Moves
  <2>4. QED BY <1>8, <2>2, <2>3, MovesOn DEF Flips, SameAgg
<1> HIDE DEF u
<1>10. CASE ~w.agg.recorder \/ ~w.agg.initialized \/ w.agg.blocked
  <2>1. v = m
    BY <1>10
  <2>2. Agreed(m)
    BY <1>1, <1>3, <1>5, <1>10 DEF Sound, Agreed
  <2>3. StaysPaused(w, m)
    BY <1>3, <1>5 DEF StaysPaused
  <2>4. Advances(w, m)
    BY <1>5, <1>7, <2>2, <2>3, MovesNowhere, MovesAdvance
  <2>5. QED BY <1>1, <1>5, <2>1, <2>4, AppliedIsNext DEF w
<1>11. CASE ~(~w.agg.recorder \/ ~w.agg.initialized \/ w.agg.blocked)
  <2>1. v = u
    BY <1>11
  <2>2. u.net.paused = FALSE
    BY <1>3, <1>5, <1>9 DEF Moves, Goes
  <2>3. Agreed(u)
    BY <1>9, <1>11, <2>2 DEF Agreed
  <2>4. StaysPaused(w, u)
    BY <2>2 DEF StaysPaused
  <2>5. Advances(w, u)
    BY <1>7, <1>9, <2>3, <2>4, MovesAdvance
  <2>6. QED BY <1>1, <2>1, <2>5, AppliedIsNext DEF w, Advances, Sound
<1>12. QED BY <1>10, <1>11

LEMMA ResetAdvances ==
  ASSUME Sound(World), ResetSession PROVE Advances(World, World')
<1> DEFINE w == World
           a == Abort(w)
           x == IF w.agg.loaded THEN a ELSE w
           v == [x EXCEPT !.page.mode = Unset]
<1>1. Apply(v) /\ Sound(w)
  BY WorldFields DEF ResetSession
<1> HIDE DEF w
<1>2. Moves(w, a) /\ Agreed(a) /\ Aborts(w, a)
  BY <1>1, AbortMoves, AbortAborts, AgreedParts DEF Sound
<1> HIDE DEF a
<1>3. Moves(w, x) /\ Agreed(x) /\ (x.page.rrweb => w.page.rrweb)
      /\ (x.agg.blocked \/ ~x.agg.entitled)
  <2>1. CASE w.agg.loaded
    <3>1. x = a
      BY <2>1
    <3>2. QED BY <1>2, <3>1 DEF Aborts
  <2>2. CASE ~w.agg.loaded
    <3>1. x = w
      BY <2>2
    <3>2. ~w.agg.entitled
      BY <1>1, <2>2 DEF Sound, Core, Ordered, Worlds, AggType
    <3>3. QED BY <1>1, <3>1, <3>2, MovesNowhere DEF Sound
  <2>3. QED BY <2>1, <2>2
<1> HIDE DEF x
<1>4. x \in Worlds /\ Core(x)
  BY <1>3 DEF Moves, Goes
<1>5. /\ v \in Worlds /\ v.inst = x.inst /\ v.agg = x.agg /\ v.rec = x.rec /\ v.net = x.net
      /\ v.page.mode = Unset /\ v.page.rrweb = x.page.rrweb /\ v.page.queue = x.page.queue
  BY <1>4, Constants, ModeWritten
<1> HIDE DEF v
<1>6. Starts(x, v)
  <2>1. Ordered(v)
    BY <1>4, <1>5 DEF Core, Ordered
  <2>2. Marked(x, v)
    BY <1>5, <2>1 DEF Marked, Unset
  <2>3. QED BY <1>4, <2>2, MarkedStarts
<1>7. Agreed(v)
  BY <1>3, <1>5 DEF Agreed
<1>8. Moves(x, v)
  <2>1. Flows(x, v)
    BY <1>5, UntouchedFlow DEF Untouched
  <2>2. QED BY <1>5, <1>6, <2>1 DEF Starts, Moves, Goes
<1>9. Moves(w, v)
  BY <1>3, <1>8, MovesOn
<1>10. Advances(w, v)
  <2>1. InLine(w) => InLine(v)
    BY <1>9, FlowsInLine DEF Moves, Goes
  <2>2. Saves(w, v) /\ StaysPaused(w, v)
    BY <1>3, <1>5, <1>9 DEF Moves, Saves, StaysPaused
  <2>3. QED BY <1>7, <1>9, <2>1, <2>2 DEF Moves, Goes, Advances, Sound
<1>11. QED BY <1>1, <1>5, <1>10, AppliedIsNext DEF w

LEMMA RemoveTyped ==
  ASSUME NEW S, NEW q \in Seq(S), NEW i \in DOMAIN q PROVE RemoveAt(q, i) \in Seq(S)
<1>1. i \in 1..Len(q) /\ Len(q) \in Nat
  OBVIOUS
<1>2. SubSeq(q, 1, i - 1) \in Seq(S)
  <2>1. i - 1 \in 0..Len(q) /\ \A k \in 1..(i - 1) : q[k] \in S
    BY <1>1
  <2>2. QED BY <1>1, <2>1
<1>3. SubSeq(q, i + 1, Len(q)) \in Seq(S)
  <2>1. \A k \in (i + 1)..Len(q) : q[k] \in S
    BY <1>1
  <2>2. QED BY <1>1, <2>1
<1> DEFINE a == SubSeq(q, 1, i - 1)
           b == SubSeq(q, i + 1, Len(q))
<1>4. RemoveAt(q, i) = a \o b
  BY DEF RemoveAt
<1> HIDE DEF a, b
<1>5. QED BY <1>2, <1>3, <1>4 DEF a, b

LEMMA AnswerAdvances ==
  ASSUME Sound(World), NEW i \in DOMAIN net.inflight, NEW outcome \in Outcomes,
         OnAnswer(i, outcome)
  PROVE  Advances(World, World')
<1> DEFINE w == World
           f == RemoveAt(w.net.inflight, i)
           n == [w.net EXCEPT !.inflight = f]
           m == [World EXCEPT !.net.inflight = RemoveAt(@, i)]
           v == Settle(m, outcome)
<1>1. Apply(v) /\ Sound(w) /\ i \in DOMAIN w.net.inflight
  BY WorldFields DEF OnAnswer
<1>2. m = [w EXCEPT !.net = n]
  BY <1>1 DEF Sound, Worlds, NetType
<1> HIDE DEF w
<1>3. f \in Seq(Buffer) /\ w.net.inflight # <<>>
  <2>1. w.net.inflight \in Seq(Buffer)
    BY <1>1 DEF Sound, Worlds, NetType
  <2>2. QED BY <1>1, <2>1, RemoveTyped
<1> HIDE DEF f
<1>4. n \in NetType /\ n.reason = w.net.reason /\ n.paused = w.net.paused
      /\ n.sent = w.net.sent /\ n.inflight = f /\ n.emitted = w.net.emitted
  BY <1>1, <1>3 DEF Sound, Worlds, NetType
<1> HIDE DEF n, m
<1>5. m \in Worlds /\ m.inst = w.inst /\ m.agg = w.agg /\ m.rec = w.rec /\ m.page = w.page
      /\ m.net = n
  BY <1>1, <1>2, <1>4 DEF Sound, Worlds
<1>6. Ordered(m) /\ Agreed(m)
  BY <1>1, <1>4, <1>5 DEF Sound, Core, Ordered, Agreed
<1>7. Starts(w, m) /\ Core(m)
  <2>1. Marked(w, m)
    BY <1>3, <1>4, <1>5, <1>6 DEF Marked
  <2>2. QED BY <1>1, <2>1, MarkedStarts DEF Sound, Starts
<1>8. w.net.sent # {} /\ w.net.reason
  <2>1. w.net.reason \in BOOLEAN
    BY <1>1 DEF Sound, Worlds, NetType
  <2>2. QED BY <1>1, <1>3, <2>1 DEF Sound, Core, Reasoned
<1>9. CASE outcome = "lost"
  <2>1. v = m
    BY <1>9 DEF Settle
  <2>2. StaysPaused(w, m)
    BY <1>5 DEF StaysPaused
  <2>3. Advances(w, m)
    BY <1>5, <1>6, <1>7, <2>2, MovesNowhere, MovesAdvance
  <2>4. QED BY <1>1, <1>5, <2>1, <2>3, AppliedIsNext DEF w
<1>10. CASE outcome = "retry"
  <2> DEFINE a == [w.agg EXCEPT !.isRetrying = TRUE]
             u == [m EXCEPT !.agg.isRetrying = TRUE]
             d == ForceStop(u, FALSE)
  <2>1. v = d
    BY <1>10 DEF Settle
  <2>2. u = [m EXCEPT !.agg = a]
    BY <1>5 DEF Worlds, AggType
  <2>3. /\ a \in AggType /\ a.isRetrying = TRUE /\ a.initialized = w.agg.initialized
        /\ a.recorder = w.agg.recorder /\ a.loaded = w.agg.loaded /\ a.mode = w.agg.mode
        /\ a.entitled = w.agg.entitled /\ a.blocked = w.agg.blocked
        /\ a.flagged = w.agg.flagged /\ a.drain = w.agg.drain
        /\ a.compressor = w.agg.compressor /\ a.waiting = w.agg.waiting
    BY <1>1 DEF Sound, Worlds, AggType
  <2> HIDE DEF a, u
  <2>4. u \in Worlds /\ u.inst = w.inst /\ u.agg = a /\ u.rec = w.rec /\ u.page = w.page
        /\ u.net = n
    BY <1>5, <2>2, <2>3 DEF Worlds
  <2>5. Starts(w, u) /\ Core(u) /\ Initialized(u)
    <3>1. Ordered(u)
      BY <1>5, <1>6, <2>3, <2>4 DEF Ordered
    <3>2. Marked(w, u)
      BY <1>3, <1>4, <2>3, <2>4, <3>1 DEF Marked
    <3>3. QED BY <1>1, <2>3, <2>4, <3>2, MarkedStarts DEF Sound, Starts, Agreed, Initialized
  <2>6. Moves(u, d) /\ Agreed(d) /\ Stopped(u, d)
    BY <2>4, <2>5, ForceStopMoves
  <2> HIDE DEF d
  <2>7. StaysPaused(w, d)
    BY <2>4, <2>6 DEF StaysPaused, Stopped
  <2>8. Advances(w, d)
    BY <2>5, <2>6, <2>7, MovesAdvance
  <2>9. QED BY <1>1, <2>1, <2>8, AppliedIsNext DEF w, Advances, Sound
<1>11. CASE outcome \notin {"lost", "retry"}
  <2> DEFINE u == [m EXCEPT !.rec.retryPayload = NoPayload]
             a == [w.agg EXCEPT !.isRetrying = FALSE]
             t == [u EXCEPT !.agg.isRetrying = FALSE]
             s == SwitchToFull(t)
  <2>1. v = IF ~m.agg.isRetrying THEN u ELSE s
    BY <1>11 DEF Settle
  <2>2. Rewrites(m, u) /\ AllNodes(u) = AllNodes(m) /\ u.rec.retryPayload = NoPayload
        /\ u.rec.backlog = m.rec.backlog /\ u.rec.events = m.rec.events
        /\ u.rec.lastMeta = m.rec.lastMeta
    <3>1. u.rec.backlog = m.rec.backlog /\ u.rec.events = m.rec.events
      BY <1>5 DEF Worlds, RecType
    <3>2. u = [m EXCEPT !.rec.retryPayload = NoPayload]
      OBVIOUS
    <3> HIDE DEF u
    <3>3. KeptForRetry(m, NoPayload, u)
      BY <1>5, <3>2, Constants, PayloadIsKept
    <3>4. QED BY <3>1, <3>3 DEF KeptForRetry
  <2> HIDE DEF u
  <2>3. u \in Worlds /\ u.inst = w.inst /\ u.agg = w.agg /\ u.page = w.page /\ u.net = n
        /\ u.rec.trigger = w.rec.trigger /\ u.rec.backlog = w.rec.backlog
        /\ u.rec.events = w.rec.events /\ u.rec.lastMeta = w.rec.lastMeta
    BY <1>5, <2>2 DEF Rewrites, SameRec
  <2>4. t = [u EXCEPT !.agg = a]
    BY <2>3 DEF Worlds, AggType
  <2>5. /\ a \in AggType /\ a.isRetrying = FALSE /\ a.initialized = w.agg.initialized
        /\ a.recorder = w.agg.recorder /\ a.loaded = w.agg.loaded /\ a.mode = w.agg.mode
        /\ a.entitled = w.agg.entitled /\ a.blocked = w.agg.blocked
        /\ a.flagged = w.agg.flagged /\ a.drain = w.agg.drain
        /\ a.compressor = w.agg.compressor /\ a.waiting = w.agg.waiting
    BY <1>1 DEF Sound, Worlds, AggType
  <2> HIDE DEF a, t
  <2>6. t \in Worlds /\ t.inst = w.inst /\ t.agg = a /\ t.rec = u.rec /\ t.page = w.page
        /\ t.net = n
    BY <2>3, <2>4, <2>5 DEF Worlds
  <2>7. Agreed(u) /\ Agreed(t) /\ Ordered(u) /\ Ordered(t)
    BY <1>5, <1>6, <2>3, <2>5, <2>6 DEF Agreed, Ordered
  <2>8. Starts(w, u) /\ Starts(w, t) /\ Core(u) /\ Core(t)
    <3>1. Marked(w, u) /\ Marked(w, t)
      BY <1>3, <1>4, <2>2, <2>3, <2>5, <2>6, <2>7 DEF Marked
    <3>2. QED BY <1>1, <3>1, MarkedStarts DEF Sound, Starts
  <2>9. Moves(t, s) /\ Agreed(s)
    BY <1>4, <1>8, <2>6, <2>7, <2>8, SwitchMoves
  <2> HIDE DEF s
  <2>10. CASE ~m.agg.isRetrying
    <3>1. v = u
      BY <2>1, <2>10
    <3>2. StaysPaused(w, u)
      BY <2>3 DEF StaysPaused
    <3>3. Advances(w, u)
      BY <2>3, <2>7, <2>8, <3>2, MovesNowhere, MovesAdvance
    <3>4. QED BY <1>1, <2>3, <3>1, <3>3, AppliedIsNext DEF w
  <2>11. CASE m.agg.isRetrying
    <3>1. v = s
      BY <2>1, <2>11
    <3>2. StaysPaused(w, s)
      BY <1>5, <2>11 DEF StaysPaused, Rests
    <3>3. Advances(w, s)
      BY <2>8, <2>9, <3>2, MovesAdvance
    <3>4. QED BY <1>1, <3>1, <3>3, AppliedIsNext DEF w, Advances, Sound
  <2>12. QED BY <2>10, <2>11
<1>12. QED BY <1>9, <1>10, <1>11
-----------------------------------------------------------------------------
(***************************************************************************)
(* The invariant and the theorems                                          *)
(***************************************************************************)
LEMMA InitSound == ASSUME Init PROVE Sound(World) /\ InLine(World)
<1>1. PICK storedMode \in StoredModes, expired \in BOOLEAN, preloads \in BOOLEAN :
        /\ inst = [recorder |-> IF preloads THEN "loading" ELSE "none",
                   waiting |-> IF preloads THEN <<PreloadCall(storedMode)>> ELSE <<>>,
                   errorNoticed |-> FALSE]
        /\ page = [isRecording |-> FALSE, rrweb |-> FALSE, visible |-> TRUE,
                   mode |-> IF expired THEN Unset ELSE storedMode, queue |-> <<>>]
        /\ net = [emitted |-> 0, inflight |-> <<>>, sent |-> {},
                  reason |-> ~expired /\ storedMode = "full", paused |-> FALSE]
  BY DEF Init
<1>2. /\ agg = [loaded |-> FALSE, refused |-> FALSE, recorder |-> FALSE, mode |-> Unset,
                initialized |-> FALSE, blocked |-> FALSE, entitled |-> FALSE,
                flagged |-> FALSE, staged |-> FALSE, drain |-> "none",
                isRetrying |-> FALSE, compressor |-> "none", waiting |-> <<>>]
      /\ rec = [canRecord |-> TRUE, isErrorMode |-> FALSE, trigger |-> "none",
                backlog |-> EmptyBuffer, events |-> EmptyBuffer, lastMeta |-> NoNode,
                seenMeta |-> FALSE, seenSnap |-> FALSE, retryPayload |-> NoPayload]
  BY DEF Init
<1> DEFINE call == PreloadCall(storedMode)
<1>3. storedMode \in Mode
  BY FlagAssumption DEF Mode
<1>4. call \in PreloadWaiter /\ call.for = "preload"
  BY <1>3 DEF PreloadCall, PreloadWaiter
<1> DEFINE waiting == IF preloads THEN <<call>> ELSE <<>>
           reason == ~expired /\ storedMode = "full"
           W == WaitersFor(World)
<1>5. call \in Waiter /\ call \in W
  <2> HIDE DEF call
  <2>1. QED BY <1>4 DEF Waiter, WaitersFor
<1>w. inst.waiting = waiting
  BY <1>1
<1> HIDE DEF call
<1>6. waiting \in Seq(Waiter) /\ waiting \in Seq(W)
  <2> HIDE DEF W
  <2>1. <<call>> \in Seq(Waiter) /\ <<call>> \in Seq(W) /\ <<>> \in Seq(Waiter) /\ <<>> \in Seq(W)
    BY <1>5
  <2>2. QED BY <2>1
<1>7. inst \in InstType
  BY <1>1, <1>6, <1>w DEF InstType, call
<1>e. <<>> \in Seq(Call) /\ <<>> \in Seq(Item) /\ <<>> \in Seq(Buffer)
  OBVIOUS
<1>8. agg \in AggType
  BY <1>2, <1>e, Constants DEF AggType
<1>9. rec \in RecType
  BY <1>2, Constants DEF RecType, Triggers
<1>10. page \in PageType
  BY <1>1, <1>3, <1>e, Constants DEF PageType
<1>11. net \in NetType
  <2>1. 0 \in 0..MaxNodes
    BY BoundAssumption
  <2>2. QED BY <1>1, <1>e, <2>1 DEF NetType
<1>12. World \in Worlds
  BY <1>7, <1>8, <1>9, <1>10, <1>11 DEF World, Worlds
<1>13. AllNodes(World) = <<>>
  <2>1. World.rec.backlog.nodes = <<>> /\ World.rec.events.nodes = <<>>
    BY <1>2, WorldFields DEF EmptyBuffer
  <2>2. QED BY <2>1 DEF AllNodes
<1>14. Reasoned(World) /\ Filled(World)
  <2>1. /\ net.sent = {} /\ net.inflight = <<>> /\ net.reason = (~expired /\ storedMode = "full")
        /\ page.mode = IF expired THEN Unset ELSE storedMode
        /\ agg.mode = Unset /\ ~agg.isRetrying /\ agg.compressor = "none"
        /\ ~inst.errorNoticed /\ rec.trigger = "none" /\ rec.retryPayload = NoPayload
    BY <1>1, <1>2
  <2>2. ~net.reason => page.mode # "full"
    BY <2>1 DEF Unset
  <2>3. Reasoned(World)
    BY <2>1, <2>2, WorldFields DEF Reasoned, Unset
  <2>4. Filled(World)
    BY <1>13, <2>1, WorldFields DEF Filled
  <2>5. QED BY <2>3, <2>4
<1>15. Ordered(World)
  BY <1>1, <1>2, WorldFields DEF Ordered
<1>16. Waits(World)
  <2> DEFINE C == CallsFor(World)
             I == ItemsFor(World)
  <2>1. <<>> \in Seq(C) /\ <<>> \in Seq(I)
    OBVIOUS
  <2>2. World.inst.waiting = waiting /\ World.agg.waiting = <<>> /\ World.page.queue = <<>>
    BY <1>1, <1>2, <1>w, WorldFields
  <2> HIDE DEF waiting
  <2>3. QED BY <1>6, <2>1, <2>2 DEF Waits
<1>17. Agreed(World)
  BY <1>1, <1>2, WorldFields DEF Agreed
<1>18. InLine(World)
  <2>1. /\ World.net.sent = {} /\ World.rec.retryPayload = NoPayload
        /\ World.rec.lastMeta = NoNode /\ World.rec.backlog.nodes = <<>>
        /\ World.page.queue = <<>>
    BY <1>1, <1>2, WorldFields DEF EmptyBuffer
  <2>2. Lined(World)
    BY <1>13, <2>1 DEF Lined, Ascends, WellLed
  <2>3. Played(World) /\ Rested(World)
    BY <1>13, <2>1, <2>2 DEF Played, Rested
  <2>4. Pending(World, <<>>) /\ Steady(<<>>)
    BY <2>3 DEF Pending, Queued, Below, Steady
  <2>5. QED BY <1>12, <2>1, <2>3, <2>4, InLineParts
<1>19. QED BY <1>12, <1>14, <1>15, <1>16, <1>17, <1>18 DEF Sound, Core

LEMMA NextAdvances ==
  ASSUME Sound(World), InLine(World), [Next]_vars PROVE Advances(World, World')
<1>1. CASE RecorderArrives
  BY <1>1, ArrivesAdvances
<1>2. CASE RecorderFails
  BY <1>2, FailsAdvances
<1>3. CASE CompressorSettles
  BY <1>3, CompressorAdvances
<1>4. CASE LoadAggregate
  BY <1>4, LoadAdvances
<1>5. CASE SessionFails
  BY <1>5, SessionFailsAdvances
<1>6. CASE \E srMode \in Sampled, entitled \in Entitlements : OnFlags(srMode, entitled)
  BY <1>6, FlagsAdvances
<1>7. CASE Drain
  BY <1>7, DrainAdvances
<1>8. CASE RecordReplay
  BY <1>8, RecordAdvances
<1>9. CASE PauseReplay
  BY <1>9, PauseAdvances
<1>10. CASE NoticeError
  BY <1>10, ErrorAdvances
<1>11. CASE Mutate
  BY <1>11, MutateAdvances
<1>12. CASE Checkout
  BY <1>12, CheckoutAdvances
<1>13. CASE OnHarvestInterval
  BY <1>13, IntervalAdvances
<1>14. CASE Hide
  BY <1>14, HideAdvances
<1>15. CASE Show
  BY <1>15, ShowAdvances
<1>16. CASE ResetSession
  BY <1>16, ResetAdvances
<1>17. CASE \E mode \in Modes \cup {Unset} : OtherTabWrites(mode)
  BY <1>17, TabAdvances
<1>18. CASE \E i \in DOMAIN net.inflight, outcome \in Outcomes : OnAnswer(i, outcome)
  BY <1>18, AnswerAdvances
<1>19. CASE UNCHANGED vars
  <2>1. World' = World
    BY <1>19 DEF vars, World
  <2>2. Advances(World, World)
    BY RecordsNothing, RecordsAdvance DEF Sound
  <2>3. QED BY <2>1, <2>2
<1>20. QED BY <1>1, <1>2, <1>3, <1>4, <1>5, <1>6, <1>7, <1>8, <1>9, <1>10, <1>11, <1>12,
              <1>13, <1>14, <1>15, <1>16, <1>17, <1>18, <1>19 DEF Next

\* Every reachable world is sound.
IInv == Sound(World) /\ InLine(World)

\* The invariant is inductive: every action turns a sound world into a sound world, so
\* buffers, waiting calls, modes and reasons agree in every reachable state.
THEOREM Invariance == Spec => []IInv
<1>1. Init => IInv
  BY InitSound DEF IInv
<1>2. IInv /\ [Next]_vars => IInv'
  <2>1. ASSUME Sound(World), InLine(World), [Next]_vars PROVE Sound(World') /\ InLine(World')
    BY <2>1, NextAdvances DEF Advances
  <2>2. QED BY <2>1 DEF IInv
<1>3. QED BY <1>1, <1>2, PTL DEF Spec

LEMMA SoundTypes == ASSUME Sound(World) PROVE TypeOK
<1>1. World \in Worlds /\ Core(World)
  BY DEF Sound
<1>2. inst \in InstType /\ agg \in AggType /\ rec \in RecType /\ page \in PageType
      /\ net \in NetType
  BY <1>1, WorldFields DEF Worlds
<1>3. /\ inst.recorder \in {"none", "loading", "ready", "failed"}
      /\ agg.mode \in Mode /\ page.mode \in Mode
      /\ rec.lastMeta \in Node \cup {NoNode} /\ net.emitted \in 0..MaxNodes
  BY <1>2 DEF InstType, AggType, PageType, RecType, NetType
<1>4. /\ inst.waiting # <<>> => inst.recorder = "loading"
      /\ agg.recorder => inst.recorder = "ready"
      /\ agg.waiting # <<>> => agg.compressor = "loading" /\ agg.recorder
  BY <1>1, WorldFields DEF Core, Ordered
<1>5. \A s \in Seq(Node) : IsNodes(s)
  BY DEF IsNodes
<1>6. rec.backlog.nodes \in Seq(Node) /\ rec.events.nodes \in Seq(Node)
  BY <1>2 DEF RecType, Buffer
<1>7. \A p \in net.sent : p.nodes # <<>> /\ p.nodes \in Seq(Node)
  BY <1>1, <1>2, WorldFields DEF Core, Filled, NetType, Buffer
<1>8. QED BY <1>3, <1>4, <1>5, <1>6, <1>7 DEF TypeOK, Mode

\* The types of the instrument, the aggregate, the recorder and the session: every
\* buffered or sent node is one that rrweb emitted, no payload is empty.
THEOREM Types == Spec => []TypeOK
<1>1. IInv => TypeOK
  BY SoundTypes DEF IInv
<1>2. QED BY <1>1, Invariance, PTL

\* However imports, flags, API calls, errors, answers and other tabs interleave, no
\* payload leaves before the account is entitled and something called for a report.
THEOREM ReportsHaveReasons == Spec => []ReportedWithReason
<1>1. IInv => ReportedWithReason
  <2>1. ASSUME Sound(World) PROVE ReportedWithReason
    <3>1. net.reason \in BOOLEAN /\ agg.entitled \in BOOLEAN
      BY <2>1, WorldFields DEF Sound, Worlds, NetType, AggType
    <3>2. Reasoned(World)
      BY <2>1 DEF Sound, Core
    <3>3. QED BY <3>1, <3>2, WorldFields DEF Reasoned, ReportedWithReason
  <2>2. QED BY <2>1 DEF IInv
<1>2. QED BY <1>1, Invariance, PTL

\* The mode of an active replay and the one its session keeps are the same.
THEOREM ModesAlwaysAgree == Spec => []ModesAgree
<1>1. IInv => ModesAgree
  BY WorldFields DEF IInv, Sound, Agreed, ModesAgree, Settled
<1>2. QED BY <1>1, Invariance, PTL

\* A payload that was sent can be replayed.
LEMMA SoundPlays == ASSUME InLine(World) PROVE Playable
<1>1. \A p \in net.sent : Plays(net.sent, p.nodes)
  BY WorldFields DEF InLine, Line, Pending, Played
<1>2. QED BY <1>1 DEF Playable, Plays, Ascends, Met

\* Each payload that leaves has its nodes in the order rrweb emitted them and a meta node
\* before each snapshot, its own or the one of the payload it repeats: through splits at
\* a meta node, retries, the two windows of the error mode and the drain of the queue.
THEOREM PayloadsPlay == Spec => []Playable
<1>1. IInv => Playable
  BY SoundPlays DEF IInv
<1>2. QED BY <1>1, Invariance, PTL

LEMMA NodesNext == AllNodes(World)' = AllNodes(World')
BY DEF AllNodes, World

\* After an abort nothing is stored or sent, whatever the rest of the page does.
THEOREM AbortsStand == Spec => AbortStands
<1>1. ASSUME Sound(World), Advances(World, World'), agg.blocked
      PROVE  agg.blocked' /\ net.sent' = net.sent
             /\ Len(AllNodes(World)') <= Len(AllNodes(World))
  <2>1. /\ World'.agg.blocked /\ World'.net.sent = World.net.sent
        /\ AllNodes(World') = AllNodes(World) \/ AllNodes(World') = <<>>
    BY <1>1, WorldFields DEF Advances, Quiet
  <2>2. World'.agg = agg' /\ World'.net = net'
    BY DEF World
  <2>3. AllNodes(World) \in Seq(Node)
    BY <1>1, NodesTyped DEF Sound
  <2>4. Len(AllNodes(World)) \in Nat /\ Len(<<>>) = 0
    BY <2>3
  <2>5. Len(AllNodes(World)') <= Len(AllNodes(World))
    BY <2>1, <2>4, NodesNext
  <2>6. QED BY <2>1, <2>2, <2>5, WorldFields
<1>2. IInv /\ [Next]_vars =>
        (agg.blocked => /\ agg.blocked' /\ net.sent' = net.sent
                        /\ Len(AllNodes(World)') <= Len(AllNodes(World)))
  BY <1>1, NextAdvances DEF IInv
<1>3. QED BY <1>2, Invariance, PTL DEF Spec, AbortStands

\* A paused replay is not restarted behind the user's back.
THEOREM PausesStand == Spec => PauseStands
<1>1. IInv /\ [Next]_vars =>
        (net.paused /\ net.paused' /\ agg.mode = "off" /\ ~agg.isRetrying /\ Settled => ~Restarts)
  <2>1. ASSUME Sound(World), InLine(World), [Next]_vars, net.paused, net.paused', agg.mode = "off",
               ~agg.isRetrying, Settled
        PROVE  ~Restarts
    <3>1. StaysPaused(World, World')
      BY <2>1, NextAdvances DEF Advances
    <3>2. World'.net = net' /\ World'.page = page'
      BY DEF World
    <3>3. QED BY <2>1, <3>1, <3>2, WorldFields DEF StaysPaused, Rests, Settled, Restarts
  <2>2. QED BY <2>1 DEF IInv
<1>2. QED BY <1>1, Invariance, PTL DEF Spec, PauseStands

LEMMA KeptByKeeping ==
  ASSUME Sound(World), Sound(World)', Keeps(World, World'), ~agg.blocked' PROVE Kept
<1>1. SUFFICES ASSUME NEW n \in Changes(AllNodes(World))
               PROVE  n \in Numbers(AllNodes(World))' \cup SentNumbers'
  BY DEF Kept
<1>2. AllNodes(World) \in Seq(Node)
  BY NodesTyped DEF Sound
<1>3. PICK j \in DOMAIN AllNodes(World) :
        AllNodes(World)[j].n = n /\ AllNodes(World)[j].kind # "meta"
  BY DEF Changes
<1> DEFINE x == AllNodes(World)[j]
<1>4. x \in Node /\ x.kind # "meta" /\ Carried(World, x) /\ x.n = n
  BY <1>2, <1>3 DEF Carried, InNodes
<1> HIDE DEF x
<1>5. World'.agg = agg' /\ World'.net = net'
  BY DEF World
<1>6. Carried(World', x)
  BY <1>4, <1>5 DEF Keeps
<1>7. CASE InNodes(AllNodes(World'), x)
  <2>1. \E i \in DOMAIN AllNodes(World') : AllNodes(World')[i].n = n
    BY <1>4, <1>7 DEF InNodes
  <2>2. Numbers(AllNodes(World))' = Numbers(AllNodes(World'))
    BY NodesNext DEF Numbers
  <2>3. n \in Numbers(AllNodes(World'))
    BY <2>1 DEF Numbers
  <2>4. QED BY <2>2, <2>3
<1>8. CASE \E p \in net'.sent : InNodes(p.nodes, x)
  <2>1. PICK p \in net'.sent : InNodes(p.nodes, x)
    BY <1>8
  <2>2. n \in Numbers(p.nodes)
    BY <1>4, <2>1 DEF InNodes, Numbers
  <2>3. SentNumbers' = UNION {Numbers(q.nodes) : q \in net'.sent}
    BY DEF SentNumbers, Numbers
  <2>4. n \in SentNumbers'
    BY <2>1, <2>2, <2>3
  <2>5. QED BY <2>4
<1>9. QED BY <1>5, <1>6, <1>7, <1>8 DEF Carried

\* Outside error mode a recorded node leaves the buffers only with a payload, through
\* splits, retries, answers, pauses, visibility changes and the drain.
THEOREM NodesAreKept == Spec => KeptUntilSent
<1>1. IInv /\ [Next]_vars =>
        (~(rec.isErrorMode /\ rec.isErrorMode') /\ agg.flagged /\ ~agg.blocked' => Kept)
  <2>1. ASSUME Sound(World), InLine(World), [Next]_vars,
               ~(rec.isErrorMode /\ rec.isErrorMode'), agg.flagged, ~agg.blocked'
        PROVE  Kept
    <3>1. Saves(World, World') /\ Sound(World')
      BY <2>1, NextAdvances DEF Advances
    <3>2. World'.rec = rec'
      BY DEF World
    <3>3. AllNodes(World) = <<>> \/ Keeps(World, World')
      BY <2>1, <3>1, <3>2, WorldFields DEF Saves
    <3>4. CASE AllNodes(World) = <<>>
      BY <3>4 DEF Kept, Changes, Numbers
    <3>5. CASE Keeps(World, World')
      BY <2>1, <3>1, <3>5, KeptByKeeping
    <3>6. QED BY <3>3, <3>4, <3>5
  <2>2. QED BY <2>1 DEF IInv
<1>2. QED BY <1>1, Invariance, PTL DEF Spec, KeptUntilSent
=============================================================================
