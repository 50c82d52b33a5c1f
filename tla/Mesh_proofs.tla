---------------------------- MODULE Mesh_proofs ----------------------------
(***************************************************************************)
(* The repeater keeps its types and its safety invariants, for every       *)
(* configuration, every set of nodes and payloads, and every interleaving  *)
(* of the loop's handlers: Good says so of the state of mesh.c, one lemma  *)
(* per function of mesh.c shows that the function preserves it, and one    *)
(* step per handler that the handler does. What it promises of its past    *)
(* holds too: a packet is not queued twice for relaying while the dedup    *)
(* ring remembers it, nothing of the hub is offered back to it, the hub    *)
(* cannot fill the queue, a hotspot transmits only while attended, and no  *)
(* station is answered twice within its cooldown.                          *)
(***************************************************************************)
EXTENDS Mesh, DedupRing_proofs, Order_proofs, SequenceTheorems, FiniteSetTheorems
----------------------------------------------------------------------------
(* What the operators on frames and the decisions about them (Policy)      *)
(* return, for every set of nodes, names and payloads.                     *)

(* A count taken modulo another is no larger (6 bits of path_len).         *)
LEMMA ModNoLarger ==
  ASSUME NEW n \in Nat, NEW k \in Nat \ {0}
  PROVE  n % k \in 0..n
<1>1. CASE n < k
  <2>1. n % k = n
    BY <1>1
  <2>2. QED
    BY <2>1
<1>2. CASE k <= n
  BY <1>2
<1>3. QED
  BY <1>1, <1>2

(* A path whose count wraps is still a path (pkt_set_path_hash_count).     *)
LEMMA WithCountIsPath ==
  ASSUME NEW p \in Seq(Node)
  PROVE  WithCount(p, Len(p)) \in Seq(Node)
<1> DEFINE n == Len(p) % PathCountMod
<1>1. Len(p) \in Nat /\ n \in 0..Len(p)
  <2>1. Len(p) \in Nat
    OBVIOUS
  <2>2. PathCountMod \in Nat \ {0}
    BY PacketAssumption
  <2>3. QED
    BY <2>1, <2>2, ModNoLarger
<1>2. \A i \in 1..n : p[i] \in Node
  <2> HIDE DEF n
  <2>1. QED
    BY <1>1, ElementOfSeq
<1>3. QED
  <2>1. SubSeq(p, 1, n) \in Seq(Node)
    <3> HIDE DEF n
    <3>1. QED
      BY <1>1, <1>2, SubSeqProperties
  <2>2. QED
    BY <2>1 DEF WithCount

LEMMA SelfIsNode == Self \in Node
BY PacketAssumption DEF Self

(* Relaying a frame changes its path and nothing else of it.               *)
LEMMA RelayedIsFrame ==
  ASSUME NEW f \in Frame
  PROVE  /\ Appended(f) \in Frame
         /\ Appended(f).msg = f.msg /\ Appended(f).route = f.route
         /\ f.path # <<>> => /\ Stripped(f) \in Frame
                             /\ Stripped(f).msg = f.msg /\ Stripped(f).route = f.route
<1>1. f.path \in Seq(Node)
  BY DEF Frame
<1>2. Append(f.path, Self) \in Seq(Node) /\ Len(Append(f.path, Self)) = Len(f.path) + 1
  BY <1>1, SelfIsNode
<1>3. WithCount(Append(f.path, Self), Len(f.path) + 1) \in Seq(Node)
  BY <1>2, WithCountIsPath
<1>4. ASSUME f.path # <<>>
      PROVE  WithCount(Tail(f.path), Len(f.path) - 1) \in Seq(Node)
  <2>1. Tail(f.path) \in Seq(Node) /\ Len(Tail(f.path)) = Len(f.path) - 1
    BY <1>1, <1>4
  <2>2. QED
    BY <2>1, WithCountIsPath
<1>5. QED
  BY <1>3, <1>4 DEF Appended, Stripped, Frame

(* Every frame has a hash.                                                 *)
LEMMA HashOfIsHash ==
  ASSUME NEW f \in Frame
  PROVE  HashOf(f) \in Hash
<1>1. f.msg.id \in Id /\ f.hs \in Nat /\ Len(f.path) \in Nat
  BY DEF Frame, Message
<1>2. <<f.hs, Len(f.path)>> \in Seq(Nat)
  BY <1>1
<1>3. <<>> \in Seq(Nat)
  OBVIOUS
<1>4. QED
  BY <1>1, <1>2, <1>3 DEF HashOf, Hash

LEMMA ReversedIsPath ==
  ASSUME NEW p \in Seq(Node)
  PROVE  Reversed(p) \in Seq(Node)
<1>1. Len(p) \in Nat
  OBVIOUS
<1>2. \A i \in 1..Len(p) : p[Len(p) - i + 1] \in Node
  <2> TAKE i \in 1..Len(p)
  <2>1. Len(p) - i + 1 \in 1..Len(p)
    BY <1>1
  <2>2. QED
    BY <2>1, ElementOfSeq
<1>3. QED
  BY <1>1, <1>2, IsASeq DEF Reversed

(* What the node itself says is a frame, with a payload of its own.        *)
LEMMA OwnFrameIsFrame ==
  ASSUME NEW kind \in OwnKind, NEW who \in Name, NEW chan \in Channel \cup {"unknown"},
         NEW t \in Nat, NEW route \in {"flood", "direct"}, NEW path \in Seq(Node), NEW hs \in 1..3
  PROVE  /\ OwnFrame(kind, who, chan, t, route, path, hs) \in Frame
         /\ OwnFrame(kind, who, chan, t, route, path, hs).msg.id \in OwnId
<1>1. <<kind, who, t>> \in OwnId
  BY DEF OwnId
<1>2. OwnMessage(kind, who, chan, t) \in Message
  BY <1>1, PacketAssumption DEF OwnMessage, Message, Id, PayloadType, Body
<1>3. QED
  BY <1>1, <1>2 DEF OwnFrame, OwnMessage, Frame
----------------------------------------------------------------------------
(* What classify_forward lets pass is public, once forged adverts are gone.*)
PublicContent(f) ==
  \/ f.msg.type = "advert" /\ f.msg.sig
  \/ f.msg.type \in Group /\ f.msg.chan \in Channel
  \/ f.msg.type \in Group /\ f.msg.region /\ f.route = "tflood"

LEMMA PassedIsPublic ==
  ASSUME NEW f \in Frame, ~AdvertRefused(f), Classify(f) # "drop", f.msg.type # "trace"
  PROVE  PublicContent(f)
BY DEF PublicContent, AdvertRefused, Classify, Frame, Message

(* A frame relayed at uplink power was heard from one of the operator's    *)
(* own devices (hotspot_decide).                                           *)
LEMMA HighPowerIsUplink ==
  ASSUME NEW f \in Frame, NEW src \in Source, NEW learned,
         Role = "hotspot" => InScope(f, src, learned),
         RelayPower(f, src, learned) = "high"
  PROVE  src # "hub" /\ f.msg.sender \in Home
<1>1. Role = "hotspot" /\ src # "hub" /\ ~Downlink(f, learned)
  BY PolicyAssumption DEF RelayPower
<1>2. Uplink(f)
  BY <1>1 DEF InScope
<1>3. QED
  BY <1>1, <1>2, PolicyAssumption DEF Uplink, GroupSender

LEMMA PowerIsPower ==
  ASSUME NEW f, NEW src, NEW learned
  PROVE  RelayPower(f, src, learned) \in {"low", "normal", "high"}
BY DEF RelayPower
----------------------------------------------------------------------------
(* What the repeater keeps.                                                *)

\* An entry of the queue is fit to be sent: our own messages bear our ids, the
\* content is public, and only uplink traffic has the power of the uplink.
Sendable(f, src, power) ==
  /\ src = "own" => f.msg.id \in OwnId
  /\ PublicContent(f)
  /\ power = "high" => (src = "own" \/ (src = "rf" /\ f.msg.sender \in Home))

QueueOK(s) ==
  \A i \in Slot :
    s.txq[i] # NoEntry => Sendable(s.txq[i].frame, s.txq[i].src, s.txq[i].power)

\* A silent hotspot is still silent, with an empty queue.
SilentOK(s) ==
  s.silent => RfSilent(s, clock) /\ \A i \in Slot : s.txq[i] = NoEntry

\* Whatever the hub was told otherwise, a STATUS is on its way.
Informed(s) ==
  /\ s.silent /\ ~told => s.soon
  /\ told /\ ~RfSilent(s, clock) => s.soon

\* What every function of mesh.c preserves.
Core(s) ==
  /\ s \in MeshType
  /\ RingOK(s.ring)
  /\ QueueOK(s)
  /\ SilentOK(s)

\* The inductive invariant of the state of mesh.c.
Good(s) == Core(s) /\ Informed(s)

\* The rest of the state.
LoopType ==
  /\ clock \in Nat /\ now \in 0..clock
  /\ pc \in {"rx", "link", "tx", "timers", "cli", "hub"}
  /\ radio \in {"rx", "standby"}
  /\ told \in BOOLEAN
  /\ ghost \in GhostType
  /\ used \in [{"rx", "busy", "fail", "cli"} -> Nat]

\* The inductive invariant of the repeater.
IInv == Good(m) /\ LoopType
----------------------------------------------------------------------------
(* The functions of mesh.c.                                                *)

SameFlags(s, t) == t.until = s.until /\ t.silent = s.silent /\ t.soon = s.soon

\* All but the wake-up and the flush leave the flags of a hotspot alone.
Keeps(s, t) == Core(t) /\ SameFlags(s, t)

LEMMA KeepsGood ==
  ASSUME NEW s, NEW t, Good(s), Keeps(s, t)
  PROVE  Good(t)
BY DEF Good, Keeps, SameFlags, Informed, RfSilent

LEMMA KeepsTwice ==
  ASSUME NEW s, NEW t, NEW u, Keeps(s, t), Keeps(t, u)
  PROVE  Keeps(s, u)
BY DEF Keeps, SameFlags

\* A function that neither queues nor records leaves the ring and the queue alone.
SameCore(s, t) == t.ring = s.ring /\ t.txq = s.txq /\ SameFlags(s, t)

LEMMA SameCoreKeeps ==
  ASSUME NEW s, NEW t \in MeshType, Core(s), SameCore(s, t)
  PROVE  Keeps(s, t)
BY DEF Keeps, Core, SameCore, SameFlags, QueueOK, SilentOK, RfSilent

(* seen_check_and_add.                                                     *)
LEMMA RecordedKeeps ==
  ASSUME NEW s, Core(s), NEW f \in Frame, NEW src \in Source
  PROVE  Keeps(s, Recorded(s, f, src))
<1> DEFINE r == SeenAdd(s.ring, HashOf(f), src)
           t == [s EXCEPT !.ring = r]
<1>1. s \in MeshType /\ s.ring \in RingType(Hash, Source) /\ RingOK(s.ring)
  BY DEF Core, MeshType
<1>2. r \in RingType(Hash, Source) /\ RingOK(r)
  BY <1>1, HashOfIsHash, SeenAddOK, EmptyAssumption
<1>3. Recorded(s, f, src) = t
  BY DEF Recorded
<1> HIDE DEF r
<1>4. t \in MeshType /\ t.ring = r
  BY <1>1, <1>2 DEF MeshType
<1>5. t.txq = s.txq /\ SameFlags(s, t)
  BY <1>1 DEF MeshType, SameFlags
<1>6. Core(t)
  BY <1>2, <1>4, <1>5 DEF Core, QueueOK, SilentOK, SameFlags, RfSilent
<1>7. QED
  BY <1>3, <1>5, <1>6 DEF Keeps

(* A hash has a latest record, or none.                                    *)
LEMMA LatestRecordIsNat ==
  ASSUME NEW s, s.ring \in RingType(Hash, Source), NEW h
  PROVE  LatestRecord(s, h) \in Nat
<1> DEFINE at == {i \in 1..Len(s.ring.log) : s.ring.log[i].hash = h}
<1>1. Len(s.ring.log) \in Nat
  BY DEF RingType
<1>2. CASE at = {}
  BY <1>2 DEF LatestRecord
<1>3. CASE at # {}
  <2>1. \E i \in at : \A j \in at : j <= i
    BY <1>1, <1>3, HasGreatest
  <2>2. LatestRecord(s, h) \in at
    BY <1>3, <2>1 DEF LatestRecord
  <2>3. QED
    BY <1>1, <2>2
<1>4. QED
  BY <1>2, <1>3

(* enqueue: what is sendable may be queued.                                *)
LEMMA PutKeeps ==
  ASSUME NEW s, Core(s), clock \in Nat,
         NEW f \in Frame, NEW src \in Source, NEW prio \in Nat, NEW delay \in Nat, NEW power \in Power,
         Sendable(f, src, power)
  PROVE  Keeps(s, Put(s, f, src, prio, delay, power))
<1> DEFINE e == [frame |-> f, src |-> src, prio |-> prio, due |-> clock + delay, power |-> power]
           i == MinOf(Free(s))
           q == [s.txq EXCEPT ![i] = e]
           g == [hash |-> HashOf(f), at |-> LatestRecord(s, HashOf(f)), src |-> src,
                 offered |-> Offered(f, src)]
           h == Append(s.hist, g)
           t == [s EXCEPT !.txq = q, !.hist = h]
<1>1. CASE RfSilent(s, clock) \/ Free(s) = {}
  BY <1>1 DEF Put, Keeps, SameFlags
<1>2. CASE ~(RfSilent(s, clock) \/ Free(s) = {})
  <2>1. Put(s, f, src, prio, delay, power) = t
    BY <1>2 DEF Put
  <2>2. s \in MeshType /\ s.ring \in RingType(Hash, Source)
    BY DEF Core, MeshType
  <2>3. e \in Entry
    BY DEF Entry
  <2>4. q \in Queue
    BY <2>2, <2>3 DEF MeshType, Queue
  <2>5. g \in Queued
    BY <2>2, HashOfIsHash, LatestRecordIsNat DEF Queued, Offered
  <2>6. h \in Seq(Queued)
    BY <2>2, <2>5 DEF MeshType
  <2>7. t \in MeshType /\ t.txq = q
    <3> HIDE DEF q, h
    <3>1. QED
      BY <2>2, <2>4, <2>6 DEF MeshType
  <2>8. t.ring = s.ring /\ SameFlags(s, t)
    BY <2>2 DEF MeshType, SameFlags
  <2>9. ~s.silent
    BY <1>2 DEF Core, SilentOK
  <2>10. QueueOK(t)
    <3> SUFFICES ASSUME NEW j \in Slot, q[j] # NoEntry
                 PROVE  Sendable(q[j].frame, q[j].src, q[j].power)
      BY <2>7 DEF QueueOK
    <3>1. s.txq \in [Slot -> Entry \cup {NoEntry}]
      BY <2>2 DEF MeshType, Queue
    <3>2. CASE q[j] = e
      BY <3>2
    <3>3. CASE q[j] = s.txq[j]
      BY <3>3 DEF Core, QueueOK
    <3>4. QED
      BY <3>1, <3>2, <3>3
  <2>11. Core(t)
    <3> HIDE DEF t
    <3>1. QED
      BY <2>7, <2>8, <2>9, <2>10 DEF Core, SilentOK, SameFlags
  <2>12. QED
    BY <2>1, <2>8, <2>11 DEF Keeps
<1>3. QED
  BY <1>1, <1>2

(* Our own messages are sendable at our own power.                         *)
LEMMA OwnSendable ==
  ASSUME NEW kind \in OwnKind, NEW who \in Name, NEW chan \in Channel \cup {"unknown"},
         kind # "advert" => chan \in Channel,
         NEW t \in Nat, NEW route \in {"flood", "direct"}, NEW path \in Seq(Node), NEW hs \in 1..3
  PROVE  Sendable(OwnFrame(kind, who, chan, t, route, path, hs), "own", OwnPower)
<1> DEFINE f == OwnFrame(kind, who, chan, t, route, path, hs)
<1>1. f.msg.id \in OwnId
  BY OwnFrameIsFrame
<1>2. /\ f.msg.type = IF kind = "advert" THEN "advert" ELSE "grp_txt"
      /\ f.msg.sig /\ f.msg.chan = chan
  BY DEF OwnFrame, OwnMessage
<1>3. PublicContent(f)
  BY <1>2 DEF PublicContent, Group
<1> HIDE DEF f
<1>4. Sendable(f, "own", OwnPower)
  BY <1>1, <1>3 DEF Sendable
<1>5. QED
  BY <1>4 DEF f

LEMMA OwnPowerIsPower == OwnPower \in Power
BY DEF OwnPower, Power

LEMMA NothingIsNamed == "" \in Name /\ <<>> \in Seq(Node)
<1>1. "" \in Name
  BY PacketAssumption
<1>2. <<>> \in Seq(Node)
  OBVIOUS
<1>3. QED
  BY <1>1, <1>2

(* mesh_send_advert.                                                       *)
LEMMA SendAdvertKeeps ==
  ASSUME NEW s, Core(s), clock \in Nat, NEW delay \in Nat
  PROVE  Keeps(s, SendAdvert(s, delay))
<1> DEFINE f == OwnFrame("advert", "", "unknown", clock, "flood", <<>>, 1)
           r == Recorded(s, f, "own")
           p == Put(r, f, "own", 0, delay, OwnPower)
           t == [p EXCEPT !.last_advert = clock]
<1>1. "own" \in Source /\ 0 \in Nat /\ OwnPower \in Power
  BY OwnPowerIsPower DEF Source
<1>2. f \in Frame /\ Sendable(f, "own", OwnPower)
  <2>1. /\ "advert" \in OwnKind /\ "unknown" \in Channel \cup {"unknown"}
        /\ "flood" \in {"flood", "direct"} /\ 1 \in 1..3
    BY DEF OwnKind
  <2>2. f \in Frame
    BY <2>1, NothingIsNamed, OwnFrameIsFrame
  <2>3. Sendable(f, "own", OwnPower)
    BY <2>1, NothingIsNamed, OwnSendable
  <2>4. QED
    BY <2>2, <2>3
<1> HIDE DEF f
<1>3. Keeps(s, r)
  BY <1>1, <1>2, RecordedKeeps
<1> HIDE DEF r
<1>4. Keeps(r, p)
  <2>1. Core(r)
    BY <1>3 DEF Keeps
  <2>2. QED
    BY <1>1, <1>2, <2>1, PutKeeps
<1> HIDE DEF p
<1>5. Keeps(p, t)
  <2>1. Core(p) /\ p \in MeshType
    BY <1>4 DEF Keeps, Core
  <2>2. t \in MeshType /\ SameCore(p, t)
    BY <2>1 DEF MeshType, SameCore, SameFlags
  <2>3. QED
    BY <2>1, <2>2, SameCoreKeeps
<1>6. Keeps(s, s)
  BY DEF Keeps, SameFlags
<1>7. SendAdvert(s, delay) \in {s, r, t}
  BY DEF SendAdvert, f, r, p
<1> HIDE DEF t
<1>8. QED
  BY <1>3, <1>4, <1>5, <1>6, <1>7, KeepsTwice

(* The services' messages: record and queue.                               *)
LEMMA SayKeeps ==
  ASSUME NEW s, Core(s), clock \in Nat, NEW delay \in Nat,
         NEW f \in Frame, Sendable(f, "own", OwnPower)
  PROVE  Keeps(s, Say(s, f, delay))
<1> DEFINE r == Recorded(s, f, "own")
<1>1. "own" \in Source /\ 1 \in Nat /\ OwnPower \in Power
  BY OwnPowerIsPower DEF Source
<1>2. Keeps(s, r)
  BY <1>1, RecordedKeeps
<1> HIDE DEF r
<1>3. Keeps(r, Put(r, f, "own", 1, delay, OwnPower))
  <2>1. Core(r)
    BY <1>2 DEF Keeps
  <2>2. QED
    BY <1>1, <2>1, PutKeeps
<1>4. QED
  BY <1>2, <1>3, KeepsTwice DEF Say, r

LEMMA AnnounceKeeps ==
  ASSUME NEW s, Core(s), clock \in Nat, NEW delay \in Nat,
         NEW kind \in OwnKind \ {"advert"}, NEW chan \in Channel
  PROVE  Keeps(s, Announce(s, kind, chan, delay))
<1> DEFINE f == OwnFrame(kind, "", chan, clock, "flood", <<>>, 1)
<1>1. /\ kind \in OwnKind /\ kind # "advert" /\ chan \in Channel \cup {"unknown"}
      /\ "flood" \in {"flood", "direct"} /\ 1 \in 1..3
  OBVIOUS
<1>2. f \in Frame
  BY <1>1, NothingIsNamed, OwnFrameIsFrame
<1>3. Sendable(f, "own", OwnPower)
  BY <1>1, NothingIsNamed, OwnSendable
<1> HIDE DEF f
<1>4. QED
  BY <1>2, <1>3, SayKeeps DEF Announce, f

LEMMA ReplyToKeeps ==
  ASSUME NEW s, Core(s), clock \in Nat, NEW delay \in Nat,
         NEW f \in Frame, f.msg.chan \in Channel
  PROVE  Keeps(s, ReplyTo(s, f, delay))
<1> DEFINE r == OwnFrame("reply", f.msg.sender, f.msg.chan, clock, "direct",
                         Reversed(f.path), f.hs)
<1>1. /\ f.msg.sender \in Name /\ f.hs \in 1..3 /\ f.path \in Seq(Node)
      /\ "reply" \in OwnKind
  BY DEF Frame, Message, OwnKind
<1>2. Reversed(f.path) \in Seq(Node)
  BY <1>1, ReversedIsPath
<1>3. r \in Frame /\ Sendable(r, "own", OwnPower)
  BY <1>1, <1>2, OwnFrameIsFrame, OwnSendable
<1> HIDE DEF r
<1>4. QED
  BY <1>3, SayKeeps DEF ReplyTo, r
----------------------------------------------------------------------------
(* What a received frame teaches the node.                                 *)

LEMMA NoteNeighborKeeps ==
  ASSUME NEW s, Core(s), clock \in Nat, NEW f \in Frame
  PROVE  Keeps(s, NoteNeighbor(s, f))
<1> DEFINE n == [key |-> f.msg.key, name |-> f.msg.sender, type |-> f.msg.adv, last |-> clock]
           at(i) == [s EXCEPT !.neighbors[i] = n]
           more == [s EXCEPT !.neighbors = Append(@, n)]
<1>1. s \in MeshType /\ s.neighbors \in Seq(Neighbor)
  BY DEF Core, MeshType
<1>2. n \in Neighbor
  BY DEF Neighbor, Frame, Message
<1> HIDE DEF n
<1>3. ASSUME NEW i
      PROVE  Keeps(s, at(i))
  <2>1. [s.neighbors EXCEPT ![i] = n] \in Seq(Neighbor)
    <3>1. s.neighbors \in [1..Len(s.neighbors) -> Neighbor] /\ Len(s.neighbors) \in Nat
      BY <1>1
    <3>2. [s.neighbors EXCEPT ![i] = n] \in [1..Len(s.neighbors) -> Neighbor]
      BY <1>2, <3>1
    <3>3. QED
      BY <3>1, <3>2, IsASeq
  <2>2. at(i) \in MeshType /\ SameCore(s, at(i))
    BY <1>1, <2>1 DEF MeshType, SameCore, SameFlags
  <2>3. QED
    BY <2>2, SameCoreKeeps
<1>4. Keeps(s, more)
  <2>1. Append(s.neighbors, n) \in Seq(Neighbor)
    BY <1>1, <1>2
  <2>2. more \in MeshType /\ SameCore(s, more)
    BY <1>1, <2>1 DEF MeshType, SameCore, SameFlags
  <2>3. QED
    BY <2>2, SameCoreKeeps
<1>5. NoteNeighbor(s, f) = more \/ \E i : NoteNeighbor(s, f) = at(i)
  BY DEF NoteNeighbor, n
<1> HIDE DEF at, more
<1>6. QED
  BY <1>3, <1>4, <1>5

LEMMA LearnAffinityKeeps ==
  ASSUME NEW s, Core(s), NEW f \in Frame
  PROVE  Keeps(s, LearnAffinity(s, f))
<1> DEFINE learned == s.affinity \cup {PathHash[f.msg.key]}
           t == [s EXCEPT !.affinity = learned]
<1>1. s \in MeshType /\ s.affinity \subseteq Node
  BY DEF Core, MeshType
<1>2. f.msg.key \in Key
  BY DEF Frame, Message
<1>3. learned \in SUBSET Node
  BY <1>1, <1>2, PacketAssumption
<1> HIDE DEF learned
<1>4. t \in MeshType /\ SameCore(s, t)
  BY <1>1, <1>3 DEF MeshType, SameCore, SameFlags
<1>5. Keeps(s, t) /\ Keeps(s, s)
  BY <1>4, SameCoreKeeps DEF Keeps, SameFlags
<1>6. QED
  BY <1>5 DEF LearnAffinity, learned

(* What mesh.c draws at random for one handler.                            *)
LEMMA DelaysAreNat ==
  ASSUME NEW d \in Delays
  PROVE  d.flood \in Nat /\ d.reply \in Nat /\ d.jitter \in Nat
BY MeshAssumption DEF Delays

(* hotspot_wake: a hotspot that was silent is no longer, queues its advert *)
(* and has a STATUS on its way.                                            *)
LEMMA WakeGood ==
  ASSUME NEW s, Good(s), clock \in Nat, NEW f, NEW d \in Delays
  PROVE  Good(Wake(s, f, d))
<1> DEFINE late == clock + Awake
           w == [s EXCEPT !.until = late]
           u == [w EXCEPT !.silent = FALSE]
           v == SendAdvert(u, d.jitter)
           b == [v EXCEPT !.soon = TRUE]
<1>1. s \in MeshType
  BY DEF Good, Core
<1>2. Awake \in Nat /\ d.jitter \in Nat
  BY MeshAssumption, DelaysAreNat
<1> late \in Nat
  BY <1>2
<1> HIDE DEF late
<1>3. /\ w \in MeshType /\ w.ring = s.ring /\ w.txq = s.txq
      /\ w.silent = s.silent /\ w.soon = s.soon
  BY <1>1 DEF MeshType
<1> HIDE DEF w
<1>4. CASE ~RfSilent(s, clock)
  <2>1. ~s.silent /\ (told => s.soon)
    BY <1>4 DEF Good, Core, SilentOK, Informed
  <2>2. QueueOK(w) /\ RingOK(w.ring) /\ SilentOK(w) /\ Informed(w)
    BY <1>3, <2>1 DEF Good, Core, QueueOK, SilentOK, Informed
  <2>3. Good(w)
    BY <1>3, <2>2 DEF Good, Core
  <2>4. QED
    BY <1>4, <2>3 DEF Wake, w, late
<1>5. CASE RfSilent(s, clock)
  <2>1. u \in MeshType /\ u.ring = s.ring /\ u.txq = s.txq /\ ~u.silent
    BY <1>3 DEF MeshType
  <2> HIDE DEF u
  <2>2. Core(u)
    BY <2>1 DEF Good, Core, QueueOK, SilentOK
  <2>3. Keeps(u, v)
    BY <1>2, <2>2, SendAdvertKeeps
  <2>4. Core(v) /\ v \in MeshType /\ v.silent = u.silent
    BY <2>3 DEF Keeps, Core, SameFlags
  <2> HIDE DEF v
  <2>5. b \in MeshType /\ b.ring = v.ring /\ b.txq = v.txq /\ ~b.silent /\ b.soon
    BY <2>1, <2>4 DEF MeshType
  <2> HIDE DEF b
  <2>6. Good(b)
    BY <2>4, <2>5 DEF Good, Core, QueueOK, SilentOK, Informed
  <2>7. QED
    BY <1>5, <2>6 DEF Wake, BackOnAir, b, v, u, w, late
<1>6. QED
  BY <1>4, <1>5

LEMMA LearnGood ==
  ASSUME NEW s, Good(s), clock \in Nat, NEW f \in Frame, NEW src, NEW d \in Delays
  PROVE  Good(Learn(s, f, src, d))
<1> DEFINE n == NoteNeighbor(s, f)
           l == LearnAffinity(n, f)
<1>1. Keeps(s, n)
  BY NoteNeighborKeeps DEF Good
<1> HIDE DEF n
<1>2. Good(n) /\ Keeps(n, l)
  BY <1>1, KeepsGood, LearnAffinityKeeps DEF Keeps
<1> HIDE DEF l
<1>3. Good(l)
  BY <1>2, KeepsGood
<1>4. Good(Wake(l, f, d))
  BY <1>3, WakeGood
<1>5. Learn(s, f, src, d) \in {s, l, Wake(l, f, d)}
  BY DEF Learn, n, l
<1>6. QED
  BY <1>3, <1>4, <1>5
----------------------------------------------------------------------------
(* The services on public channels.                                        *)

(* mbox_rate_ok keeps a table of gates.                                    *)
LEMMA CloseGateIsTable ==
  ASSUME NEW gates \in Seq(Gate), NEW call \in Call, NEW t \in Nat
  PROVE  CloseGate(gates, call, t) \in Seq(Gate)
<1> DEFINE gate == [call |-> call, next |-> t + MboxCooldown]
           n == Len(gates)
<1>1. gate \in Gate
  BY MailboxAssumption DEF Gate
<1>2. gates \in [1..n -> Gate] /\ n \in Nat
  OBVIOUS
<1> HIDE DEF gate, n
<1>3. [k \in 1..n |-> IF gates[k].call = call THEN gate ELSE gates[k]] \in [1..n -> Gate]
  BY <1>1, <1>2
<1>4. ASSUME NEW k
      PROVE  [gates EXCEPT ![k] = gate] \in [1..n -> Gate]
  BY <1>1, <1>2
<1>5. Append(gates, gate) \in Seq(Gate)
  BY <1>1
<1>6. \A g \in [1..n -> Gate] : g \in Seq(Gate)
  BY <1>2, IsASeq
<1>7. \/ CloseGate(gates, call, t) = Append(gates, gate)
      \/ CloseGate(gates, call, t) \in [1..n -> Gate]
  BY <1>3, <1>4 DEF CloseGate, gate, n
<1>8. QED
  BY <1>5, <1>6, <1>7

(* mbox_store keeps a box of letters.                                      *)
LEMMA DepositIsBox ==
  ASSUME NEW I, NEW box \in Seq(LetterSet(I)), NEW to \in Call, NEW id \in I
  PROVE  Deposit(box, to, id) \in Seq(LetterSet(I))
<1>1. [to |-> to, id |-> id] \in LetterSet(I)
  BY DEF LetterSet
<1>2. MboxMax \in Nat \ {0}
  BY MailboxAssumption
<1>3. CASE Len(box) < MboxMax
  BY <1>1, <1>3 DEF Deposit
<1>4. CASE ~(Len(box) < MboxMax)
  <2>1. box # <<>>
    BY <1>2, <1>4
  <2>2. Tail(box) \in Seq(LetterSet(I))
    BY <2>1
  <2>3. QED
    BY <1>1, <1>4, <2>2 DEF Deposit
<1>5. QED
  BY <1>3, <1>4

LEMMA MinuteIsNat ==
  ASSUME NEW t \in Nat
  PROVE  Minute(t) \in Nat
<1>1. MinuteTicks \in Nat \ {0}
  BY MeshAssumption
<1>2. QED
  BY <1>1 DEF Minute

(* The services: each leaves the ring, the queue and the flags alone, or   *)
(* says something of our own.                                              *)
LEMMA ServiceKeeps ==
  ASSUME NEW s, Core(s), clock \in Nat, NEW chan \in Channel
  PROVE  /\ Keeps(s, StartProbe(s, chan))
         /\ Keeps(s, [s EXCEPT !.probe.left = 0])
         /\ \A what \in {"time", "date"} : Keeps(s, ArmTod(s, chan, what))
         /\ \A t \in Nat : Keeps(s, [s EXCEPT !.help = t])
<1>1. s \in MeshType /\ s.probe \in Probing /\ s.tod \in Telling
  BY DEF Core, MeshType
<1>2. Keeps(s, StartProbe(s, chan))
  <2> DEFINE p == [chan |-> chan, left |-> ProbeCount, next |-> clock + MinOf(ReplyDelay)]
  <2>1. MinOf(ReplyDelay) \in Nat /\ ProbeCount \in Nat
    <3>1. ReplyDelay \in SUBSET Nat /\ ReplyDelay # {} /\ ProbeCount \in Nat
      BY MeshAssumption
    <3>2. \E i \in ReplyDelay : \A j \in ReplyDelay : i <= j
      BY <3>1, HasLeast
    <3>3. MinOf(ReplyDelay) \in ReplyDelay
      BY <3>2 DEF MinOf
    <3>4. QED
      BY <3>1, <3>3
  <2>2. p \in Probing
    BY <2>1 DEF Probing
  <2> HIDE DEF p
  <2>3. [s EXCEPT !.probe = p] \in MeshType /\ SameCore(s, [s EXCEPT !.probe = p])
    BY <1>1, <2>2 DEF MeshType, SameCore, SameFlags
  <2>4. QED
    BY <2>3, SameCoreKeeps DEF StartProbe, p
<1>3. Keeps(s, [s EXCEPT !.probe.left = 0])
  <2>1. [s.probe EXCEPT !.left = 0] \in Probing
    BY <1>1 DEF Probing
  <2>2. /\ [s EXCEPT !.probe.left = 0] \in MeshType
        /\ SameCore(s, [s EXCEPT !.probe.left = 0])
    BY <1>1, <2>1 DEF MeshType, SameCore, SameFlags
  <2>3. QED
    BY <2>2, SameCoreKeeps
<1>4. ASSUME NEW what \in {"time", "date"}
      PROVE  Keeps(s, ArmTod(s, chan, what))
  <2> DEFINE p == [chan |-> chan, ask |-> s.tod.ask \cup {what},
                   minute |-> IF s.tod.ask = {} THEN Minute(clock) ELSE s.tod.minute]
  <2>1. Minute(clock) \in Nat
    BY MinuteIsNat
  <2>2. p \in Telling
    BY <1>1, <2>1 DEF Telling
  <2>3. ArmTod(s, chan, what) = [s EXCEPT !.tod = p]
    BY DEF ArmTod
  <2> HIDE DEF p
  <2>4. [s EXCEPT !.tod = p] \in MeshType /\ SameCore(s, [s EXCEPT !.tod = p])
    BY <1>1, <2>2 DEF MeshType, SameCore, SameFlags
  <2>5. QED
    BY <2>3, <2>4, SameCoreKeeps
<1>5. ASSUME NEW t \in Nat
      PROVE  Keeps(s, [s EXCEPT !.help = t])
  <2>1. [s EXCEPT !.help = t] \in MeshType /\ SameCore(s, [s EXCEPT !.help = t])
    BY <1>1 DEF MeshType, SameCore, SameFlags
  <2>2. QED
    BY <2>1, SameCoreKeeps
<1>6. QED
  BY <1>2, <1>3, <1>4, <1>5

(* The mailbox: the box and the gates.                                     *)
LEMMA MailboxKeeps ==
  ASSUME NEW s, Core(s), clock \in Nat, NEW f \in Frame
  PROVE  /\ Keeps(s, [s EXCEPT !.box = Deposit(@, BaseCall[f.msg.to], f.msg.id)])
         /\ Keeps(s, [s EXCEPT !.gates = CloseGate(@, BaseCall[f.msg.sender], clock)])
<1>1. s \in MeshType /\ s.box \in Seq(LetterSet(Id)) /\ s.gates \in Seq(Gate)
  BY DEF Core, MeshType
<1>2. /\ f.msg.to \in Name /\ f.msg.sender \in Name /\ f.msg.id \in Id
  BY DEF Frame, Message
<1>3. BaseCall[f.msg.to] \in Call /\ BaseCall[f.msg.sender] \in Call
  BY <1>2, MeshAssumption
<1> DEFINE b == Deposit(s.box, BaseCall[f.msg.to], f.msg.id)
           g == CloseGate(s.gates, BaseCall[f.msg.sender], clock)
<1>4. b \in Seq(LetterSet(Id)) /\ g \in Seq(Gate)
  BY <1>1, <1>2, <1>3, DepositIsBox, CloseGateIsTable
<1> HIDE DEF b, g
<1>5. /\ [s EXCEPT !.box = b] \in MeshType /\ SameCore(s, [s EXCEPT !.box = b])
      /\ [s EXCEPT !.gates = g] \in MeshType /\ SameCore(s, [s EXCEPT !.gates = g])
  BY <1>1, <1>4 DEF MeshType, SameCore, SameFlags
<1>6. Keeps(s, [s EXCEPT !.box = b]) /\ Keeps(s, [s EXCEPT !.gates = g])
  BY <1>5, SameCoreKeeps
<1>7. QED
  BY <1>6 DEF b, g

(* process_public_grp and mbox_handle.                                     *)
LEMMA AnswerKeeps ==
  ASSUME NEW s, Core(s), clock \in Nat, NEW f \in Frame, f.msg.chan \in Channel, NEW d \in Delays
  PROVE  Keeps(s, Answer(s, f, d))
<1> DEFINE chan == f.msg.chan
           call == BaseCall[f.msg.sender]
           pong == Announce(s, "pong", chan, d.reply)
           help == Announce(s, "help", chan, d.reply)
           told_ == [help EXCEPT !.help = clock + HelpCooldown]
           shut == [s EXCEPT !.gates = CloseGate(@, call, clock)]
<1>1. d.reply \in Nat /\ clock + HelpCooldown \in Nat
  <2>1. HelpCooldown \in Nat
    BY MeshAssumption
  <2>2. QED
    BY <2>1, DelaysAreNat
<1>2. Keeps(s, pong) /\ Keeps(s, help)
  <2>1. "pong" \in OwnKind \ {"advert"} /\ "help" \in OwnKind \ {"advert"}
    BY DEF OwnKind
  <2>2. QED
    BY <1>1, <2>1, AnnounceKeeps
<1>3. Keeps(s, told_)
  <2> HIDE DEF help
  <2>1. Core(help)
    BY <1>2 DEF Keeps
  <2>2. Keeps(help, told_)
    BY <1>1, <2>1, ServiceKeeps
  <2>3. QED
    BY <1>2, <2>2, KeepsTwice
<1>4. /\ Keeps(s, StartProbe(s, chan)) /\ Keeps(s, [s EXCEPT !.probe.left = 0])
      /\ Keeps(s, ArmTod(s, chan, "time")) /\ Keeps(s, ArmTod(s, chan, "date"))
  BY ServiceKeeps
<1>5. Keeps(s, [s EXCEPT !.box = Deposit(@, BaseCall[f.msg.to], f.msg.id)]) /\ Keeps(s, shut)
  BY MailboxKeeps
<1>6. Keeps(s, ReplyTo(shut, f, d.reply))
  <2> HIDE DEF shut
  <2>1. Core(shut)
    BY <1>5 DEF Keeps
  <2>2. Keeps(shut, ReplyTo(shut, f, d.reply))
    BY <1>1, <2>1, ReplyToKeeps
  <2>3. QED
    BY <1>5, <2>2, KeepsTwice
<1>7. Keeps(s, s)
  BY DEF Keeps, SameFlags
<1>8. QED
  BY <1>2, <1>3, <1>4, <1>5, <1>6, <1>7 DEF Answer

LEMMA AttendGood ==
  ASSUME NEW s, Good(s), clock \in Nat, NEW f \in Frame, f.msg.chan \in Channel,
         NEW src, NEW d \in Delays
  PROVE  Good(Attend(s, f, src, d))
<1> DEFINE w == Wake(s, f, d)
<1>1. Good(w)
  BY WakeGood
<1> HIDE DEF w
<1>2. Keeps(w, Answer(w, f, d))
  BY <1>1, AnswerKeeps DEF Good
<1>3. Good(Answer(w, f, d))
  BY <1>1, <1>2, KeepsGood
<1>4. QED
  BY <1>3 DEF Attend, w
----------------------------------------------------------------------------
(* Relaying.                                                               *)

LEMMA RelayKeeps ==
  ASSUME NEW s, Core(s), clock \in Nat, NEW f \in Frame, PublicContent(f),
         NEW src \in {"rf", "hub"}, NEW d \in Delays
  PROVE  Keeps(s, Relay(s, f, src, d))
<1> DEFINE power == RelayPower(f, src, s.affinity)
           back == Put(s, Appended(f), src, Len(f.path) + 1, d.flood, power)
           front == Put(s, Stripped(f), src, 0, 0, power)
<1>1. src \in Source /\ src # "own" /\ power \in Power
  BY PowerIsPower DEF Source, Power
<1>2. Len(f.path) + 1 \in Nat /\ d.flood \in Nat
  BY DelaysAreNat DEF Frame
<1>3. Keeps(s, s)
  BY DEF Keeps, SameFlags
<1>4. CASE Role = "hotspot" /\ ~InScope(f, src, s.affinity)
  BY <1>3, <1>4 DEF Relay
<1>5. CASE ~(Role = "hotspot" /\ ~InScope(f, src, s.affinity))
  <2>1. power = "high" => src = "rf" /\ f.msg.sender \in Home
    BY <1>1, <1>5, HighPowerIsUplink
  <2>2. ASSUME NEW g \in Frame, g.msg = f.msg, g.route = f.route
        PROVE  Sendable(g, src, power)
    BY <1>1, <2>1, <2>2 DEF Sendable, PublicContent
  <2> HIDE DEF power
  <2>3. Keeps(s, back)
    <3>1. Appended(f) \in Frame /\ Sendable(Appended(f), src, power)
      BY <2>2, RelayedIsFrame
    <3>2. QED
      BY <1>1, <1>2, <3>1, PutKeeps
  <2>4. ASSUME f.path # <<>>
        PROVE  Keeps(s, front)
    <3>1. Stripped(f) \in Frame /\ Sendable(Stripped(f), src, power)
      BY <2>2, <2>4, RelayedIsFrame
    <3>2. 0 \in Nat
      OBVIOUS
    <3>3. QED
      BY <1>1, <3>1, <3>2, PutKeeps
  <2>5. QED
    BY <1>3, <1>5, <2>3, <2>4 DEF Relay, RelayFlood, RelayDirect, power
<1>6. QED
  BY <1>4, <1>5
----------------------------------------------------------------------------
(* mesh_on_recv.                                                           *)
LEMMA RecvGood ==
  ASSUME Good(m), clock \in Nat, NEW f \in Frame, NEW src \in {"rf", "hub"}, Recv(f, src)
  PROVE  Good(m')
<1> DEFINE r == Recorded(m, f, src)
<1>1. Good(r)
  <2>1. Keeps(m, r)
    BY RecordedKeeps DEF Good, Source
  <2>2. QED
    BY <2>1, KeepsGood
<1> HIDE DEF r
<1>2. ASSUME NEW d \in Delays
      PROVE  Good(Learn(r, f, src, d))
  BY <1>1, LearnGood
<1>3. ASSUME NEW d \in Delays, Classify(f) = "grp_public"
      PROVE  Good(Attend(r, f, src, d))
  <2>1. f.msg.chan \in Channel
    BY <1>3 DEF Classify
  <2>2. QED
    BY <1>1, <2>1, AttendGood
<1>4. ASSUME NEW s, Good(s), NEW d \in Delays, ~Refused(f), ~KeptHere(f)
      PROVE  Good(Relay(s, f, src, d))
  <2>1. PublicContent(f)
    BY <1>4, PassedIsPublic DEF Refused, KeptHere
  <2>2. Keeps(s, Relay(s, f, src, d))
    BY <1>4, <2>1, RelayKeeps DEF Good
  <2>3. QED
    BY <1>4, <2>2, KeepsGood
<1>5. CASE RecvDuplicate(f, src)
  BY <1>5 DEF RecvDuplicate
<1>6. CASE RecvRefused(f, src)
  BY <1>1, <1>6 DEF RecvRefused, r
<1>7. CASE RecvKept(f, src)
  BY <1>2, <1>7 DEF RecvKept, r
<1>8. CASE RecvCommand(f, src)
  BY <1>3, <1>8 DEF RecvCommand, r
<1>9. CASE RecvPublic(f, src)
  <2>1. PICK d \in Delays : m' = Relay(Attend(r, f, src, d), f, src, d)
    BY <1>9 DEF RecvPublic, r
  <2>2. Good(Attend(r, f, src, d)) /\ ~Refused(f) /\ ~KeptHere(f)
    BY <1>3, <1>9 DEF RecvPublic
  <2>3. QED
    BY <1>4, <2>1, <2>2
<1>10. CASE RecvOpaque(f, src)
  <2>1. PICK d \in Delays : m' = Relay(Learn(r, f, src, d), f, src, d)
    BY <1>10 DEF RecvOpaque, r
  <2>2. Good(Learn(r, f, src, d)) /\ ~Refused(f) /\ ~KeptHere(f)
    BY <1>2, <1>10 DEF RecvOpaque
  <2>3. QED
    BY <1>4, <2>1, <2>2
<1>11. QED
  BY <1>5, <1>6, <1>7, <1>8, <1>9, <1>10 DEF Recv
----------------------------------------------------------------------------
(* The timers of the loop.                                                 *)

LEMMA TimersKeep ==
  ASSUME Core(m), clock \in Nat, now \in Nat,
         NEW probe \in JitterDelay, NEW tod \in JitterDelay, NEW advert \in JitterDelay
  PROVE  Keeps(m, PeriodicAdvert(ServiceTimeOfDay(ServiceProbe(m, probe), tod), advert))
<1>1. probe \in Nat /\ tod \in Nat /\ advert \in Nat /\ ProbeInterval \in Nat
  BY MeshAssumption
<1>2. ASSUME NEW s, Core(s)
      PROVE  Keeps(s, ServiceProbe(s, probe))
  <2> DEFINE a == Announce(s, "probe", s.probe.chan, probe)
             left == s.probe.left - 1
             next == now + ProbeInterval
             p == [a EXCEPT !.probe.left = left, !.probe.next = next]
  <2>1. s.probe \in Probing /\ s.probe.chan \in Channel /\ s.probe.left \in Nat
    BY <1>2 DEF Core, MeshType, Probing
  <2>2. Keeps(s, a)
    <3>1. "probe" \in OwnKind \ {"advert"}
      BY DEF OwnKind
    <3>2. QED
      BY <1>1, <1>2, <2>1, <3>1, AnnounceKeeps
  <2>3. Keeps(s, [s EXCEPT !.probe.left = 0]) /\ Keeps(s, s)
    BY <1>2, <2>1, ServiceKeeps DEF Keeps, SameFlags
  <2>4. ASSUME ProbeDue(s)
        PROVE  Keeps(s, p)
    <3>1. left \in Nat /\ next \in Nat
      BY <1>1, <2>1, <2>4 DEF ProbeDue
    <3> HIDE DEF a, left, next
    <3>2. Core(a) /\ a \in MeshType /\ a.probe \in Probing
      BY <2>2 DEF Keeps, Core, MeshType
    <3>3. [a.probe EXCEPT !.left = left, !.next = next] \in Probing
      BY <3>1, <3>2 DEF Probing
    <3>4. p \in MeshType /\ SameCore(a, p)
      BY <3>2, <3>3 DEF MeshType, SameCore, SameFlags
    <3>5. Keeps(a, p)
      BY <3>2, <3>4, SameCoreKeeps
    <3>6. QED
      BY <2>2, <3>5, KeepsTwice
  <2>5. QED
    BY <2>3, <2>4 DEF ServiceProbe
<1>3. ASSUME NEW s, Core(s)
      PROVE  Keeps(s, ServiceTimeOfDay(s, tod))
  <2> DEFINE a == Tell(s, "time", tod)
             b == Tell(a, "date", tod)
             minute == Minute(clock)
             t == [b EXCEPT !.tod.ask = {}, !.tod.minute = minute]
  <2>1. ASSUME NEW x, Core(x), NEW kind \in {"time", "date"}
        PROVE  Keeps(x, Tell(x, kind, tod))
    <3>1. kind \in OwnKind \ {"advert"}
      BY DEF OwnKind
    <3>2. x.tod.chan \in Channel
      BY <2>1 DEF Core, MeshType, Telling
    <3>3. Keeps(x, Announce(x, kind, x.tod.chan, tod))
      BY <1>1, <2>1, <3>1, <3>2, AnnounceKeeps
    <3>4. QED
      BY <2>1, <3>3 DEF Tell, Keeps, SameFlags
  <2>2. Keeps(s, a)
    BY <1>3, <2>1
  <2> HIDE DEF a
  <2>3. Keeps(a, b)
    BY <2>1, <2>2 DEF Keeps
  <2> HIDE DEF b
  <2>4. Keeps(b, t)
    <3>1. minute \in Nat
      BY MinuteIsNat
    <3> HIDE DEF minute
    <3>2. Core(b) /\ b \in MeshType /\ b.tod \in Telling
      BY <2>3 DEF Keeps, Core, MeshType
    <3>3. [b.tod EXCEPT !.ask = {}, !.minute = minute] \in Telling
      BY <3>1, <3>2 DEF Telling
    <3>4. t \in MeshType /\ SameCore(b, t)
      BY <3>2, <3>3 DEF MeshType, SameCore, SameFlags
    <3>5. QED
      BY <3>2, <3>4, SameCoreKeeps
  <2>5. ServiceTimeOfDay(s, tod) \in {s, t}
    BY DEF ServiceTimeOfDay, a, b
  <2>6. Keeps(s, s)
    BY <1>3 DEF Keeps, SameFlags
  <2> HIDE DEF t
  <2>7. QED
    BY <2>2, <2>3, <2>4, <2>5, <2>6, KeepsTwice
<1>4. ASSUME NEW s, Core(s)
      PROVE  Keeps(s, PeriodicAdvert(s, advert))
  <2> DEFINE a == SendAdvert(s, advert)
             t == [a EXCEPT !.last_advert = now]
  <2>1. Keeps(s, a)
    BY <1>1, <1>4, SendAdvertKeeps
  <2> HIDE DEF a
  <2>2. Core(a) /\ a \in MeshType
    BY <2>1 DEF Keeps, Core
  <2>3. t \in MeshType /\ SameCore(a, t)
    BY <2>2 DEF MeshType, SameCore, SameFlags
  <2>4. Keeps(a, t)
    BY <2>2, <2>3, SameCoreKeeps
  <2>5. Keeps(s, t) /\ Keeps(s, s)
    BY <1>4, <2>1, <2>4, KeepsTwice DEF Keeps, SameFlags
  <2>6. QED
    BY <2>5 DEF PeriodicAdvert, a
<1> DEFINE x == ServiceProbe(m, probe)
           y == ServiceTimeOfDay(x, tod)
<1>5. Keeps(m, x)
  BY <1>2
<1> HIDE DEF x
<1>6. Keeps(x, y)
  BY <1>3, <1>5 DEF Keeps
<1> HIDE DEF y
<1>7. Keeps(y, PeriodicAdvert(y, advert))
  BY <1>4, <1>6 DEF Keeps
<1>8. Keeps(m, PeriodicAdvert(y, advert))
  BY <1>5, <1>6, <1>7, KeepsTwice
<1>9. QED
  BY <1>8 DEF x, y
----------------------------------------------------------------------------
(* mesh_service_tx.                                                        *)

(* pick_due finds a packet that is due, if there is one.                   *)
LEMMA UrgentIsDue ==
  ASSUME NEW s \in MeshType, NEW t, Due(s, t) # {}
  PROVE  Urgent(s, t) \in Due(s, t)
<1> DEFINE D == Due(s, t)
           P == {s.txq[i].prio : i \in D}
<1>1. D \subseteq Nat /\ \A i \in D : s.txq[i].prio \in Nat /\ s.txq[i].due \in Nat
  <2>1. Slot \subseteq Nat
    BY DEF Slot
  <2>2. s.txq \in [Slot -> Entry \cup {NoEntry}]
    BY DEF MeshType, Queue
  <2>3. \A i \in D : i \in Slot /\ s.txq[i] \in Entry
    BY <2>2 DEF Due
  <2> HIDE DEF D
  <2>4. QED
    BY <2>1, <2>3 DEF Entry
<1> HIDE DEF D
<1>2. PICK a \in D : \A j \in D : s.txq[a].prio <= s.txq[j].prio
  <2>1. P \in SUBSET Nat /\ P # {}
    BY <1>1 DEF D
  <2>2. PICK p \in P : \A q \in P : p <= q
    <3> HIDE DEF P
    <3>1. QED
      BY <2>1, HasLeast
  <2>3. QED
    BY <2>2
<1> DEFINE E == {i \in D : s.txq[i].prio = s.txq[a].prio}
           U == {s.txq[i].due : i \in E}
<1>3. PICK b \in E : \A j \in E : s.txq[b].due <= s.txq[j].due
  <2>1. U \in SUBSET Nat /\ U # {}
    BY <1>1, <1>2
  <2>2. PICK p \in U : \A q \in U : p <= q
    <3> HIDE DEF U
    <3>1. QED
      BY <2>1, HasLeast
  <2>3. QED
    BY <2>2
<1> DEFINE F == {i \in E : s.txq[i].due = s.txq[b].due}
<1>4. PICK c \in F : \A j \in F : c <= j
  <2>1. F \in SUBSET Nat /\ F # {}
    BY <1>1, <1>3
  <2> HIDE DEF F
  <2>2. QED
    BY <2>1, HasLeast
<1>5. c \in D /\ s.txq[c].prio = s.txq[a].prio /\ s.txq[c].due = s.txq[b].due
  BY <1>4
<1>6. ASSUME NEW j \in D
      PROVE  \/ s.txq[c].prio < s.txq[j].prio
             \/ s.txq[c].prio = s.txq[j].prio /\ s.txq[c].due < s.txq[j].due
             \/ s.txq[c].prio = s.txq[j].prio /\ s.txq[c].due = s.txq[j].due /\ c <= j
  <2>1. CASE j \notin E
    BY <1>1, <1>2, <1>5, <2>1
  <2>2. CASE j \in E /\ j \notin F
    BY <1>1, <1>3, <1>5, <2>2
  <2>3. CASE j \in F
    BY <1>4, <1>5, <2>3
  <2>4. QED
    BY <2>1, <2>2, <2>3
<1>7. \E i \in D : \A j \in D :
        \/ s.txq[i].prio < s.txq[j].prio
        \/ s.txq[i].prio = s.txq[j].prio /\ s.txq[i].due < s.txq[j].due
        \/ s.txq[i].prio = s.txq[j].prio /\ s.txq[i].due = s.txq[j].due /\ i <= j
  BY <1>5, <1>6
<1>8. QED
  BY <1>7 DEF Urgent, D

(* A hotspot with a packet due has not noticed any silence.                *)
LEMMA DueIsAwake ==
  ASSUME NEW s, Core(s), NEW t, Due(s, t) # {}
  PROVE  /\ ~s.silent
         /\ Urgent(s, t) \in Slot /\ s.txq[Urgent(s, t)] \in Entry
         /\ Sendable(s.txq[Urgent(s, t)].frame, s.txq[Urgent(s, t)].src, s.txq[Urgent(s, t)].power)
<1> DEFINE i == Urgent(s, t)
<1>1. s \in MeshType /\ QueueOK(s) /\ SilentOK(s)
  BY DEF Core
<1>2. i \in Slot /\ s.txq[i] # NoEntry
  BY <1>1, UrgentIsDue DEF Due
<1> HIDE DEF i
<1>3. s.txq[i] \in Entry
  BY <1>1, <1>2 DEF MeshType, Queue
<1>4. QED
  BY <1>1, <1>2, <1>3 DEF QueueOK, SilentOK, i

(* One packet leaves the queue or waits.                                   *)
LEMMA SlotKeeps ==
  ASSUME NEW s, Core(s), ~s.silent, NEW i \in Slot,
         NEW e \in Entry \cup {NoEntry}, e # NoEntry => Sendable(e.frame, e.src, e.power)
  PROVE  Keeps(s, [s EXCEPT !.txq[i] = e])
<1> DEFINE q == [s.txq EXCEPT ![i] = e]
           t == [s EXCEPT !.txq = q]
<1>1. s \in MeshType /\ s.txq \in [Slot -> Entry \cup {NoEntry}]
  BY DEF Core, MeshType, Queue
<1>2. q \in Queue
  BY <1>1 DEF Queue
<1>3. \A j \in Slot : q[j] = IF j = i THEN e ELSE s.txq[j]
  BY <1>1
<1> HIDE DEF q
<1>4. t \in MeshType /\ t.txq = q /\ t.ring = s.ring /\ SameFlags(s, t)
  BY <1>1, <1>2 DEF MeshType, SameFlags
<1> HIDE DEF t
<1>5. QueueOK(t)
  BY <1>3, <1>4 DEF Core, QueueOK
<1>6. Core(t)
  BY <1>4, <1>5 DEF Core, SilentOK, SameFlags
<1>7. QED
  BY <1>4, <1>6 DEF Keeps, t, q
----------------------------------------------------------------------------
(* The invariant of the whole.                                             *)

(* A step that neither lets time pass nor tells the hub.                   *)
LEMMA GoodNext ==
  ASSUME Good(m'), clock' = clock, told' = told
  PROVE  Good(m)'
BY DEF Good, Core, QueueOK, SilentOK, Informed, RfSilent

(* A neighbour's echo is a frame.                                          *)
LEMMA EchoIsFrame ==
  ASSUME ghost \in GhostType
  PROVE  Echoes \subseteq Frame
<1> SUFFICES ASSUME NEW id \in OwnId
             PROVE  Echo(id) \in Frame
  BY DEF Echoes, GhostType
<1>1. id[1] \in OwnKind /\ id[2] \in Name /\ id[3] \in Nat
  BY DEF OwnId
<1>2. /\ (IF id[1] = "advert" THEN "unknown" ELSE MboxChannel) \in Channel \cup {"unknown"}
      /\ "flood" \in {"flood", "direct"} /\ 1 \in 1..3
  <2>1. MboxChannel \in Channel
    BY MeshAssumption
  <2>2. QED
    BY <2>1
<1>3. <<Repeater>> \in Seq(Node)
  <2>1. Repeater \in Node
    BY MeshAssumption
  <2>2. QED
    BY <2>1
<1>4. QED
  BY <1>1, <1>2, <1>3, OwnFrameIsFrame DEF Echo

LEMMA GhostHearType ==
  ASSUME ghost \in GhostType, clock \in Nat, NEW f, GhostHear(f)
  PROVE  ghost' \in GhostType
<1>1. Awake \in Nat
  BY MeshAssumption
<1>2. clock + Awake \in Nat
  BY <1>1
<1>3. QED
  BY <1>2 DEF GhostHear, GhostType

LEMMA GhostSendType ==
  ASSUME ghost \in GhostType, now \in Nat, NEW e \in Entry,
         e.src = "own" => e.frame.msg.id \in OwnId, GhostSend(e)
  PROVE  ghost' \in GhostType
<1> DEFINE sent == [frame |-> e.frame, src |-> e.src, power |-> e.power, now |-> now]
           aired == IF e.src = "own" THEN ghost.aired \cup {e.frame.msg.id} ELSE ghost.aired
<1>1. ghost' = [ghost EXCEPT !.sent = sent, !.aired = aired]
  BY DEF GhostSend
<1>2. sent \in Sending
  BY DEF Entry, Sending
<1>3. aired \in SUBSET OwnId
  BY DEF GhostType
<1> HIDE DEF sent, aired
<1>4. QED
  BY <1>1, <1>2, <1>3 DEF GhostType

(* A frame is heard, relayed by a remote ear or sent by the hub.           *)
LEMMA ReceiveNext ==
  ASSUME IInv, NEW f \in Frame, NEW src \in {"rf", "hub"}, Recv(f, src),
         UNCHANGED <<clock, now, radio, told>>, pc' \in {pc, "link", "tx"},
         GhostHear(f) \/ UNCHANGED ghost, Count("rx")
  PROVE  IInv'
<1>1. Good(m) /\ LoopType /\ clock \in Nat
  BY DEF IInv, LoopType
<1>2. Good(m')
  BY <1>1, RecvGood
<1>3. Good(m)'
  BY <1>2, GoodNext
<1>4. ghost' \in GhostType
  BY <1>1, GhostHearType DEF LoopType
<1>5. used' \in [{"rx", "busy", "fail", "cli"} -> Nat]
  BY <1>1 DEF LoopType, Count
<1>6. LoopType'
  BY <1>1, <1>4, <1>5 DEF LoopType
<1>7. QED
  BY <1>3, <1>6 DEF IInv

(* mesh_service_tx.                                                        *)
LEMMA ServiceTxNext ==
  ASSUME IInv, ServiceTx
  PROVE  IInv'
<1>1. Good(m) /\ Core(m) /\ LoopType /\ clock \in Nat /\ now \in 0..clock
  BY DEF IInv, Good, LoopType
<1>2. clock' = clock /\ told' = told /\ now' = now
  BY DEF ServiceTx, SilentFlush, NothingDue, ChannelBusy, Transmit, TransmitFails
<1> DEFINE i == Urgent(m, now)
           e == m.txq[i]
<1>3. ASSUME Due(m, now) # {}
      PROVE  /\ ~m.silent /\ i \in Slot /\ e \in Entry
             /\ Sendable(e.frame, e.src, e.power)
             /\ Keeps(m, Freed(m, i))
  <2>1. ~m.silent /\ i \in Slot /\ e \in Entry /\ Sendable(e.frame, e.src, e.power)
    BY <1>1, <1>3, DueIsAwake
  <2> HIDE DEF i
  <2>2. Keeps(m, [m EXCEPT !.txq[i] = NoEntry])
    BY <1>1, <2>1, SlotKeeps
  <2>3. QED
    BY <2>1, <2>2 DEF Freed
<1>4. CASE SilentFlush
  <2> DEFINE empty == [j \in Slot |-> NoEntry]
             soon == m.soon \/ ~m.silent
             t == [m EXCEPT !.silent = TRUE, !.soon = soon, !.txq = empty]
  <2>1. m' = t
    BY <1>4 DEF SilentFlush, Emptied
  <2>2. RfSilent(m, clock)
    <3>1. m.until \in Nat /\ RfSilent(m, now)
      BY <1>1, <1>4 DEF Core, MeshType, SilentFlush
    <3>2. QED
      BY <1>1, <3>1 DEF RfSilent
  <2>3. m \in MeshType /\ empty \in Queue /\ soon \in BOOLEAN
    BY <1>1 DEF Core, Queue
  <2>4. (~told => soon) /\ (soon <=> m.soon \/ ~m.silent)
    BY <1>1 DEF Good, Informed
  <2>5. \A j \in Slot : empty[j] = NoEntry
    OBVIOUS
  <2> HIDE DEF empty, soon
  <2>6. /\ t \in MeshType /\ t.ring = m.ring /\ t.txq = empty /\ t.until = m.until
        /\ t.silent = TRUE /\ t.soon = soon
    BY <2>3 DEF MeshType
  <2> HIDE DEF t
  <2>7. RfSilent(t, clock) /\ QueueOK(t)
    BY <2>2, <2>5, <2>6 DEF RfSilent, QueueOK
  <2>8. Good(t)
    BY <1>1, <2>4, <2>5, <2>6, <2>7 DEF Good, Core, SilentOK, Informed
  <2>9. Good(m)'
    BY <1>2, <2>1, <2>8, GoodNext
  <2>10. LoopType'
    BY <1>1, <1>4 DEF SilentFlush, LoopType
  <2>11. QED
    BY <2>9, <2>10 DEF IInv
<1>5. CASE NothingDue
  <2>1. Good(m)' /\ LoopType'
    BY <1>1, <1>2, <1>5, GoodNext DEF NothingDue, LoopType
  <2>2. QED
    BY <2>1 DEF IInv
<1>6. ASSUME NEW delay \in CadDelay, ChannelBusy(delay)
      PROVE  IInv'
  <2> DEFINE late == now + delay
             w == [e EXCEPT !.due = late]
  <2>1. Due(m, now) # {} /\ m' = BackedOff(m, i, late)
    BY <1>6 DEF ChannelBusy
  <2>2. late \in Nat
    <3>1. delay \in Nat
      BY MeshAssumption
    <3>2. QED
      BY <1>1, <3>1
  <2> HIDE DEF late
  <2>3. /\ w \in Entry /\ w.frame = e.frame /\ w.src = e.src /\ w.power = e.power
        /\ ~m.silent /\ i \in Slot /\ Sendable(e.frame, e.src, e.power)
    <3>1. e \in Entry /\ ~m.silent /\ i \in Slot /\ Sendable(e.frame, e.src, e.power)
      BY <1>3, <2>1
    <3> HIDE DEF e, i
    <3>2. w \in Entry /\ w.frame = e.frame /\ w.src = e.src /\ w.power = e.power
      BY <2>2, <3>1 DEF Entry
    <3>3. QED
      BY <3>1, <3>2
  <2>4. m' = [m EXCEPT !.txq[i] = w]
    BY <2>1 DEF BackedOff
  <2> HIDE DEF i, w
  <2>5. Keeps(m, m')
    BY <1>1, <2>3, <2>4, SlotKeeps
  <2>6. Good(m)'
    BY <1>1, <1>2, <2>5, KeepsGood, GoodNext
  <2>7. LoopType'
    BY <1>1, <1>6 DEF ChannelBusy, Count, LoopType
  <2>8. QED
    BY <2>6, <2>7 DEF IInv
<1>7. CASE Transmit
  <2>1. Due(m, now) # {} /\ m' = Freed(m, i) /\ GhostSend(e)
    BY <1>7 DEF Transmit
  <2>2. Good(m)'
    BY <1>1, <1>2, <1>3, <2>1, KeepsGood, GoodNext
  <2>3. ghost' \in GhostType
    <3>1. e \in Entry /\ (e.src = "own" => e.frame.msg.id \in OwnId)
      BY <1>3, <2>1 DEF Sendable
    <3>2. ghost \in GhostType /\ now \in Nat
      BY <1>1 DEF LoopType
    <3> HIDE DEF e
    <3>3. QED
      BY <2>1, <3>1, <3>2, GhostSendType
  <2>4. LoopType'
    BY <1>1, <1>7, <2>3 DEF Transmit, LoopType
  <2>5. QED
    BY <2>2, <2>4 DEF IInv
<1>8. CASE TransmitFails
  <2>1. Due(m, now) # {} /\ m' = Freed(m, i)
    BY <1>8 DEF TransmitFails
  <2>2. Good(m)'
    BY <1>1, <1>2, <1>3, <2>1, KeepsGood, GoodNext
  <2>3. LoopType'
    BY <1>1, <1>8 DEF TransmitFails, Count, LoopType
  <2>4. QED
    BY <2>2, <2>3 DEF IInv
<1>9. QED
  BY <1>4, <1>5, <1>6, <1>7, <1>8 DEF ServiceTx

LEMMA TimersNext ==
  ASSUME IInv, Timers
  PROVE  IInv'
<1>1. Good(m) /\ Core(m) /\ LoopType /\ clock \in Nat /\ now \in Nat
  BY DEF IInv, Good, LoopType
<1>2. PICK probe \in JitterDelay, tod \in JitterDelay, advert \in JitterDelay :
        m' = PeriodicAdvert(ServiceTimeOfDay(ServiceProbe(m, probe), tod), advert)
  BY DEF Timers
<1>3. Keeps(m, m')
  BY <1>1, <1>2, TimersKeep
<1>4. Good(m)'
  BY <1>1, <1>3, KeepsGood, GoodNext DEF Timers
<1>5. LoopType'
  BY <1>1 DEF Timers, AfterTimers, LoopType
<1>6. QED
  BY <1>4, <1>5 DEF IInv

LEMMA CliNext ==
  ASSUME IInv, Cli
  PROVE  IInv'
<1>1. Good(m) /\ Core(m) /\ LoopType /\ clock \in Nat
  BY DEF IInv, Good, LoopType
<1>2. MboxChannel \in Channel /\ JitterDelay \subseteq Nat
  BY MeshAssumption
<1>3. Keeps(m, m')
  <2>1. ASSUME NEW delay \in JitterDelay, m' = SendAdvert(m, delay)
        PROVE  Keeps(m, m')
    BY <1>1, <1>2, <2>1, SendAdvertKeeps
  <2>2. Keeps(m, StartProbe(m, MboxChannel)) /\ Keeps(m, [m EXCEPT !.probe.left = 0])
    BY <1>1, <1>2, ServiceKeeps
  <2>3. QED
    BY <2>1, <2>2 DEF Cli
<1>4. Good(m)'
  BY <1>1, <1>3, KeepsGood, GoodNext DEF Cli
<1>5. LoopType'
  BY <1>1 DEF Cli, Count, LoopType
<1>6. QED
  BY <1>4, <1>5 DEF IInv

(* backbone_service tells the hub, and the next turn of the loop begins.   *)
LEMMA HubDoneNext ==
  ASSUME IInv, HubDone
  PROVE  IInv'
<1>1. Good(m) /\ LoopType /\ m \in MeshType
  BY DEF IInv, Good, Core
<1>2. m' \in MeshType /\ m'.ring = m.ring /\ m'.txq = m.txq /\ m'.until = m.until
      /\ m'.silent = m.silent /\ ~m'.soon
  BY <1>1 DEF HubDone, MeshType
<1>3. clock' = clock /\ (told' = RfSilent(m, clock) \/ (~m.soon /\ told' = told))
  BY DEF HubDone
<1>4. Core(m)'
  BY <1>1, <1>2, <1>3 DEF Good, Core, QueueOK, SilentOK, RfSilent
<1>5. Informed(m)'
  <2>1. RfSilent(m, clock)' <=> RfSilent(m, clock)
    BY <1>2, <1>3 DEF RfSilent
  <2>2. (m.silent => RfSilent(m, clock)) /\ Informed(m)
    BY <1>1 DEF Good, Core, SilentOK
  <2>3. QED
    BY <1>2, <1>3, <2>1, <2>2 DEF Informed
<1>6. LoopType'
  <2>1. told' \in BOOLEAN
    BY <1>1, <1>3 DEF LoopType, RfSilent
  <2>2. clock' \in Nat /\ now' \in 0..clock'
    BY <1>1, <1>3 DEF HubDone, LoopType
  <2>3. pc' = "rx" /\ UNCHANGED <<radio, ghost, used>>
    BY DEF HubDone
  <2>4. QED
    BY <1>1, <2>1, <2>2, <2>3 DEF LoopType
<1>7. QED
  BY <1>4, <1>5, <1>6 DEF IInv, Good

(* Time passes: a silent hotspot stays silent.                             *)
LEMMA TickNext ==
  ASSUME IInv, Tick
  PROVE  IInv'
<1>1. Good(m) /\ LoopType /\ m \in MeshType
  BY DEF IInv, Good, Core
<1>2. m.until \in Nat /\ clock \in Nat
  BY <1>1 DEF MeshType, LoopType
<1>3. UNCHANGED <<m, told>> /\ clock' = clock + 1
  BY DEF Tick
<1>4. RfSilent(m, clock) => RfSilent(m, clock)'
  BY <1>2, <1>3 DEF RfSilent
<1>5. Core(m)' /\ Informed(m)'
  BY <1>1, <1>3, <1>4 DEF Good, Core, QueueOK, SilentOK, Informed
<1>6. LoopType'
  <2>1. now' = now /\ now \in 0..clock
    BY <1>1 DEF Tick, LoopType
  <2>2. clock' \in Nat /\ now' \in 0..clock'
    BY <1>2, <1>3, <2>1
  <2>3. UNCHANGED <<pc, radio, told, ghost, used>>
    BY DEF Tick
  <2>4. QED
    BY <1>1, <1>3, <2>2, <2>3 DEF LoopType
<1>7. QED
  BY <1>5, <1>6 DEF IInv, Good

LEMMA IInvNext == IInv /\ [Next]_vars => IInv'
<1> SUFFICES ASSUME IInv, [Next]_vars
             PROVE  IInv'
  OBVIOUS
<1>1. RfFrame \subseteq Frame /\ HubFrame \subseteq Frame /\ Echoes \subseteq Frame
  <2>1. RfFrame \subseteq Frame /\ HubFrame \subseteq Frame
    BY MeshAssumption
  <2>2. QED
    BY <2>1, EchoIsFrame DEF IInv, LoopType
<1>2. ASSUME NEW f \in RfFrame \cup Echoes, PollRx(f) \/ LinkRecv(f)
      PROVE  IInv'
  BY <1>1, <1>2, ReceiveNext DEF PollRx, LinkRecv, AfterRx
<1>3. ASSUME NEW f \in HubFrame, HubSends(f)
      PROVE  IInv'
  <2>1. CASE Recv(f, "hub")
    BY <1>1, <1>3, <2>1, ReceiveNext DEF HubSends
  <2>2. CASE UNCHANGED m
    <3>1. Good(m)'
      BY <1>3, <2>2, GoodNext DEF HubSends, IInv
    <3>2. LoopType'
      BY <1>3 DEF HubSends, Count, IInv, LoopType
    <3>3. QED
      BY <3>1, <3>2 DEF IInv
  <2>3. QED
    BY <1>3, <2>1, <2>2 DEF HubSends
<1>4. CASE PollNothing \/ LinkDone \/ CliDone \/ UNCHANGED vars
  <2>1. Good(m)'
    BY <1>4, GoodNext DEF PollNothing, LinkDone, CliDone, vars, IInv
  <2>2. LoopType'
    BY <1>4 DEF PollNothing, LinkDone, CliDone, vars, AfterRx, IInv, LoopType
  <2>3. QED
    BY <2>1, <2>2 DEF IInv
<1>5. QED
  BY <1>2, <1>3, <1>4, ServiceTxNext, TimersNext, CliNext, HubDoneNext, TickNext
  DEF Next, Step, Input

LEMMA IInvInit == Init => IInv
<1> SUFFICES ASSUME Init
             PROVE  IInv
  OBVIOUS
<1>1. clock = 0 /\ now = 0 /\ told = RfSilent(Cleared, 0)
  BY DEF Init
<1>2. Cleared \in MeshType
  <2>1. EmptyRing \in RingType(Hash, Source)
    BY EmptyRingOK
  <2>2. [i \in Slot |-> NoEntry] \in Queue
    BY DEF Queue
  <2>3. MboxChannel \in Channel
    BY MeshAssumption
  <2>4. /\ [chan |-> MboxChannel, left |-> 0, next |-> 0] \in Probing
        /\ [chan |-> MboxChannel, ask |-> {}, minute |-> 0] \in Telling
    BY <2>3 DEF Probing, Telling
  <2>5. \A S : <<>> \in Seq(S)
    OBVIOUS
  <2>6. QED
    BY <1>1, <2>1, <2>2, <2>4, <2>5 DEF Cleared, MeshType
<1>3. Good(Cleared)
  <2>1. /\ Cleared.ring = EmptyRing /\ ~Cleared.silent
        /\ \A i \in Slot : Cleared.txq[i] = NoEntry
    BY DEF Cleared
  <2>2. Core(Cleared)
    BY <1>2, <2>1, EmptyRingOK DEF Core, QueueOK, SilentOK
  <2>3. QED
    BY <1>1, <2>1, <2>2 DEF Good, Informed
<1>4. Good(m)
  <2>1. ASSUME NEW delay \in JitterDelay
        PROVE  Keeps(Cleared, SendAdvert(Cleared, delay))
    <3>1. delay \in Nat /\ clock \in Nat
      BY <1>1, MeshAssumption
    <3>2. QED
      BY <1>3, <3>1, SendAdvertKeeps DEF Good
  <2>2. QED
    BY <1>3, <2>1, KeepsGood DEF Init
<1>5. LoopType
  BY <1>1 DEF Init, LoopType, GhostType, RfSilent
<1>6. QED
  BY <1>4, <1>5 DEF IInv
----------------------------------------------------------------------------
(* What Spec guarantees, for every value of the constants.                 *)

(* Everything mesh.c and the loop keep has its type: the ring, the queue,  *)
(* the tables, and a clock the loop never runs ahead of.                   *)
THEOREM MeshTypeCorrect == Spec => []TypeOK
<1>1. IInv => TypeOK
  BY DEF IInv, LoopType, Good, Core, TypeOK
<1>2. QED
  BY IInvInit, IInvNext, <1>1, PTL DEF Spec

(* The dedup ring stays a correct ring while packets heard, packets of the *)
(* hub and messages of our own are recorded in any order                   *)
(* (seen_check_and_add).                                                   *)
THEOREM MeshRingCorrect == Spec => []SeenRingInv
<1>1. IInv => SeenRingInv
  BY DEF IInv, Good, Core, SeenRingInv
<1>2. QED
  BY IInvInit, IInvNext, <1>1, PTL DEF Spec

(* Nothing private is ever queued (classify_forward, enqueue).             *)
THEOREM OnlyPublicQueued == Spec => []QueuesPublicOnly
<1>1. IInv => QueuesPublicOnly
  BY DEF IInv, Good, Core, QueueOK, Sendable, PublicContent, QueuesPublicOnly
<1>2. QED
  BY IInvInit, IInvNext, <1>1, PTL DEF Spec

(* Nothing of the hub leaves at uplink power, nor does anything heard from *)
(* a stranger (hotspot_decide).                                            *)
THEOREM UplinkInScope == Spec => []UplinkScope
<1>1. IInv => UplinkScope
  BY DEF IInv, Good, Core, QueueOK, Sendable, UplinkScope
<1>2. QED
  BY IInvInit, IInvNext, <1>1, PTL DEF Spec

(* A hotspot that noticed its silence is silent and has an empty queue     *)
(* (mesh_rf_silent, mesh_service_tx, enqueue).                             *)
THEOREM SilentMeansEmpty == Spec => []SilentQueueEmpty
<1>1. IInv => SilentQueueEmpty
  BY DEF IInv, Good, Core, SilentOK, Free, SilentQueueEmpty
<1>2. QED
  BY IInvInit, IInvNext, <1>1, PTL DEF Spec

(* The hub is never left with a wrong rf_silent without a STATUS to come   *)
(* (backbone_status_soon).                                                 *)
THEOREM HubIsInformed == Spec => []HubInformed
<1>1. IInv => HubInformed
  BY DEF IInv, Good, Informed, HubInformed
<1>2. QED
  BY IInvInit, IInvNext, <1>1, PTL DEF Spec
----------------------------------------------------------------------------
(* The past. The argument follows the ring's log: a relay queues the record*)
(* the reception has just made, and what the node says in between is of its*)
(* own.                                                                    *)

\* What this node originates is never first learned from the hub.
OwnRecords(s) ==
  \A k \in 1..Len(s.ring.log) :
    s.ring.log[k].hash[1] \in OwnId => s.ring.log[k].src # "hub"

\* Every queued packet is recorded, and one offered to the hub did not come from it.
HistRecorded(s) ==
  \A i \in 1..Len(s.hist) :
    /\ s.hist[i].at \in 1..Len(s.ring.log)
    /\ s.ring.log[s.hist[i].at].hash = s.hist[i].hash
    /\ s.hist[i].offered => s.ring.log[s.hist[i].at].src # "hub"

OnceEach(s) ==
  \A i, j \in 1..Len(s.hist) :
    i < j /\ s.hist[i].hash = s.hist[j].hash /\ s.hist[j].src # "own"
      => s.hist[j].at - s.hist[i].at > SeenSize

HistOK(s) == OwnRecords(s) /\ HistRecorded(s) /\ OnceEach(s)

\* t is s with records and queued packets of our own added.
Grown(s, t) ==
  /\ Len(s.ring.log) <= Len(t.ring.log) /\ Len(s.hist) <= Len(t.hist)
  /\ \A k \in 1..Len(s.ring.log) : t.ring.log[k] = s.ring.log[k]
  /\ \A i \in 1..Len(s.hist) : t.hist[i] = s.hist[i]
  /\ \A k \in 1..Len(t.ring.log) : k > Len(s.ring.log) => t.ring.log[k].hash[1] \in OwnId
  /\ \A i \in 1..Len(t.hist) : i > Len(s.hist) => t.hist[i].hash[1] \in OwnId

\* The packet received was recorded as n, the latest of its hash, and is not queued yet.
Fresh(s, h, src, n) ==
  /\ n \in 1..Len(s.ring.log)
  /\ s.ring.log[n].hash = h /\ s.ring.log[n].src = src
  /\ \A k \in 1..Len(s.ring.log) : s.ring.log[k].hash = h => k <= n
  /\ \A i \in 1..Len(s.hist) : s.hist[i].hash = h => s.hist[i].at < n
----------------------------------------------------------------------------
(* The log and the history are sequences.                                  *)
LEMMA LogType ==
  ASSUME NEW s, Core(s)
  PROVE  /\ s \in MeshType /\ RingOK(s.ring) /\ s.ring \in RingType(Hash, Source)
         /\ s.ring.log \in Seq(LogEntry(Hash, Source)) /\ Len(s.ring.log) \in Nat
         /\ s.hist \in Seq(Queued) /\ Len(s.hist) \in Nat
BY DEF Core, MeshType, RingType

LEMMA Between ==
  ASSUME NEW a \in Nat, NEW b \in Nat, NEW c \in Nat, a <= b, b <= c
  PROVE  a <= c /\ \A k \in 1..a : k \in 1..b
OBVIOUS

LEMMA GrownTwice ==
  ASSUME NEW s, Core(s), NEW t, Core(t), NEW u, Core(u), Grown(s, t), Grown(t, u)
  PROVE  Grown(s, u)
<1> DEFINE a == Len(s.ring.log)
           b == Len(t.ring.log)
           c == Len(u.ring.log)
           x == Len(s.hist)
           y == Len(t.hist)
           z == Len(u.hist)
<1>1. a \in Nat /\ b \in Nat /\ c \in Nat /\ x \in Nat /\ y \in Nat /\ z \in Nat
  BY LogType
<1>2. /\ a <= b /\ x <= y /\ b <= c /\ y <= z
      /\ \A k \in 1..a : t.ring.log[k] = s.ring.log[k]
      /\ \A k \in 1..b : u.ring.log[k] = t.ring.log[k]
      /\ \A k \in 1..b : k > a => t.ring.log[k].hash[1] \in OwnId
      /\ \A k \in 1..c : k > b => u.ring.log[k].hash[1] \in OwnId
      /\ \A i \in 1..x : t.hist[i] = s.hist[i]
      /\ \A i \in 1..y : u.hist[i] = t.hist[i]
      /\ \A i \in 1..y : i > x => t.hist[i].hash[1] \in OwnId
      /\ \A i \in 1..z : i > y => u.hist[i].hash[1] \in OwnId
  BY DEF Grown
<1> SUFFICES /\ a <= c /\ x <= z
             /\ \A k \in 1..a : u.ring.log[k] = s.ring.log[k]
             /\ \A i \in 1..x : u.hist[i] = s.hist[i]
             /\ \A k \in 1..c : k > a => u.ring.log[k].hash[1] \in OwnId
             /\ \A i \in 1..z : i > x => u.hist[i].hash[1] \in OwnId
  BY DEF Grown
<1> HIDE DEF a, b, c, x, y, z
<1>3. a <= c /\ x <= z
  BY <1>1, <1>2, Between
<1>4. \A k \in 1..a : u.ring.log[k] = s.ring.log[k]
  BY <1>1, <1>2
<1>5. \A i \in 1..x : u.hist[i] = s.hist[i]
  BY <1>1, <1>2
<1>6. \A k \in 1..c : k > a => u.ring.log[k].hash[1] \in OwnId
  BY <1>1, <1>2
<1>7. \A i \in 1..z : i > x => u.hist[i].hash[1] \in OwnId
  BY <1>1, <1>2
<1>8. QED
  BY <1>3, <1>4, <1>5, <1>6, <1>7

\* What neither records nor queues.
SameHist(s, t) == t.ring = s.ring /\ t.hist = s.hist /\ t.txq = s.txq

LEMMA SameHistGrows ==
  ASSUME NEW s, Core(s), HistOK(s), NEW t, SameHist(s, t)
  PROVE  HistOK(t) /\ Grown(s, t)
<1>1. Len(s.ring.log) \in Nat /\ Len(s.hist) \in Nat
  BY LogType
<1>2. Grown(s, t)
  BY <1>1 DEF SameHist, Grown
<1>3. HistOK(t)
  BY DEF SameHist, HistOK, OwnRecords, HistRecorded, OnceEach
<1>4. QED
  BY <1>2, <1>3

(* The latest record of a hash that has one.                               *)
LEMMA LatestRecordIs ==
  ASSUME NEW s, Core(s), NEW h, NEW k \in 1..Len(s.ring.log), s.ring.log[k].hash = h
  PROVE  /\ LatestRecord(s, h) \in 1..Len(s.ring.log)
         /\ s.ring.log[LatestRecord(s, h)].hash = h
         /\ \A j \in 1..Len(s.ring.log) : s.ring.log[j].hash = h => j <= LatestRecord(s, h)
<1> DEFINE n == Len(s.ring.log)
           at == {i \in 1..n : s.ring.log[i].hash = h}
<1>1. n \in Nat /\ at \in SUBSET (1..n) /\ at # {}
  BY LogType
<1>2. LatestRecord(s, h) = CHOOSE i \in at : \A j \in at : j <= i
  BY <1>1 DEF LatestRecord
<1>3. \A j \in 1..n : s.ring.log[j].hash = h <=> j \in at
  OBVIOUS
<1> HIDE DEF n, at
<1>4. \E i \in at : \A j \in at : j <= i
  BY <1>1, HasGreatest
<1>5. LatestRecord(s, h) \in at /\ \A j \in at : j <= LatestRecord(s, h)
  BY <1>2, <1>4
<1>6. QED
  BY <1>1, <1>3, <1>5 DEF n

\* seen_check_and_add of a hash that is known leaves the state alone; else the
\* log is one longer.
Logged(s, t, h, src) ==
  /\ t.hist = s.hist /\ t.txq = s.txq
  /\ Seen(s.ring, h) => t.ring = s.ring
  /\ ~Seen(s.ring, h) =>
       /\ Len(t.ring.log) = Len(s.ring.log) + 1
       /\ t.ring.log[Len(s.ring.log) + 1].hash = h
       /\ t.ring.log[Len(s.ring.log) + 1].src = src
       /\ \A k \in 1..Len(s.ring.log) : t.ring.log[k] = s.ring.log[k]

LEMMA RecordedIs ==
  ASSUME NEW s, Core(s), NEW f \in Frame, NEW src \in Source
  PROVE  Logged(s, Recorded(s, f, src), HashOf(f), src)
<1> DEFINE h == HashOf(f)
           r == SeenAdd(s.ring, h, src)
           t == Recorded(s, f, src)
<1>1. /\ s \in MeshType /\ s.ring.log \in Seq(LogEntry(Hash, Source))
      /\ Len(s.ring.log) \in Nat
  BY LogType
<1>2. t = [s EXCEPT !.ring = r]
  BY DEF Recorded
<1>3. [hash |-> h, src |-> src] \in LogEntry(Hash, Source)
  BY HashOfIsHash DEF LogEntry
<1>4. Seen(s.ring, h) => r = s.ring
  BY DEF SeenAdd
<1>5. ~Seen(s.ring, h) => r.log = Append(s.ring.log, [hash |-> h, src |-> src])
  BY DEF SeenAdd, Record
<1> HIDE DEF r
<1>6. t.ring = r /\ t.hist = s.hist /\ t.txq = s.txq
  BY <1>1, <1>2 DEF MeshType
<1>7. ~Seen(s.ring, h) =>
        /\ Len(r.log) = Len(s.ring.log) + 1
        /\ r.log[Len(s.ring.log) + 1] = [hash |-> h, src |-> src]
        /\ \A k \in 1..Len(s.ring.log) : r.log[k] = s.ring.log[k]
  BY <1>1, <1>3, <1>5
<1> HIDE DEF t, r
<1>8. QED
  BY <1>4, <1>6, <1>7 DEF Logged, h, t

(* After it, the hash has a record.                                        *)
LEMMA RecordedHasRecord ==
  ASSUME NEW s, Core(s), NEW f \in Frame, NEW src \in Source,
         NEW t, t = Recorded(s, f, src)
  PROVE  \E k \in 1..Len(t.ring.log) : t.ring.log[k].hash = HashOf(f)
<1>1. s.ring \in RingType(Hash, Source) /\ RingIsTail(s.ring) /\ Len(s.ring.log) \in Nat
  BY LogType DEF RingOK
<1> DEFINE h == HashOf(f)
           n == Len(s.ring.log)
<1>2. Logged(s, t, h, src)
  BY RecordedIs
<1>3. Seen(s.ring, h) => \E k \in 1..n : s.ring.log[k].hash = h
  BY <1>1, HashOfIsHash, SeenIsRecent, EmptyAssumption
<1> HIDE DEF h
<1>4. CASE Seen(s.ring, h)
  BY <1>2, <1>3, <1>4 DEF h, Logged
<1>5. CASE ~Seen(s.ring, h)
  <2>1. Len(t.ring.log) = n + 1 /\ t.ring.log[n + 1].hash = h
    BY <1>2, <1>5 DEF Logged
  <2>2. n + 1 \in 1..Len(t.ring.log)
    BY <1>1, <2>1
  <2>3. QED
    BY <2>1, <2>2 DEF h
<1>6. QED
  BY <1>4, <1>5
----------------------------------------------------------------------------
(* Recording keeps the history.                                            *)
LEMMA RecordedHist ==
  ASSUME NEW s, Core(s), HistOK(s), NEW f \in Frame, NEW src \in Source,
         f.msg.id \in OwnId => src # "hub", NEW t, t = Recorded(s, f, src)
  PROVE  HistOK(t) /\ (f.msg.id \in OwnId => Grown(s, t))
<1> DEFINE h == HashOf(f)
           n == Len(s.ring.log)
<1>1. n \in Nat /\ Len(s.hist) \in Nat
  BY LogType
<1> h[1] = f.msg.id
  BY DEF HashOf
<1>2. Logged(s, t, h, src) /\ t.hist = s.hist
  BY RecordedIs DEF Logged
<1>3. /\ OwnRecords(s) /\ HistRecorded(s) /\ OnceEach(s)
  BY DEF HistOK
<1> HIDE DEF h, n
<1>4. CASE Seen(s.ring, h)
  <2>1. SameHist(s, t)
    BY <1>2, <1>4 DEF SameHist, Logged
  <2>2. QED
    BY <2>1, SameHistGrows
<1>5. CASE ~Seen(s.ring, h)
  <2>1. /\ Len(t.ring.log) = n + 1
        /\ t.ring.log[n + 1].hash = h /\ t.ring.log[n + 1].src = src
        /\ \A k \in 1..n : t.ring.log[k] = s.ring.log[k]
    BY <1>2, <1>5 DEF Logged, n
  <2>2. OwnRecords(t)
    <3> SUFFICES ASSUME NEW k \in 1..n + 1, t.ring.log[k].hash[1] \in OwnId
                 PROVE  t.ring.log[k].src # "hub"
      BY <2>1 DEF OwnRecords
    <3>1. CASE k = n + 1
      BY <1>1, <2>1, <3>1
    <3>2. CASE k \in 1..n
      BY <1>3, <2>1, <3>2 DEF OwnRecords, n
    <3>3. QED
      BY <1>1, <3>1, <3>2
  <2>3. HistRecorded(t)
    <3> SUFFICES ASSUME NEW i \in 1..Len(t.hist)
                 PROVE  /\ t.hist[i].at \in 1..Len(t.ring.log)
                        /\ t.ring.log[t.hist[i].at].hash = t.hist[i].hash
                        /\ t.hist[i].offered => t.ring.log[t.hist[i].at].src # "hub"
      BY DEF HistRecorded
    <3>1. s.hist[i].at \in 1..n /\ s.hist[i].at \in 1..n + 1 /\ i \in 1..Len(s.hist)
      BY <1>1, <1>2, <1>3 DEF HistRecorded, n
    <3>2. t.ring.log[s.hist[i].at] = s.ring.log[s.hist[i].at]
      BY <2>1, <3>1
    <3>3. QED
      BY <1>2, <1>3, <2>1, <3>1, <3>2 DEF HistRecorded
  <2>4. OnceEach(t)
    BY <1>2, <1>3 DEF OnceEach
  <2>5. ASSUME f.msg.id \in OwnId
        PROVE  Grown(s, t)
    <3>1. \A k \in 1..n + 1 : k > n => t.ring.log[k].hash[1] \in OwnId
      BY <1>1, <2>1, <2>5
    <3>2. n <= n + 1 /\ Len(s.hist) <= Len(s.hist)
          /\ \A i \in 1..Len(s.hist) : ~(i > Len(s.hist))
      BY <1>1
    <3>3. QED
      BY <1>2, <2>1, <3>1, <3>2 DEF Grown, n
  <2>6. QED
    BY <2>2, <2>3, <2>4, <2>5 DEF HistOK
<1>6. QED
  BY <1>4, <1>5

(* enqueue: the packet is the latest record of its hash, from elsewhere    *)
(* than the hub if it is offered, and every earlier one of the same hash   *)
(* that is to be relayed lies a whole ring before it.                      *)
LEMMA PutHist ==
  ASSUME NEW s, Core(s), HistOK(s),
         NEW f \in Frame, NEW src \in Source, NEW prio, NEW delay, NEW power,
         NEW n \in 1..Len(s.ring.log), n = LatestRecord(s, HashOf(f)),
         s.ring.log[n].hash = HashOf(f),
         src # "hub" => s.ring.log[n].src # "hub",
         \A i \in 1..Len(s.hist) :
           src # "own" /\ s.hist[i].hash = HashOf(f) => n - s.hist[i].at > SeenSize,
         NEW t, t = Put(s, f, src, prio, delay, power)
  PROVE  HistOK(t) /\ (f.msg.id \in OwnId => Grown(s, t))
<1> DEFINE h == HashOf(f)
           x == Len(s.hist)
           g == [hash |-> h, at |-> n, src |-> src, offered |-> Offered(f, src)]
<1>1. /\ s \in MeshType /\ Len(s.ring.log) \in Nat /\ s.hist \in Seq(Queued) /\ x \in Nat
  BY LogType
<1> h[1] = f.msg.id
  BY DEF HashOf
<1>2. HistOK(s) /\ HistRecorded(s) /\ OnceEach(s) /\ OwnRecords(s)
  BY DEF HistOK
<1>3. t = s \/ (t.ring = s.ring /\ t.hist = Append(s.hist, g))
  <2> HIDE DEF g
  <2>1. \A q, y : LET u == [s EXCEPT !.txq = q, !.hist = y]
                  IN u.ring = s.ring /\ u.hist = y
    BY <1>1 DEF MeshType
  <2>2. t = s \/ \E q : t = [s EXCEPT !.txq = q, !.hist = Append(s.hist, g)]
    BY DEF Put, g
  <2>3. ASSUME NEW q, t = [s EXCEPT !.txq = q, !.hist = Append(s.hist, g)]
        PROVE  t.ring = s.ring /\ t.hist = Append(s.hist, g)
    BY <2>1, <2>3
  <2>4. QED
    BY <2>2, <2>3
<1>4. CASE t = s
  <2>1. SameHist(s, t)
    BY <1>4 DEF SameHist
  <2>2. QED
    BY <2>1, SameHistGrows
<1>5. CASE t.ring = s.ring /\ t.hist = Append(s.hist, g)
  <2>1. g \in Queued
    BY <1>1, HashOfIsHash DEF Queued, Offered
  <2>2. /\ g.hash = h /\ g.at = n /\ g.src = src /\ (g.offered => src # "hub")
    BY DEF Offered
  <2> HIDE DEF g, h, x
  <2>3. /\ Len(t.hist) = x + 1 /\ t.hist[x + 1] = g
        /\ \A i \in 1..x : t.hist[i] = s.hist[i]
    BY <1>1, <1>5, <2>1 DEF x
  <2>4. OwnRecords(t)
    BY <1>2, <1>5 DEF OwnRecords
  <2>5. HistRecorded(t)
    <3> SUFFICES ASSUME NEW i \in 1..x + 1
                 PROVE  /\ t.hist[i].at \in 1..Len(s.ring.log)
                        /\ s.ring.log[t.hist[i].at].hash = t.hist[i].hash
                        /\ t.hist[i].offered => s.ring.log[t.hist[i].at].src # "hub"
      BY <1>5, <2>3 DEF HistRecorded
    <3>1. CASE i = x + 1
      BY <2>2, <2>3, <3>1 DEF h
    <3>2. CASE i \in 1..x
      BY <1>2, <2>3, <3>2 DEF HistRecorded, x
    <3>3. QED
      BY <1>1, <3>1, <3>2
  <2>6. OnceEach(t)
    <3> SUFFICES ASSUME NEW i \in 1..x + 1, NEW j \in 1..x + 1, i < j,
                        t.hist[i].hash = t.hist[j].hash, t.hist[j].src # "own"
                 PROVE  t.hist[j].at - t.hist[i].at > SeenSize
      BY <2>3 DEF OnceEach
    <3>1. i \in 1..x /\ (j = x + 1 \/ j \in 1..x)
      BY <1>1
    <3>2. CASE j = x + 1
      BY <2>2, <2>3, <3>1, <3>2 DEF h, x
    <3>3. CASE j \in 1..x
      BY <1>2, <2>3, <3>1, <3>3 DEF OnceEach, x
    <3>4. QED
      BY <3>1, <3>2, <3>3
  <2>7. ASSUME f.msg.id \in OwnId
        PROVE  Grown(s, t)
    <3>1. \A i \in 1..x + 1 : i > x => t.hist[i].hash[1] \in OwnId
      BY <1>1, <2>2, <2>3, <2>7
    <3>2. /\ x <= x + 1 /\ Len(s.ring.log) <= Len(s.ring.log)
          /\ \A k \in 1..Len(s.ring.log) : ~(k > Len(s.ring.log))
      BY <1>1
    <3>3. QED
      BY <1>5, <2>3, <3>1, <3>2 DEF Grown, x
  <2>8. QED
    BY <2>4, <2>5, <2>6, <2>7 DEF HistOK
<1>6. QED
  BY <1>3, <1>4, <1>5
----------------------------------------------------------------------------
(* What the node says of its own accord only adds to the history.          *)

\* The slots of the queue that the hub's frames take.
HubSlots(s) == {i \in Slot : s.txq[i] # NoEntry /\ s.txq[i].src = "hub"}

Adds(s, t) == Core(t) /\ HistOK(t) /\ Grown(s, t) /\ HubSlots(t) \subseteq HubSlots(s)

LEMMA AddsTwice ==
  ASSUME NEW s, Core(s), NEW t, NEW u, Adds(s, t), Adds(t, u)
  PROVE  Adds(s, u)
BY GrownTwice DEF Adds

LEMMA AddsNothing ==
  ASSUME NEW s, Core(s), HistOK(s), NEW t, Core(t), SameHist(s, t)
  PROVE  Adds(s, t)
BY SameHistGrows DEF Adds, SameHist, HubSlots

(* enqueue: one slot more, and it is the hub's only if the packet is.      *)
LEMMA PutTakesOne ==
  ASSUME NEW s, Core(s), NEW f, NEW src \in Source, NEW prio, NEW delay, NEW power,
         NEW t, t = Put(s, f, src, prio, delay, power)
  PROVE  /\ \E i : HubSlots(t) \subseteq HubSlots(s) \cup {i}
         /\ src # "hub" => HubSlots(t) \subseteq HubSlots(s)
<1> DEFINE i == MinOf(Free(s))
           e == [frame |-> f, src |-> src, prio |-> prio, due |-> clock + delay, power |-> power]
<1>1. s \in MeshType /\ s.txq \in [Slot -> Entry \cup {NoEntry}]
  BY DEF Core, MeshType, Queue
<1>2. e.src = src
  OBVIOUS
<1>3. t = s \/ \E y : t = [s EXCEPT !.txq[i] = e, !.hist = y]
  BY DEF Put
<1> HIDE DEF e, i
<1>4. t = s \/ t.txq = [s.txq EXCEPT ![i] = e]
  BY <1>1, <1>3 DEF MeshType
<1>5. \A j \in Slot : t.txq[j] = s.txq[j] \/ (j = i /\ t.txq[j] = e)
  BY <1>1, <1>4
<1>6. /\ HubSlots(t) \subseteq HubSlots(s) \cup {i}
      /\ src # "hub" => HubSlots(t) \subseteq HubSlots(s)
  BY <1>2, <1>5 DEF HubSlots
<1>7. QED
  BY <1>6

(* A message of our own is recorded, then queued.                          *)
LEMMA OwnAdds ==
  ASSUME NEW s, Core(s), HistOK(s), clock \in Nat,
         NEW f \in Frame, Sendable(f, "own", OwnPower), NEW prio \in Nat, NEW delay \in Nat,
         NEW r, r = Recorded(s, f, "own"),
         NEW t, t = Put(r, f, "own", prio, delay, OwnPower)
  PROVE  Adds(s, r) /\ Adds(s, t)
<1> DEFINE h == HashOf(f)
           n == LatestRecord(r, h)
<1>1. "own" \in Source /\ "own" # "hub" /\ f.msg.id \in OwnId /\ h[1] = f.msg.id
  BY DEF Source, Sendable, HashOf
<1>2. Core(r)
  BY <1>1, RecordedKeeps DEF Keeps
<1>3. Core(t)
  BY <1>1, <1>2, PutKeeps, OwnPowerIsPower DEF Keeps
<1>4. HistOK(r) /\ Grown(s, r)
  BY <1>1, RecordedHist
<1>5. PICK k \in 1..Len(r.ring.log) : r.ring.log[k].hash = h
  BY <1>1, RecordedHasRecord
<1>6. n \in 1..Len(r.ring.log) /\ r.ring.log[n].hash = h
  BY <1>2, <1>5, LatestRecordIs
<1>7. r.ring.log[n].src # "hub"
  BY <1>1, <1>4, <1>6 DEF HistOK, OwnRecords
<1>8. HistOK(t) /\ Grown(r, t)
  BY <1>1, <1>2, <1>4, <1>6, <1>7, PutHist
<1>9. Adds(s, r) /\ Adds(r, t)
  <2>1. HubSlots(r) \subseteq HubSlots(s)
    BY <1>1, RecordedIs DEF Logged, HubSlots
  <2> HIDE DEF h, n
  <2>2. HubSlots(t) \subseteq HubSlots(r)
    BY <1>1, <1>2, PutTakesOne
  <2>3. QED
    BY <1>2, <1>3, <1>4, <1>8, <2>1, <2>2 DEF Adds
<1>10. QED
  BY <1>9, AddsTwice

LEMMA SendAdvertAdds ==
  ASSUME NEW s, Core(s), HistOK(s), clock \in Nat, NEW delay \in Nat
  PROVE  Adds(s, SendAdvert(s, delay))
<1> DEFINE f == OwnFrame("advert", "", "unknown", clock, "flood", <<>>, 1)
           r == Recorded(s, f, "own")
           p == Put(r, f, "own", 0, delay, OwnPower)
           t == [p EXCEPT !.last_advert = clock]
<1>1. f \in Frame /\ Sendable(f, "own", OwnPower)
  <2>1. /\ "advert" \in OwnKind /\ "unknown" \in Channel \cup {"unknown"}
        /\ "flood" \in {"flood", "direct"} /\ 1 \in 1..3
    BY DEF OwnKind
  <2>2. QED
    BY <2>1, NothingIsNamed, OwnFrameIsFrame, OwnSendable
<1>2. SendAdvert(s, delay) \in {s, r, t}
  BY DEF SendAdvert
<1>3. Core(SendAdvert(s, delay))
  BY SendAdvertKeeps DEF Keeps
<1> HIDE DEF f
<1>4. Adds(s, r) /\ Adds(s, p)
  <2>1. 0 \in Nat
    OBVIOUS
  <2>2. QED
    BY <1>1, <2>1, OwnAdds
<1> HIDE DEF r, p
<1>5. Adds(s, s)
  BY AddsNothing DEF SameHist
<1>6. SameHist(p, t)
  BY <1>4 DEF Adds, Core, MeshType, SameHist
<1> HIDE DEF t
<1>7. CASE SendAdvert(s, delay) = t
  BY <1>3, <1>4, <1>6, <1>7, AddsNothing, AddsTwice DEF Adds
<1>8. QED
  BY <1>2, <1>4, <1>5, <1>7

LEMMA AnnounceAdds ==
  ASSUME NEW s, Core(s), HistOK(s), clock \in Nat, NEW delay \in Nat,
         NEW kind \in OwnKind \ {"advert"}, NEW chan \in Channel
  PROVE  Adds(s, Announce(s, kind, chan, delay))
<1> DEFINE f == OwnFrame(kind, "", chan, clock, "flood", <<>>, 1)
<1>1. /\ kind \in OwnKind /\ kind # "advert" /\ chan \in Channel \cup {"unknown"}
      /\ "flood" \in {"flood", "direct"} /\ 1 \in 1..3 /\ 1 \in Nat
  OBVIOUS
<1>2. f \in Frame
  BY <1>1, NothingIsNamed, OwnFrameIsFrame
<1>3. Sendable(f, "own", OwnPower)
  BY <1>1, NothingIsNamed, OwnSendable
<1> HIDE DEF f
<1>4. QED
  BY <1>1, <1>2, <1>3, OwnAdds DEF Announce, Say, f

LEMMA ReplyToAdds ==
  ASSUME NEW s, Core(s), HistOK(s), clock \in Nat, NEW delay \in Nat,
         NEW f \in Frame, f.msg.chan \in Channel
  PROVE  Adds(s, ReplyTo(s, f, delay))
<1> DEFINE r == OwnFrame("reply", f.msg.sender, f.msg.chan, clock, "direct",
                         Reversed(f.path), f.hs)
<1>1. /\ f.msg.sender \in Name /\ f.hs \in 1..3 /\ f.path \in Seq(Node)
      /\ "reply" \in OwnKind /\ 1 \in Nat
  BY DEF Frame, Message, OwnKind
<1>2. Reversed(f.path) \in Seq(Node)
  BY <1>1, ReversedIsPath
<1>3. r \in Frame /\ Sendable(r, "own", OwnPower)
  BY <1>1, <1>2, OwnFrameIsFrame, OwnSendable
<1> HIDE DEF r
<1>4. QED
  BY <1>1, <1>3, OwnAdds DEF ReplyTo, Say, r
----------------------------------------------------------------------------
(* What a received frame teaches the node, and what it answers.            *)

(* Learning of a neighbour records and queues nothing.                     *)
LEMMA LearningIsSilent ==
  ASSUME NEW s, Core(s), NEW f
  PROVE  SameHist(s, NoteNeighbor(s, f)) /\ SameHist(s, LearnAffinity(s, f))
<1>1. s \in MeshType
  BY DEF Core
<1>2. \A x : /\ SameHist(s, [s EXCEPT !.neighbors = x])
             /\ SameHist(s, [s EXCEPT !.affinity = x])
  BY <1>1 DEF MeshType, SameHist
<1>3. \E x : NoteNeighbor(s, f) = [s EXCEPT !.neighbors = x]
  BY DEF NoteNeighbor
<1>4. LearnAffinity(s, f) = s \/ \E x : LearnAffinity(s, f) = [s EXCEPT !.affinity = x]
  BY DEF LearnAffinity
<1>5. SameHist(s, s)
  BY DEF SameHist
<1>6. QED
  BY <1>2, <1>3, <1>4, <1>5

(* hotspot_wake: at most an advert of our own.                             *)
LEMMA WakeAdds ==
  ASSUME NEW s, Good(s), HistOK(s), clock \in Nat, NEW f, NEW d \in Delays
  PROVE  Adds(s, Wake(s, f, d))
<1> DEFINE late == clock + Awake
           w == [s EXCEPT !.until = late]
           u == [w EXCEPT !.silent = FALSE]
           v == SendAdvert(u, d.jitter)
           b == [v EXCEPT !.soon = TRUE]
<1>1. s \in MeshType /\ Core(s) /\ d.jitter \in Nat
  BY DelaysAreNat DEF Good, Core
<1>2. late \in Nat
  <2>1. Awake \in Nat
    BY MeshAssumption
  <2>2. QED
    BY <2>1
<1>3. Core(Wake(s, f, d))
  BY WakeGood DEF Good
<1>4. Wake(s, f, d) \in {s, w, b}
  BY DEF Wake, BackOnAir
<1> HIDE DEF late
<1>5. w \in MeshType /\ SameHist(s, w) /\ w.txq = s.txq
  BY <1>1, <1>2 DEF MeshType, SameHist
<1>6. SameHist(s, s)
  BY DEF SameHist
<1> HIDE DEF w
<1>7. CASE Wake(s, f, d) = b
  <2>1. u \in MeshType /\ SameHist(s, u) /\ u.txq = s.txq /\ ~u.silent
    BY <1>5 DEF MeshType, SameHist
  <2> HIDE DEF u
  <2>2. Core(u)
    BY <1>1, <2>1 DEF SameHist, Core, QueueOK, SilentOK
  <2>3. Adds(s, u)
    BY <1>1, <2>1, <2>2, AddsNothing
  <2>4. Adds(u, v)
    BY <1>1, <2>2, <2>3, SendAdvertAdds DEF Adds
  <2> HIDE DEF v
  <2>5. Core(v) /\ HistOK(v) /\ SameHist(v, b)
    BY <2>4 DEF Adds, Core, MeshType, SameHist
  <2> HIDE DEF b
  <2>6. Adds(v, b)
    BY <1>3, <1>7, <2>5, AddsNothing
  <2>7. QED
    BY <1>1, <1>7, <2>2, <2>3, <2>4, <2>6, AddsTwice
<1> HIDE DEF b
<1>8. CASE Wake(s, f, d) \in {s, w}
  BY <1>1, <1>3, <1>5, <1>6, <1>8, AddsNothing
<1>9. QED
  BY <1>4, <1>7, <1>8

LEMMA LearnAdds ==
  ASSUME NEW s, Good(s), HistOK(s), clock \in Nat, NEW f \in Frame, NEW src, NEW d \in Delays
  PROVE  Adds(s, Learn(s, f, src, d))
<1> DEFINE n == NoteNeighbor(s, f)
           l == LearnAffinity(n, f)
           w == Wake(l, f, d)
<1>1. Core(s) /\ Keeps(s, n) /\ SameHist(s, n)
  BY NoteNeighborKeeps, LearningIsSilent DEF Good
<1>2. Learn(s, f, src, d) \in {s, l, w}
  BY DEF Learn
<1> HIDE DEF n
<1>3. Good(n) /\ Core(n) /\ Adds(s, n)
  BY <1>1, KeepsGood, AddsNothing DEF Keeps
<1>4. Keeps(n, l) /\ SameHist(n, l)
  BY <1>3, LearnAffinityKeeps, LearningIsSilent
<1> HIDE DEF l
<1>5. Good(l) /\ Core(l) /\ Adds(n, l)
  BY <1>3, <1>4, KeepsGood, AddsNothing DEF Keeps, Adds
<1>6. Adds(s, l)
  BY <1>1, <1>3, <1>5, AddsTwice
<1>7. Adds(l, w)
  BY <1>5, WakeAdds DEF Adds
<1> HIDE DEF w
<1>8. Adds(s, w)
  BY <1>1, <1>6, <1>7, AddsTwice
<1>9. Adds(s, s)
  BY <1>1, AddsNothing DEF SameHist
<1>10. QED
  BY <1>2, <1>6, <1>8, <1>9

(* process_public_grp and mbox_handle: at most one message of our own.     *)
LEMMA AnswerAdds ==
  ASSUME NEW s, Core(s), HistOK(s), clock \in Nat, NEW f \in Frame, f.msg.chan \in Channel,
         NEW d \in Delays
  PROVE  Adds(s, Answer(s, f, d))
<1> DEFINE chan == f.msg.chan
           call == BaseCall[f.msg.sender]
           pong == Announce(s, "pong", chan, d.reply)
           help == Announce(s, "help", chan, d.reply)
           told_ == [help EXCEPT !.help = clock + HelpCooldown]
           gates == CloseGate(s.gates, call, clock)
           shut == [s EXCEPT !.gates = gates]
           reply == ReplyTo(shut, f, d.reply)
           a == Answer(s, f, d)
<1>1. s \in MeshType /\ d.reply \in Nat /\ Core(a)
  BY DelaysAreNat, AnswerKeeps DEF Core, Keeps
<1>2. Adds(s, pong) /\ Adds(s, help)
  <2>1. "pong" \in OwnKind \ {"advert"} /\ "help" \in OwnKind \ {"advert"}
    BY DEF OwnKind
  <2>2. QED
    BY <1>1, <2>1, AnnounceAdds
<1>3. Core(shut) /\ SameHist(s, shut)
  BY <1>1, MailboxKeeps DEF Keeps, MeshType, SameHist
<1>4. \/ a \in {pong, told_, reply}
      \/ \E x : a = [s EXCEPT !.probe = x] \/ a = [s EXCEPT !.tod = x] \/ a = [s EXCEPT !.box = x]
      \/ a = s
  BY DEF Answer, StartProbe, ArmTod
<1>5. SameHist(help, told_)
  BY <1>2 DEF Adds, Core, MeshType, SameHist
<1> SUFFICES Adds(s, a)
  OBVIOUS
<1> HIDE DEF pong, help, told_, gates, shut, a
<1>6. Adds(s, shut) /\ Adds(shut, reply)
  <2>1. Adds(s, shut)
    BY <1>3, AddsNothing
  <2>2. QED
    BY <1>1, <2>1, ReplyToAdds DEF Adds
<1>7. Adds(s, reply)
  BY <1>6, AddsTwice
<1> HIDE DEF reply
<1>8. CASE a = told_
  <2>1. Core(help) /\ HistOK(help) /\ Core(told_)
    BY <1>1, <1>2, <1>8 DEF Adds
  <2>2. Adds(help, told_)
    BY <1>5, <2>1, AddsNothing
  <2>3. QED
    BY <1>2, <1>8, <2>2, AddsTwice
<1>9. CASE SameHist(s, a)
  BY <1>1, <1>9, AddsNothing
<1>10. \A x : /\ SameHist(s, [s EXCEPT !.probe = x]) /\ SameHist(s, [s EXCEPT !.tod = x])
              /\ SameHist(s, [s EXCEPT !.box = x]) /\ SameHist(s, s)
  BY <1>1 DEF MeshType, SameHist
<1>11. QED
  BY <1>2, <1>4, <1>7, <1>8, <1>9, <1>10

LEMMA AttendAdds ==
  ASSUME NEW s, Good(s), HistOK(s), clock \in Nat, NEW f \in Frame, f.msg.chan \in Channel,
         NEW src, NEW d \in Delays
  PROVE  Adds(s, Attend(s, f, src, d))
<1> DEFINE w == Wake(s, f, d)
<1>1. Core(s) /\ Adds(s, w) /\ Adds(s, s)
  BY WakeAdds, AddsNothing DEF Good, SameHist
<1>2. Attend(s, f, src, d) \in {s, Answer(w, f, d)}
  BY DEF Attend
<1> HIDE DEF w
<1>3. Adds(w, Answer(w, f, d))
  BY <1>1, AnswerAdds DEF Adds
<1>4. QED
  BY <1>1, <1>2, <1>3, AddsTwice
----------------------------------------------------------------------------
(* The timers of the loop, and the local operator.                         *)
LEMMA ServiceProbeAdds ==
  ASSUME NEW s, Core(s), HistOK(s), clock \in Nat, now \in Nat, NEW delay \in Nat
  PROVE  Adds(s, ServiceProbe(s, delay))
<1> DEFINE a == Announce(s, "probe", s.probe.chan, delay)
           left == s.probe.left - 1
           next == now + ProbeInterval
           t == [a EXCEPT !.probe.left = left, !.probe.next = next]
           quiet == [s EXCEPT !.probe.left = 0]
<1>1. s \in MeshType /\ s.probe \in Probing /\ s.probe.chan \in Channel /\ s.probe.left \in Nat
  BY DEF Core, MeshType, Probing
<1>2. Adds(s, a)
  <2>1. "probe" \in OwnKind \ {"advert"}
    BY DEF OwnKind
  <2>2. QED
    BY <1>1, <2>1, AnnounceAdds
<1>3. Adds(s, s) /\ Adds(s, quiet)
  <2>1. Core(quiet) /\ SameHist(s, s)
    BY <1>1, ServiceKeeps DEF Keeps, SameHist
  <2>2. SameHist(s, quiet)
    BY <1>1 DEF MeshType, SameHist
  <2>3. QED
    BY <2>1, <2>2, AddsNothing
<1>4. ASSUME ProbeDue(s)
      PROVE  Adds(s, t)
  <2>1. left \in Nat /\ next \in Nat
    <3>1. ProbeInterval \in Nat
      BY MeshAssumption
    <3>2. QED
      BY <1>1, <1>4, <3>1 DEF ProbeDue
  <2> HIDE DEF a, left, next
  <2>2. Core(a) /\ HistOK(a) /\ a \in MeshType /\ a.probe \in Probing
    BY <1>2 DEF Adds, Core, MeshType
  <2>3. [a.probe EXCEPT !.left = left, !.next = next] \in Probing
    BY <2>1, <2>2 DEF Probing
  <2>4. t \in MeshType /\ SameCore(a, t)
    BY <2>2, <2>3 DEF MeshType, SameCore, SameFlags
  <2>5. Core(t)
    BY <2>2, <2>4, SameCoreKeeps DEF Keeps
  <2>6. SameHist(a, t)
    BY <2>2 DEF MeshType, SameHist
  <2>7. QED
    BY <1>2, <2>2, <2>5, <2>6, AddsNothing, AddsTwice
<1>5. QED
  BY <1>3, <1>4 DEF ServiceProbe

LEMMA ServiceTimeOfDayAdds ==
  ASSUME NEW s, Core(s), HistOK(s), clock \in Nat, NEW delay \in Nat
  PROVE  Adds(s, ServiceTimeOfDay(s, delay))
<1> DEFINE a == Tell(s, "time", delay)
           b == Tell(a, "date", delay)
           minute == Minute(clock)
           t == [b EXCEPT !.tod.ask = {}, !.tod.minute = minute]
<1>1. ASSUME NEW x, Core(x), HistOK(x), NEW kind \in {"time", "date"}
      PROVE  Adds(x, Tell(x, kind, delay))
  <2>1. kind \in OwnKind \ {"advert"}
    BY DEF OwnKind
  <2>2. x.tod.chan \in Channel
    BY <1>1 DEF Core, MeshType, Telling
  <2>3. Adds(x, Announce(x, kind, x.tod.chan, delay)) /\ Adds(x, x)
    BY <1>1, <2>1, <2>2, AnnounceAdds, AddsNothing DEF SameHist
  <2>4. QED
    BY <2>3 DEF Tell
<1>2. ServiceTimeOfDay(s, delay) \in {s, t}
  BY DEF ServiceTimeOfDay
<1>3. Adds(s, a) /\ Adds(s, s)
  BY <1>1, AddsNothing DEF SameHist
<1> HIDE DEF a
<1>4. Adds(a, b)
  BY <1>1, <1>3 DEF Adds
<1> HIDE DEF b
<1>5. Adds(s, b)
  BY <1>3, <1>4, AddsTwice
<1>6. Adds(b, t)
  <2>1. minute \in Nat
    BY MinuteIsNat
  <2> HIDE DEF minute
  <2>2. Core(b) /\ HistOK(b) /\ b \in MeshType /\ b.tod \in Telling
    BY <1>5 DEF Adds, Core, MeshType
  <2>3. [b.tod EXCEPT !.ask = {}, !.minute = minute] \in Telling
    BY <2>1, <2>2 DEF Telling
  <2>4. t \in MeshType /\ SameCore(b, t)
    BY <2>2, <2>3 DEF MeshType, SameCore, SameFlags
  <2>5. Core(t)
    BY <2>2, <2>4, SameCoreKeeps DEF Keeps
  <2>6. SameHist(b, t)
    BY <2>2 DEF MeshType, SameHist
  <2>7. QED
    BY <2>2, <2>5, <2>6, AddsNothing
<1> HIDE DEF t
<1>7. Adds(s, t)
  BY <1>5, <1>6, AddsTwice
<1>8. QED
  BY <1>2, <1>3, <1>7

LEMMA PeriodicAdvertAdds ==
  ASSUME NEW s, Core(s), HistOK(s), clock \in Nat, now \in Nat, NEW delay \in Nat
  PROVE  Adds(s, PeriodicAdvert(s, delay))
<1> DEFINE a == SendAdvert(s, delay)
           t == [a EXCEPT !.last_advert = now]
<1>1. Adds(s, a) /\ Adds(s, s)
  BY SendAdvertAdds, AddsNothing DEF SameHist
<1>2. PeriodicAdvert(s, delay) \in {s, t}
  BY DEF PeriodicAdvert
<1> HIDE DEF a
<1>3. Core(a) /\ HistOK(a) /\ a \in MeshType
  BY <1>1 DEF Adds, Core
<1>4. t \in MeshType /\ SameCore(a, t)
  BY <1>3 DEF MeshType, SameCore, SameFlags
<1>5. Core(t)
  BY <1>3, <1>4, SameCoreKeeps DEF Keeps
<1>6. SameHist(a, t)
  BY <1>3 DEF MeshType, SameHist
<1> HIDE DEF t
<1>7. Adds(s, t)
  BY <1>1, <1>3, <1>5, <1>6, AddsNothing, AddsTwice
<1>8. QED
  BY <1>1, <1>2, <1>7

LEMMA TimersAdd ==
  ASSUME NEW s, Core(s), HistOK(s), clock \in Nat, now \in Nat,
         NEW probe \in Nat, NEW tod \in Nat, NEW advert \in Nat
  PROVE  Adds(s, PeriodicAdvert(ServiceTimeOfDay(ServiceProbe(s, probe), tod), advert))
<1> DEFINE x == ServiceProbe(s, probe)
           y == ServiceTimeOfDay(x, tod)
           z == PeriodicAdvert(y, advert)
<1>1. Adds(s, x)
  BY ServiceProbeAdds
<1> HIDE DEF x
<1>2. Adds(x, y)
  BY <1>1, ServiceTimeOfDayAdds DEF Adds
<1> HIDE DEF y
<1>3. Adds(y, z)
  BY <1>2, PeriodicAdvertAdds DEF Adds
<1> HIDE DEF z
<1>4. Adds(s, z)
  BY <1>1, <1>2, <1>3, AddsTwice
<1>5. QED
  BY <1>4 DEF x, y, z
----------------------------------------------------------------------------
(* Receiving and relaying.                                                 *)

(* A packet that was new is recorded last.                                 *)
LEMMA RecordedIsFresh ==
  ASSUME NEW s, Core(s), HistOK(s), NEW f \in Frame, NEW src \in Source,
         ~Seen(s.ring, HashOf(f)), NEW t, t = Recorded(s, f, src)
  PROVE  Fresh(t, HashOf(f), src, Len(s.ring.log) + 1)
<1> DEFINE h == HashOf(f)
           n == Len(s.ring.log)
<1>1. n \in Nat /\ HistRecorded(s)
  BY LogType DEF HistOK
<1>2. /\ t.hist = s.hist /\ Len(t.ring.log) = n + 1
      /\ t.ring.log[n + 1].hash = h /\ t.ring.log[n + 1].src = src
  BY RecordedIs DEF Logged
<1>3. \A i \in 1..Len(t.hist) : t.hist[i].at \in 1..n
  BY <1>1, <1>2 DEF HistRecorded
<1> HIDE DEF h, n
<1>4. n + 1 \in 1..n + 1 /\ \A k \in 1..n + 1 : k <= n + 1
  BY <1>1
<1>5. \A i \in 1..Len(t.hist) : t.hist[i].at < n + 1
  BY <1>1, <1>3
<1>6. Fresh(t, h, src, n + 1)
  BY <1>2, <1>4, <1>5 DEF Fresh
<1>7. QED
  BY <1>6 DEF h, n

(* What the node says meanwhile is not that packet.                        *)
LEMMA StaysFresh ==
  ASSUME NEW s, Core(s), NEW t, Core(t), Grown(s, t),
         NEW h, h[1] \notin OwnId, NEW src, NEW n, Fresh(s, h, src, n)
  PROVE  Fresh(t, h, src, n)
<1> DEFINE a == Len(s.ring.log)
           b == Len(t.ring.log)
           x == Len(s.hist)
           y == Len(t.hist)
<1>1. a \in Nat /\ b \in Nat /\ x \in Nat /\ y \in Nat
  BY LogType
<1>2. /\ a <= b /\ \A k \in 1..a : t.ring.log[k] = s.ring.log[k]
      /\ \A i \in 1..x : t.hist[i] = s.hist[i]
      /\ \A k \in 1..b : k > a => t.ring.log[k].hash[1] \in OwnId
      /\ \A i \in 1..y : i > x => t.hist[i].hash[1] \in OwnId
  BY DEF Grown
<1>3. /\ n \in 1..a /\ s.ring.log[n].hash = h /\ s.ring.log[n].src = src
      /\ \A k \in 1..a : s.ring.log[k].hash = h => k <= n
      /\ \A i \in 1..x : s.hist[i].hash = h => s.hist[i].at < n
  BY DEF Fresh
<1> SUFFICES /\ n \in 1..b /\ t.ring.log[n].hash = h /\ t.ring.log[n].src = src
             /\ \A k \in 1..b : t.ring.log[k].hash = h => k <= n
             /\ \A i \in 1..y : t.hist[i].hash = h => t.hist[i].at < n
  BY DEF Fresh
<1> HIDE DEF a, b, x, y
<1>4. n \in 1..b /\ t.ring.log[n] = s.ring.log[n]
  BY <1>1, <1>2, <1>3
<1>5. ASSUME NEW k \in 1..b, t.ring.log[k].hash = h
      PROVE  k <= n
  <2>1. k \in 1..a
    BY <1>1, <1>2, <1>5
  <2>2. QED
    BY <1>2, <1>3, <1>5, <2>1
<1>6. ASSUME NEW i \in 1..y, t.hist[i].hash = h
      PROVE  t.hist[i].at < n
  <2>1. i \in 1..x
    BY <1>1, <1>2, <1>6
  <2>2. QED
    BY <1>2, <1>3, <1>6, <2>1
<1>7. QED
  BY <1>3, <1>4, <1>5, <1>6

(* A relayed copy has the hash of the packet received, which the ring      *)
(* recorded last and never within SeenSize records before.                 *)
LEMMA RelayHist ==
  ASSUME NEW s, Core(s), HistOK(s), NEW f \in Frame, f.msg.type # "trace",
         NEW src \in {"rf", "hub"}, NEW d \in Delays,
         NEW n, Fresh(s, HashOf(f), src, n)
  PROVE  HistOK(Relay(s, f, src, d))
<1> DEFINE h == HashOf(f)
           a == Len(s.ring.log)
           last == LatestRecord(s, h)
           power == RelayPower(f, src, s.affinity)
<1>1. a \in Nat /\ RingOK(s.ring) /\ HistRecorded(s) /\ src \in Source
  BY LogType DEF HistOK, Source
<1>2. /\ n \in 1..a /\ s.ring.log[n].hash = h /\ s.ring.log[n].src = src
      /\ \A k \in 1..a : s.ring.log[k].hash = h => k <= n
      /\ \A i \in 1..Len(s.hist) : s.hist[i].hash = h => s.hist[i].at < n
  BY DEF Fresh
<1>3. last = n
  <2>1. /\ last \in 1..a /\ s.ring.log[last].hash = h
        /\ \A j \in 1..a : s.ring.log[j].hash = h => j <= last
    BY <1>2, LatestRecordIs
  <2> HIDE DEF last, h, a
  <2>2. QED
    BY <1>1, <1>2, <2>1
<1>4. ASSUME NEW i \in 1..Len(s.hist), s.hist[i].hash = h
      PROVE  n - s.hist[i].at > SeenSize
  <2> HIDE DEF h
  <2>1. s.hist[i].at \in 1..a /\ s.ring.log[s.hist[i].at].hash = h
    BY <1>1, <1>4 DEF HistRecorded
  <2>2. s.hist[i].at < n
    BY <1>2, <1>4
  <2>3. QED
    BY <1>1, <1>2, <2>1, <2>2 DEF RingOK, NoEarlyRepeat
<1>5. ASSUME NEW g \in Frame, g.msg = f.msg, NEW prio, NEW delay
      PROVE  HistOK(Put(s, g, src, prio, delay, power))
  <2>1. HashOf(g) = h
    BY <1>5 DEF HashOf
  <2> HIDE DEF h, last, power
  <2>2. QED
    BY <1>1, <1>2, <1>3, <1>4, <2>1, PutHist DEF last
<1> HIDE DEF power
<1>6. HistOK(RelayFlood(s, f, src, d, power))
  BY <1>5, RelayedIsFrame DEF RelayFlood
<1>7. HistOK(RelayDirect(s, f, src, d, power))
  <2>1. ASSUME f.path # <<>>
        PROVE  HistOK(Put(s, Stripped(f), src, 0, 0, power))
    BY <1>5, <2>1, RelayedIsFrame
  <2>2. QED
    BY <2>1 DEF RelayDirect
<1>8. QED
  BY <1>6, <1>7 DEF Relay, power

(* The echo of our own message: it asks for nothing and wakes nobody.      *)
LEMMA EchoTeachesNothing ==
  ASSUME ghost \in GhostType, clock \in Nat, NEW f \in Echoes, NEW s, Core(s), NEW d \in Delays
  PROVE  /\ SameHist(s, Learn(s, f, "rf", d))
         /\ ~Consumed(f, "rf") => SameHist(s, Attend(s, f, "rf", d))
<1>1. PICK id \in OwnId : f = Echo(id)
  BY DEF Echoes, GhostType
<1>2. f.msg.adv = "repeater" /\ f.msg.body = "text" /\ f.path # <<>>
  BY <1>1 DEF Echo, OwnFrame, OwnMessage
<1>3. SameHist(s, Learn(s, f, "rf", d))
  <2> DEFINE n == NoteNeighbor(s, f)
  <2>1. f \in Frame
    BY EchoIsFrame
  <2>2. SameHist(s, n) /\ Core(n)
    BY <2>1, LearningIsSilent, NoteNeighborKeeps DEF Keeps
  <2>3. Learn(s, f, "rf", d) \in {s, LearnAffinity(n, f)}
    BY <1>2 DEF Learn
  <2> HIDE DEF n
  <2>4. SameHist(n, LearnAffinity(n, f))
    BY <2>2, LearningIsSilent
  <2>5. QED
    BY <2>2, <2>3, <2>4 DEF SameHist
<1>4. ASSUME ~Consumed(f, "rf")
      PROVE  SameHist(s, Attend(s, f, "rf", d))
  <2>1. f.msg.type = "grp_txt" => Command(f) = "none"
    BY <1>2, <1>4 DEF Consumed, Command
  <2>2. Wake(s, f, d) = s
    BY <1>2 DEF Wake, Wakes
  <2>3. Attend(s, f, "rf", d) = s
    BY <2>1, <2>2 DEF Attend, Answer
  <2>4. QED
    BY <2>3 DEF SameHist
<1>5. QED
  BY <1>3, <1>4
----------------------------------------------------------------------------
(* mesh_on_recv.                                                           *)

(* At most one slot more is the hub's, and none for what the radio heard.  *)
HubGrows(s, t, src) ==
  /\ \E i : HubSlots(t) \subseteq HubSlots(s) \cup {i}
  /\ src # "hub" => HubSlots(t) \subseteq HubSlots(s)

LEMMA RelayTakesOne ==
  ASSUME NEW s, Core(s), NEW f, NEW src \in Source, NEW d
  PROVE  HubGrows(s, Relay(s, f, src, d), src)
<1>1. ASSUME NEW g, NEW prio, NEW delay, NEW power
      PROVE  HubGrows(s, Put(s, g, src, prio, delay, power), src)
  BY PutTakesOne DEF HubGrows
<1>2. HubGrows(s, s, src)
  BY DEF HubGrows
<1>3. Relay(s, f, src, d) = s \/ \E g, prio, delay, power :
        Relay(s, f, src, d) = Put(s, g, src, prio, delay, power)
  BY DEF Relay, RelayFlood, RelayDirect
<1>4. QED
  BY <1>1, <1>2, <1>3

(* A packet not heard before is recorded; what else the node does first,   *)
(* it does to a packet that is still fresh.                                *)
LEMMA RelayedHist ==
  ASSUME NEW r, Core(r), HistOK(r), NEW s, Adds(r, s),
         NEW f \in Frame, f.msg.type # "trace", f.msg.id \notin OwnId \/ SameHist(r, s),
         NEW src \in {"rf", "hub"}, NEW d \in Delays,
         NEW n, Fresh(r, HashOf(f), src, n)
  PROVE  HistOK(Relay(s, f, src, d)) /\ HubGrows(r, Relay(s, f, src, d), src)
<1> DEFINE h == HashOf(f)
           t == Relay(s, f, src, d)
<1>1. Core(s) /\ HistOK(s) /\ Grown(r, s) /\ HubSlots(s) \subseteq HubSlots(r)
  BY DEF Adds
<1>2. src \in Source /\ h[1] = f.msg.id
  BY DEF Source, HashOf
<1> HIDE DEF h
<1>3. Fresh(s, h, src, n)
  <2>1. CASE f.msg.id \notin OwnId
    BY <1>1, <1>2, <2>1, StaysFresh DEF h
  <2>2. CASE SameHist(r, s)
    BY <2>2 DEF SameHist, Fresh, h
  <2>3. QED
    BY <2>1, <2>2
<1>4. HistOK(t)
  BY <1>1, <1>3, RelayHist DEF h
<1>5. HubGrows(s, t, src)
  BY <1>1, <1>2, RelayTakesOne
<1> HIDE DEF t
<1>6. HubGrows(r, t, src)
  BY <1>1, <1>5 DEF HubGrows
<1>7. QED
  BY <1>4, <1>6 DEF t

LEMMA RecvHist ==
  ASSUME Good(m), HistOK(m), ghost \in GhostType, clock \in Nat,
         NEW f \in Frame, NEW src \in {"rf", "hub"}, Recv(f, src),
         f.msg.id \notin OwnId \/ (src = "rf" /\ f \in Echoes)
  PROVE  HistOK(m') /\ HubGrows(m, m', src)
<1> DEFINE r == Recorded(m, f, src)
           n == Len(m.ring.log) + 1
<1>1. Core(m) /\ src \in Source /\ (f.msg.id \in OwnId => src # "hub")
  BY DEF Good, Source
<1>2. Keeps(m, r)
  BY <1>1, RecordedKeeps
<1>3. Good(r) /\ Core(r)
  BY <1>2, KeepsGood DEF Good
<1>4. HistOK(r)
  BY <1>1, RecordedHist
<1>5. ~Known(f) => Fresh(r, HashOf(f), src, n)
  BY <1>1, RecordedIsFresh DEF Known
<1>6. HubSlots(r) = HubSlots(m)
  BY <1>1, RecordedIs DEF Logged, HubSlots
<1> HIDE DEF r, n
<1>7. ASSUME NEW t, HistOK(t), HubGrows(r, t, src), m' = t
      PROVE  HistOK(m') /\ HubGrows(m, m', src)
  BY <1>6, <1>7 DEF HubGrows
<1>8. ASSUME NEW t, Adds(r, t)
      PROVE  HistOK(t) /\ HubGrows(r, t, src)
  BY <1>8 DEF Adds, HubGrows
<1>9. CASE RecvDuplicate(f, src)
  BY <1>9 DEF RecvDuplicate, HubGrows
<1>10. CASE RecvRefused(f, src)
  <2>1. m' = r
    BY <1>10 DEF RecvRefused, r
  <2>2. QED
    BY <1>4, <1>6, <2>1 DEF HubGrows
<1>11. CASE RecvKept(f, src)
  <2>1. PICK d \in Delays : m' = Learn(r, f, src, d)
    BY <1>11 DEF RecvKept, r
  <2>2. Adds(r, Learn(r, f, src, d))
    BY <1>3, <1>4, LearnAdds
  <2>3. QED
    BY <1>7, <1>8, <2>1, <2>2
<1>12. CASE RecvCommand(f, src)
  <2>1. PICK d \in Delays : m' = Attend(r, f, src, d)
    BY <1>12 DEF RecvCommand, r
  <2>2. f.msg.chan \in Channel
    BY <1>12 DEF RecvCommand, Classify
  <2>3. Adds(r, Attend(r, f, src, d))
    BY <1>3, <1>4, <2>2, AttendAdds
  <2>4. QED
    BY <1>7, <1>8, <2>1, <2>3
<1>13. CASE RecvPublic(f, src)
  <2>1. PICK d \in Delays : m' = Relay(Attend(r, f, src, d), f, src, d)
    BY <1>13 DEF RecvPublic, r
  <2>2. f.msg.chan \in Channel /\ f.msg.type # "trace" /\ ~Known(f) /\ ~Consumed(f, src)
    BY <1>13 DEF RecvPublic, Classify, KeptHere
  <2> DEFINE s == Attend(r, f, src, d)
  <2>3. Adds(r, s)
    BY <1>3, <1>4, <2>2, AttendAdds
  <2>4. f.msg.id \notin OwnId \/ SameHist(r, s)
    BY <1>3, <2>2, EchoTeachesNothing
  <2> HIDE DEF s
  <2>5. HistOK(Relay(s, f, src, d)) /\ HubGrows(r, Relay(s, f, src, d), src)
    BY <1>3, <1>4, <1>5, <2>2, <2>3, <2>4, RelayedHist
  <2>6. QED
    BY <1>7, <2>1, <2>5 DEF s
<1>14. CASE RecvOpaque(f, src)
  <2>1. PICK d \in Delays : m' = Relay(Learn(r, f, src, d), f, src, d)
    BY <1>14 DEF RecvOpaque, r
  <2>2. f.msg.type # "trace" /\ ~Known(f)
    BY <1>14 DEF RecvOpaque, KeptHere
  <2> DEFINE s == Learn(r, f, src, d)
  <2>3. Adds(r, s)
    BY <1>3, <1>4, LearnAdds
  <2>4. f.msg.id \notin OwnId \/ SameHist(r, s)
    BY <1>3, EchoTeachesNothing
  <2> HIDE DEF s
  <2>5. HistOK(Relay(s, f, src, d)) /\ HubGrows(r, Relay(s, f, src, d), src)
    BY <1>3, <1>4, <1>5, <2>2, <2>3, <2>4, RelayedHist
  <2>6. QED
    BY <1>7, <2>1, <2>5 DEF s
<1>15. QED
  BY <1>9, <1>10, <1>11, <1>12, <1>13, <1>14 DEF Recv
----------------------------------------------------------------------------
(* The hub's share of the queue.                                           *)

Share(s) == Cardinality(HubSlots(s)) <= TxqSize - Headroom + 1

LEMMA SlotsAreFinite ==
  ASSUME NEW s
  PROVE  /\ IsFiniteSet(HubSlots(s)) /\ Cardinality(HubSlots(s)) \in Nat
         /\ IsFiniteSet(Free(s)) /\ Cardinality(Free(s)) \in Nat
         /\ Cardinality(HubSlots(s)) + Cardinality(Free(s)) <= TxqSize
<1> DEFINE H == HubSlots(s)
           F == Free(s)
           a == Cardinality(H)
           b == Cardinality(F)
           c == Cardinality(H \cup F)
<1>1. TxqSize \in Nat \ {0}
  BY MeshAssumption
<1>2. IsFiniteSet(Slot) /\ Cardinality(Slot) = TxqSize
  <2>1. 1 \in Int /\ TxqSize \in Int /\ ~(1 > TxqSize) /\ TxqSize - 1 + 1 = TxqSize
    BY <1>1
  <2>2. IsFiniteSet(1..TxqSize) /\ Cardinality(1..TxqSize) = TxqSize - 1 + 1
    BY <2>1, FS_Interval
  <2>3. QED
    BY <2>1, <2>2 DEF Slot
<1>3. H \in SUBSET Slot /\ F \in SUBSET Slot /\ H \cap F = {} /\ H \cup F \in SUBSET Slot
  BY DEF HubSlots, Free
<1> HIDE DEF H, F
<1>4. IsFiniteSet(H) /\ IsFiniteSet(F) /\ c <= TxqSize
  BY <1>2, <1>3, FS_Subset
<1>5. a \in Nat /\ b \in Nat
  BY <1>4, FS_CardinalityType
<1>6. Cardinality(H \cap F) = 0
  BY <1>3, FS_EmptySet
<1>7. c = a + b - 0
  BY <1>4, <1>6, FS_Union
<1>8. a + b <= TxqSize
  <2> HIDE DEF a, b, c
  <2>1. QED
    BY <1>1, <1>4, <1>5, <1>7
<1>9. QED
  BY <1>4, <1>5, <1>8 DEF H, F

LEMMA RoomIsNat == TxqSize \in Nat /\ Headroom \in Nat
<1>1. TxqSize \in Nat \ {0} /\ Headroom \in 1..TxqSize
  BY MeshAssumption
<1>2. QED
  BY <1>1

(* Where no frame of the hub is queued the share only shrinks.             *)
LEMMA ShareShrinks ==
  ASSUME NEW s, Share(s), NEW t, HubSlots(t) \subseteq HubSlots(s)
  PROVE  Share(t)
<1> DEFINE a == Cardinality(HubSlots(s))
           b == Cardinality(HubSlots(t))
<1>1. a \in Nat /\ b \in Nat
  BY SlotsAreFinite
<1>2. b <= a
  <2>1. IsFiniteSet(HubSlots(s)) /\ HubSlots(t) \in SUBSET HubSlots(s)
    BY SlotsAreFinite
  <2>2. QED
    BY <2>1, FS_Subset
<1>3. TxqSize \in Nat /\ Headroom \in Nat /\ a <= TxqSize - Headroom + 1
  BY RoomIsNat DEF Share
<1> HIDE DEF a, b
<1>4. b <= TxqSize - Headroom + 1
  BY <1>1, <1>2, <1>3
<1>5. QED
  BY <1>4 DEF Share, b

(* A frame of the hub is let in only when Headroom slots are free of it.   *)
LEMMA ShareIsBounded ==
  ASSUME NEW s, HasRoom(s), NEW t, NEW i, HubSlots(t) \subseteq HubSlots(s) \cup {i}
  PROVE  Share(t)
<1> DEFINE a == Cardinality(HubSlots(s))
           b == Cardinality(HubSlots(t))
           c == Cardinality(HubSlots(s) \cup {i})
           free == Cardinality(Free(s))
<1>1. a \in Nat /\ b \in Nat /\ free \in Nat /\ a + free <= TxqSize
  BY SlotsAreFinite
<1>2. IsFiniteSet(HubSlots(s) \cup {i}) /\ c \in {a, a + 1}
  BY SlotsAreFinite, FS_AddElement
<1>3. b <= c
  <2>1. HubSlots(t) \in SUBSET (HubSlots(s) \cup {i})
    OBVIOUS
  <2>2. QED
    BY <1>2, <2>1, FS_Subset
<1>4. TxqSize \in Nat /\ Headroom \in Nat /\ free >= Headroom
  BY RoomIsNat DEF HasRoom
<1> HIDE DEF a, b, c, free
<1>5. b <= TxqSize - Headroom + 1
  BY <1>1, <1>2, <1>3, <1>4
<1>6. QED
  BY <1>5 DEF Share, b
----------------------------------------------------------------------------
(* The invariant of the past.                                              *)

Past == HistOK(m) /\ Share(m)

\* The inductive invariant of the repeater and its history.
HInv == IInv /\ Past

(* A step that changes neither the ring nor the history, and gives the hub *)
(* no slot it did not have.                                                *)
LEMMA PastKept ==
  ASSUME Past, m'.ring = m.ring, m'.hist = m.hist, HubSlots(m') \subseteq HubSlots(m)
  PROVE  Past'
<1>1. HistOK(m')
  BY DEF Past, HistOK, OwnRecords, HistRecorded, OnceEach
<1>2. Share(m')
  BY ShareShrinks DEF Past
<1>3. QED
  BY <1>1, <1>2 DEF Past, HistOK, OwnRecords, HistRecorded, OnceEach, Share, HubSlots

(* A step that adds what the node says.                                    *)
LEMMA PastGrows ==
  ASSUME Past, Adds(m, m')
  PROVE  Past'
<1>1. HistOK(m') /\ Share(m')
  BY ShareShrinks DEF Past, Adds
<1>2. QED
  BY <1>1 DEF Past, HistOK, OwnRecords, HistRecorded, OnceEach, Share, HubSlots

(* A frame is heard, relayed by a remote ear or sent by the hub.           *)
LEMMA ReceivePast ==
  ASSUME HInv, NEW f \in Frame, NEW src \in {"rf", "hub"}, Recv(f, src),
         f.msg.id \notin OwnId \/ (src = "rf" /\ f \in Echoes),
         src = "hub" => HasRoom(m)
  PROVE  Past'
<1>1. Good(m) /\ HistOK(m) /\ Share(m) /\ ghost \in GhostType /\ clock \in Nat
  BY DEF HInv, IInv, LoopType, Past
<1>2. HistOK(m') /\ HubGrows(m, m', src)
  BY <1>1, RecvHist
<1>3. Share(m')
  <2>1. CASE src = "rf"
    BY <1>1, <1>2, <2>1, ShareShrinks DEF HubGrows
  <2>2. CASE src = "hub"
    BY <1>2, <2>2, ShareIsBounded DEF HubGrows
  <2>3. QED
    BY <2>1, <2>2
<1>4. QED
  BY <1>2, <1>3 DEF Past, HistOK, OwnRecords, HistRecorded, OnceEach, Share, HubSlots

(* mesh_service_tx: slots are only freed, or made to wait.                 *)
LEMMA ServiceTxPast ==
  ASSUME HInv, ServiceTx
  PROVE  Past'
<1>1. Past /\ Core(m) /\ m \in MeshType /\ m.txq \in [Slot -> Entry \cup {NoEntry}]
  BY DEF HInv, IInv, Good, Core, MeshType, Queue
<1>2. \A x : /\ [m EXCEPT !.txq = x].ring = m.ring /\ [m EXCEPT !.txq = x].hist = m.hist
             /\ [m EXCEPT !.txq = x].txq = x
  BY <1>1 DEF MeshType
<1>3. ASSUME NEW x, m' = [m EXCEPT !.txq = x],
             \A j \in Slot : x[j] = NoEntry \/ x[j].src = m.txq[j].src,
             \A j \in Slot : m.txq[j] = NoEntry => x[j] = NoEntry
      PROVE  Past'
  <2>1. m'.ring = m.ring /\ m'.hist = m.hist /\ m'.txq = x
    BY <1>2, <1>3
  <2>2. HubSlots(m') \subseteq HubSlots(m)
    BY <1>3, <2>1 DEF HubSlots
  <2>3. QED
    BY <1>1, <2>1, <2>2, PastKept
<1>4. CASE SilentFlush
  <2>1. m' = Emptied(m)
    BY <1>4 DEF SilentFlush
  <2>2. /\ m'.ring = m.ring /\ m'.hist = m.hist
        /\ \A j \in Slot : m'.txq[j] = NoEntry
    BY <1>1, <2>1 DEF Emptied, MeshType
  <2>3. HubSlots(m') \subseteq HubSlots(m)
    BY <2>2 DEF HubSlots
  <2>4. QED
    BY <1>1, <2>2, <2>3, PastKept
<1>5. CASE NothingDue
  <2>1. m' = m
    BY <1>5 DEF NothingDue
  <2>2. QED
    BY <1>1, <2>1, PastKept
<1> DEFINE i == Urgent(m, now)
<1>6. ASSUME Due(m, now) # {}
      PROVE  i \in Slot /\ m.txq[i] \in Entry /\ m.txq[i] # NoEntry
  BY <1>1, <1>6, UrgentIsDue, DueIsAwake DEF Due
<1>7. ASSUME NEW delay \in CadDelay, ChannelBusy(delay)
      PROVE  Past'
  <2> DEFINE w == [m.txq[i] EXCEPT !.due = now + delay]
             x == [m.txq EXCEPT ![i] = w]
  <2>1. m' = [m EXCEPT !.txq = x] /\ i \in Slot /\ m.txq[i] \in Entry /\ m.txq[i] # NoEntry
    BY <1>6, <1>7 DEF ChannelBusy, BackedOff
  <2> HIDE DEF i
  <2>2. w.src = m.txq[i].src
    BY <2>1 DEF Entry
  <2> HIDE DEF w
  <2>3. \A j \in Slot : x[j] = IF j = i THEN w ELSE m.txq[j]
    BY <1>1, <2>1
  <2> HIDE DEF x
  <2>4. QED
    BY <1>3, <2>1, <2>2, <2>3
<1>8. CASE Transmit \/ TransmitFails
  <2> DEFINE x == [m.txq EXCEPT ![i] = NoEntry]
  <2>1. m' = [m EXCEPT !.txq = x]
    BY <1>8 DEF Transmit, TransmitFails, Freed
  <2> HIDE DEF i
  <2>2. \A j \in Slot : x[j] = NoEntry \/ x[j] = m.txq[j]
    BY <1>1
  <2> HIDE DEF x
  <2>3. QED
    BY <1>3, <2>1, <2>2
<1>9. QED
  BY <1>4, <1>5, <1>7, <1>8 DEF ServiceTx

(* The timers and the local operator.                                      *)
LEMMA TimersPast ==
  ASSUME HInv, Timers
  PROVE  Past'
<1>1. Past /\ Core(m) /\ HistOK(m) /\ clock \in Nat /\ now \in Nat
  BY DEF HInv, IInv, LoopType, Good, Past
<1>2. PICK probe \in JitterDelay, tod \in JitterDelay, advert \in JitterDelay :
        m' = PeriodicAdvert(ServiceTimeOfDay(ServiceProbe(m, probe), tod), advert)
  BY DEF Timers
<1>3. probe \in Nat /\ tod \in Nat /\ advert \in Nat
  BY MeshAssumption
<1>4. Adds(m, m')
  BY <1>1, <1>2, <1>3, TimersAdd
<1>5. QED
  BY <1>1, <1>4, PastGrows

LEMMA CliPast ==
  ASSUME HInv, Cli
  PROVE  Past'
<1>1. Past /\ Core(m) /\ HistOK(m) /\ m \in MeshType /\ clock \in Nat
  BY DEF HInv, IInv, LoopType, Good, Core, Past
<1>2. ASSUME NEW delay \in JitterDelay, m' = SendAdvert(m, delay)
      PROVE  Past'
  <2>1. delay \in Nat
    BY MeshAssumption
  <2>2. QED
    BY <1>1, <1>2, <2>1, SendAdvertAdds, PastGrows
<1>3. ASSUME NEW x, m' = [m EXCEPT !.probe = x]
      PROVE  Past'
  <2>1. m'.ring = m.ring /\ m'.hist = m.hist /\ m'.txq = m.txq
    BY <1>1, <1>3 DEF MeshType
  <2>2. HubSlots(m') \subseteq HubSlots(m)
    BY <2>1 DEF HubSlots
  <2>3. QED
    BY <1>1, <2>1, <2>2, PastKept
<1>4. QED
  BY <1>2, <1>3 DEF Cli, StartProbe

LEMMA HInvNext == HInv /\ [Next]_vars => HInv'
<1> SUFFICES ASSUME HInv, [Next]_vars
             PROVE  Past'
  BY IInvNext DEF HInv
<1>1. Past /\ m \in MeshType /\ ghost \in GhostType
  BY DEF HInv, IInv, LoopType, Good, Core
<1>2. RfFrame \subseteq Frame /\ HubFrame \subseteq Frame /\ Echoes \subseteq Frame
  <2>1. RfFrame \subseteq Frame /\ HubFrame \subseteq Frame
    BY MeshAssumption
  <2>2. QED
    BY <1>1, <2>1, EchoIsFrame
<1>3. ASSUME NEW f \in RfFrame \cup Echoes, PollRx(f) \/ LinkRecv(f)
      PROVE  Past'
  <2>1. Recv(f, "rf") /\ f \in Frame
    BY <1>2, <1>3 DEF PollRx, LinkRecv
  <2>2. f.msg.id \notin OwnId \/ f \in Echoes
    BY OthersAssumption
  <2>3. QED
    BY <2>1, <2>2, ReceivePast
<1>4. ASSUME m' = m
      PROVE  Past'
  BY <1>1, <1>4, PastKept
<1>5. ASSUME NEW f \in HubFrame, HubSends(f)
      PROVE  Past'
  <2>1. f.msg.id \notin OwnId /\ f \in Frame
    BY <1>2, OthersAssumption
  <2>2. CASE HasRoom(m) /\ Recv(f, "hub")
    BY <2>1, <2>2, ReceivePast
  <2>3. QED
    BY <1>4, <1>5, <2>2 DEF HubSends
<1>6. CASE HubDone
  <2>1. m'.ring = m.ring /\ m'.hist = m.hist /\ m'.txq = m.txq
    BY <1>1, <1>6 DEF HubDone, MeshType
  <2>2. HubSlots(m') \subseteq HubSlots(m)
    BY <2>1 DEF HubSlots
  <2>3. QED
    BY <1>1, <2>1, <2>2, PastKept
<1>7. CASE PollNothing \/ LinkDone \/ CliDone \/ Tick \/ UNCHANGED vars
  <2>1. m' = m
    BY <1>7 DEF PollNothing, LinkDone, CliDone, Tick, vars
  <2>2. QED
    BY <1>4, <2>1
<1>8. QED
  BY <1>3, <1>5, <1>6, <1>7, ServiceTxPast, TimersPast, CliPast DEF Next, Step, Input

(* mesh_init leaves a state like any other.                                *)
LEMMA ClearedIsCore ==
  ASSUME clock = 0
  PROVE  Core(Cleared)
<1>1. EmptyRing \in RingType(Hash, Source) /\ RingOK(EmptyRing)
  BY EmptyRingOK
<1>2. [i \in Slot |-> NoEntry] \in Queue
  BY DEF Queue
<1>3. MboxChannel \in Channel
  BY MeshAssumption
<1>4. /\ [chan |-> MboxChannel, left |-> 0, next |-> 0] \in Probing
      /\ [chan |-> MboxChannel, ask |-> {}, minute |-> 0] \in Telling
  BY <1>3 DEF Probing, Telling
<1>5. \A S : <<>> \in Seq(S)
  OBVIOUS
<1>6. Cleared \in MeshType
  BY <1>1, <1>2, <1>4, <1>5 DEF Cleared, MeshType
<1>7. /\ Cleared.ring = EmptyRing /\ ~Cleared.silent
      /\ \A i \in Slot : Cleared.txq[i] = NoEntry
  BY DEF Cleared
<1>8. QED
  BY <1>1, <1>6, <1>7 DEF Core, QueueOK, SilentOK

LEMMA HInvInit == Init => HInv
<1> SUFFICES ASSUME Init
             PROVE  Past
  BY IInvInit DEF HInv
<1>1. clock = 0 /\ clock \in Nat /\ IInv
  BY IInvInit DEF Init
<1>2. /\ Cleared.hist = <<>> /\ Cleared.ring.log = <<>> /\ Cleared.ring = EmptyRing
      /\ \A i \in Slot : Cleared.txq[i] = NoEntry
  BY DEF Cleared, EmptyRing
<1>3. Len(Cleared.hist) = 0 /\ Len(Cleared.ring.log) = 0 /\ HubSlots(Cleared) = {}
  BY <1>2 DEF HubSlots
<1>4. HistOK(Cleared)
  BY <1>3 DEF HistOK, OwnRecords, HistRecorded, OnceEach
<1>5. Share(Cleared)
  <2>1. TxqSize \in Nat \ {0} /\ Headroom \in 1..TxqSize
    BY MeshAssumption
  <2>2. Cardinality(HubSlots(Cleared)) = 0
    BY <1>3, FS_EmptySet
  <2>3. QED
    BY <2>1, <2>2 DEF Share
<1>6. QED
  <2>1. ASSUME NEW delay \in JitterDelay, m = SendAdvert(Cleared, delay)
        PROVE  Past
    <3>1. delay \in Nat
      BY MeshAssumption
    <3>2. Adds(Cleared, m)
      BY <1>1, <1>4, <2>1, <3>1, ClearedIsCore, SendAdvertAdds
    <3>3. HistOK(m) /\ Share(m)
      BY <1>5, <3>2, ShareShrinks DEF Adds
    <3>4. QED
      BY <3>3 DEF Past
  <2>2. CASE m = Cleared
    BY <1>4, <1>5, <2>2 DEF Past
  <2>3. QED
    BY <2>1, <2>2 DEF Init
----------------------------------------------------------------------------
(* Being on the air, and why.                                              *)

\* A hotspot is on the air no longer than a companion justifies, and nothing that
\* was sent went out later than that.
Attended ==
  /\ m.until <= ghost.attended /\ ghost.attended <= clock + Awake
  /\ Role = "hotspot" /\ Awake > 0 /\ ghost.sent # NoEntry => ghost.sent.now < ghost.attended

\* The inductive invariant of a hotspot and its companions.
AInv == IInv /\ Attended

(* hotspot_wake is the only one to move the end of the time on the air.    *)
LEMMA WakeUntil ==
  ASSUME NEW s, Good(s), clock \in Nat, NEW f, NEW d \in Delays
  PROVE  Wake(s, f, d).until = s.until
           \/ (Wakes(s, f) /\ Wake(s, f, d).until = clock + Awake)
<1> DEFINE late == clock + Awake
           w == [s EXCEPT !.until = late]
           u == [w EXCEPT !.silent = FALSE]
           v == SendAdvert(u, d.jitter)
           b == [v EXCEPT !.soon = TRUE]
<1>1. s \in MeshType /\ Core(s) /\ d.jitter \in Nat
  BY DelaysAreNat DEF Good, Core
<1>2. late \in Nat
  <2>1. Awake \in Nat
    BY MeshAssumption
  <2>2. QED
    BY <2>1
<1>3. Wake(s, f, d) = s \/ (Wakes(s, f) /\ Wake(s, f, d) \in {w, b})
  BY DEF Wake, BackOnAir
<1> SUFFICES w.until = late /\ b.until = late
  BY <1>3
<1> HIDE DEF late
<1>4. w \in MeshType /\ w.until = late /\ w.ring = s.ring /\ w.txq = s.txq
  BY <1>1, <1>2 DEF MeshType
<1> HIDE DEF w
<1>5. u \in MeshType /\ u.until = late /\ u.ring = s.ring /\ u.txq = s.txq /\ ~u.silent
  BY <1>4 DEF MeshType
<1> HIDE DEF u
<1>6. Core(u)
  BY <1>1, <1>5 DEF Core, QueueOK, SilentOK
<1>7. Core(v) /\ v.until = u.until
  BY <1>1, <1>6, SendAdvertKeeps DEF Keeps, SameFlags
<1> HIDE DEF v
<1>8. b.until = v.until
  BY <1>7 DEF Core, MeshType
<1>9. QED
  BY <1>4, <1>5, <1>7, <1>8

(* What is heard moves it only if it is a companion heard directly.        *)
LEMMA RecvUntil ==
  ASSUME Good(m), clock \in Nat, NEW f \in Frame, NEW src \in {"rf", "hub"}, Recv(f, src)
  PROVE  \/ m'.until = m.until
         \/ src # "hub" /\ CompanionHeard(f) /\ m'.until = clock + Awake
<1> DEFINE r == Recorded(m, f, src)
           Moved(t) == \/ t.until = m.until
                       \/ src # "hub" /\ CompanionHeard(f) /\ t.until = clock + Awake
<1>1. Core(m) /\ src \in Source
  BY DEF Good, Source
<1>2. Keeps(m, r) /\ Good(r)
  BY <1>1, RecordedKeeps, KeepsGood
<1>3. r.until = m.until
  BY <1>2 DEF Keeps, SameFlags
<1> HIDE DEF r
<1>4. ASSUME NEW s, Wakes(s, f)
      PROVE  f.path = <<>> /\ f.msg.sender \in Home \ (Belgian \cup Affinity \cup {SelfName})
  BY <1>4 DEF Wakes, IsCompanion
<1>5. ASSUME NEW d \in Delays, ~Refused(f)
      PROVE  Good(Learn(r, f, src, d)) /\ Moved(Learn(r, f, src, d))
  <2> DEFINE n == NoteNeighbor(r, f)
             l == LearnAffinity(n, f)
             w == Wake(l, f, d)
  <2>1. Keeps(r, n) /\ Good(n)
    BY <1>2, NoteNeighborKeeps, KeepsGood DEF Good
  <2>2. Learn(r, f, src, d) \in {r, l}
          \/ (Learn(r, f, src, d) = w /\ src # "hub" /\ f.msg.type = "advert" /\ f.msg.adv = "chat")
    BY DEF Learn
  <2> HIDE DEF n
  <2>3. Keeps(n, l) /\ Good(l)
    BY <2>1, LearnAffinityKeeps, KeepsGood DEF Good
  <2>4. l.until = m.until
    BY <1>3, <2>1, <2>3 DEF Keeps, SameFlags
  <2> HIDE DEF l
  <2>5. w.until = l.until \/ (Wakes(l, f) /\ w.until = clock + Awake)
    BY <2>3, WakeUntil
  <2> HIDE DEF w
  <2>6. Wakes(l, f) /\ f.msg.type = "advert" /\ f.msg.adv = "chat" => CompanionHeard(f)
    BY <1>4, <1>5 DEF Refused, CompanionHeard
  <2>7. Moved(Learn(r, f, src, d))
    BY <1>3, <2>2, <2>4, <2>5, <2>6
  <2>8. QED
    BY <1>2, <2>7, LearnGood
<1>6. ASSUME NEW d \in Delays, Classify(f) = "grp_public"
      PROVE  Good(Attend(r, f, src, d)) /\ Moved(Attend(r, f, src, d))
  <2> DEFINE w == Wake(r, f, d)
             a == Answer(w, f, d)
  <2>1. f.msg.chan \in Channel
    BY <1>6 DEF Classify
  <2>2. Attend(r, f, src, d) = r
          \/ (Attend(r, f, src, d) = a /\ src # "hub" /\ f.msg.type = "grp_txt")
    BY DEF Attend
  <2>3. w.until = r.until \/ (Wakes(r, f) /\ w.until = clock + Awake)
    BY <1>2, WakeUntil
  <2>4. Good(w)
    BY <1>2, WakeGood
  <2> HIDE DEF w
  <2>5. a.until = w.until
    BY <2>1, <2>4, AnswerKeeps DEF Good, Keeps, SameFlags
  <2> HIDE DEF a
  <2>6. Wakes(r, f) /\ f.msg.type = "grp_txt" => CompanionHeard(f)
    BY <1>4, <1>6 DEF CompanionHeard
  <2>7. Moved(Attend(r, f, src, d))
    BY <1>3, <2>2, <2>3, <2>5, <2>6
  <2>8. QED
    BY <1>2, <2>1, <2>7, AttendGood
<1>7. ASSUME NEW s, Good(s), Moved(s), NEW d \in Delays, ~Refused(f), ~KeptHere(f)
      PROVE  Moved(Relay(s, f, src, d))
  <2>1. PublicContent(f)
    BY <1>7, PassedIsPublic DEF Refused, KeptHere
  <2>2. Relay(s, f, src, d).until = s.until
    BY <1>7, <2>1, RelayKeeps DEF Good, Keeps, SameFlags
  <2>3. QED
    BY <1>7, <2>2
<1> SUFFICES Moved(m')
  OBVIOUS
<1>8. CASE RecvDuplicate(f, src)
  BY <1>8 DEF RecvDuplicate
<1>9. CASE RecvRefused(f, src)
  BY <1>3, <1>9 DEF RecvRefused, r
<1>10. CASE RecvKept(f, src)
  <2>1. PICK d \in Delays : m' = Learn(r, f, src, d)
    BY <1>10 DEF RecvKept, r
  <2>2. ~Refused(f)
    BY <1>10 DEF RecvKept
  <2>3. QED
    BY <1>5, <2>1, <2>2
<1>11. CASE RecvCommand(f, src)
  <2>1. PICK d \in Delays : m' = Attend(r, f, src, d)
    BY <1>11 DEF RecvCommand, r
  <2>2. Classify(f) = "grp_public"
    BY <1>11 DEF RecvCommand
  <2>3. QED
    BY <1>6, <2>1, <2>2
<1>12. CASE RecvPublic(f, src)
  <2>1. PICK d \in Delays : m' = Relay(Attend(r, f, src, d), f, src, d)
    BY <1>12 DEF RecvPublic, r
  <2>2. Classify(f) = "grp_public" /\ ~Refused(f) /\ ~KeptHere(f)
    BY <1>12 DEF RecvPublic
  <2>3. Good(Attend(r, f, src, d)) /\ Moved(Attend(r, f, src, d))
    BY <1>6, <2>2
  <2> HIDE DEF Moved
  <2>4. QED
    BY <1>7, <2>1, <2>2, <2>3
<1>13. CASE RecvOpaque(f, src)
  <2>1. PICK d \in Delays : m' = Relay(Learn(r, f, src, d), f, src, d)
    BY <1>13 DEF RecvOpaque, r
  <2>2. ~Refused(f) /\ ~KeptHere(f)
    BY <1>13 DEF RecvOpaque
  <2>3. Good(Learn(r, f, src, d)) /\ Moved(Learn(r, f, src, d))
    BY <1>5, <2>2
  <2> HIDE DEF Moved
  <2>4. QED
    BY <1>7, <2>1, <2>2, <2>3
<1>14. QED
  BY <1>8, <1>9, <1>10, <1>11, <1>12, <1>13 DEF Recv

(* A step that moves neither the end of the time on the air nor the ghost. *)
LEMMA AttendedKept ==
  ASSUME IInv, Attended, m'.until = m.until, ghost' = ghost, clock' = clock
  PROVE  Attended'
<1>1. (m.until)' = m.until
  OBVIOUS
<1>2. QED
  BY <1>1 DEF Attended

(* A companion heard gives the hotspot Awake more.                         *)
LEMMA ReceiveAttended ==
  ASSUME IInv, Attended, NEW f \in Frame, NEW src \in {"rf", "hub"}, Recv(f, src),
         clock' = clock, (src = "rf" /\ GhostHear(f)) \/ (src = "hub" /\ ghost' = ghost)
  PROVE  Attended'
<1> DEFINE late == clock + Awake
           was == ghost.attended
<1>1. Good(m) /\ clock \in Nat /\ ghost \in GhostType /\ m.until \in Nat /\ was \in Nat
  BY DEF IInv, LoopType, Good, Core, MeshType, GhostType
<1>2. Awake \in Nat
  BY MeshAssumption
<1>3. late \in Nat /\ m.until <= was /\ was <= late
  BY <1>1, <1>2 DEF Attended
<1>4. \/ m'.until = m.until
      \/ src # "hub" /\ CompanionHeard(f) /\ m'.until = late
  BY <1>1, RecvUntil
<1>5. /\ ghost'.sent = ghost.sent
      /\ ghost'.attended = was \/ ghost'.attended = late
      /\ src = "rf" /\ CompanionHeard(f) => ghost'.attended = late
  BY <1>1 DEF GhostHear, GhostType
<1> HIDE DEF late, was
<1>6. m'.until <= ghost'.attended /\ was <= ghost'.attended /\ ghost'.attended <= late
  BY <1>1, <1>3, <1>4, <1>5
<1>7. Role = "hotspot" /\ Awake > 0 /\ ghost.sent # NoEntry => ghost.sent.now < ghost'.attended
  <2>1. ASSUME ghost.sent # NoEntry
        PROVE  ghost.sent.now \in Nat
    BY <1>1, <2>1 DEF GhostType, Sending
  <2>2. ghost'.attended \in Nat
    BY <1>1, <1>3, <1>5
  <2>3. ASSUME ghost.sent # NoEntry, ghost.sent.now < was
        PROVE  ghost.sent.now < ghost'.attended
    BY <1>1, <1>6, <2>1, <2>2, <2>3
  <2>4. QED
    BY <2>3 DEF Attended, was
<1>8. QED
  BY <1>5, <1>6, <1>7 DEF Attended, late

(* Only a hotspot that is not silent transmits.                            *)
LEMMA ServiceTxAttended ==
  ASSUME IInv, Attended, ServiceTx
  PROVE  Attended'
<1>1. /\ m \in MeshType /\ m.until \in Nat /\ ghost \in GhostType /\ now \in Nat
      /\ ghost.attended \in Nat
  BY DEF IInv, LoopType, Good, Core, MeshType, GhostType
<1>2. \A x : [m EXCEPT !.txq = x].until = m.until
  BY <1>1 DEF MeshType
<1>3. Emptied(m).until = m.until
  BY <1>1 DEF Emptied, MeshType
<1>4. m'.until = m.until
  <2>1. m' \in {m, Emptied(m)} \/ \E x : m' = [m EXCEPT !.txq = x]
    BY DEF ServiceTx, SilentFlush, NothingDue, ChannelBusy, Transmit, TransmitFails,
           BackedOff, Freed
  <2>2. QED
    BY <1>2, <1>3, <2>1
<1>5. clock' = clock
  BY DEF ServiceTx, SilentFlush, NothingDue, ChannelBusy, Transmit, TransmitFails
<1>6. CASE ~Transmit
  <2>1. ghost' = ghost
    BY <1>6 DEF ServiceTx, SilentFlush, NothingDue, ChannelBusy, TransmitFails
  <2>2. QED
    BY <1>4, <1>5, <2>1, AttendedKept
<1>7. CASE Transmit
  <2> DEFINE e == m.txq[Urgent(m, now)]
  <2>1. GhostSend(e) /\ ~RfSilent(m, now)
    BY <1>7 DEF Transmit
  <2> HIDE DEF e
  <2>2. ghost'.attended = ghost.attended /\ ghost'.sent.now = now
    BY <1>1, <2>1 DEF GhostSend, GhostType
  <2>3. Role = "hotspot" /\ Awake > 0 => now < m.until
    BY <1>1, <2>1 DEF RfSilent
  <2>4. Role = "hotspot" /\ Awake > 0 => now < ghost.attended
    BY <1>1, <2>3 DEF Attended
  <2>5. QED
    BY <1>4, <1>5, <2>2, <2>4 DEF Attended
<1>8. QED
  BY <1>6, <1>7

LEMMA AInvNext == AInv /\ [Next]_vars => AInv'
<1> SUFFICES ASSUME AInv, [Next]_vars
             PROVE  Attended'
  BY IInvNext DEF AInv
<1>1. /\ IInv /\ Attended /\ Core(m) /\ m \in MeshType /\ ghost \in GhostType
      /\ clock \in Nat /\ now \in Nat
  BY DEF AInv, IInv, LoopType, Good, Core
<1>2. RfFrame \subseteq Frame /\ HubFrame \subseteq Frame /\ Echoes \subseteq Frame
  <2>1. RfFrame \subseteq Frame /\ HubFrame \subseteq Frame
    BY MeshAssumption
  <2>2. QED
    BY <1>1, <2>1, EchoIsFrame
<1>3. ASSUME NEW f \in RfFrame \cup Echoes, PollRx(f) \/ LinkRecv(f)
      PROVE  Attended'
  <2>1. Recv(f, "rf") /\ f \in Frame /\ GhostHear(f) /\ clock' = clock
    BY <1>2, <1>3 DEF PollRx, LinkRecv
  <2>2. QED
    BY <1>1, <2>1, ReceiveAttended
<1>4. ASSUME m'.until = m.until, ghost' = ghost, clock' = clock
      PROVE  Attended'
  BY <1>1, <1>4, AttendedKept
<1>5. ASSUME NEW f \in HubFrame, HubSends(f)
      PROVE  Attended'
  <2>1. f \in Frame /\ clock' = clock /\ ghost' = ghost
    BY <1>2, <1>5 DEF HubSends
  <2>2. CASE Recv(f, "hub")
    BY <1>1, <2>1, <2>2, ReceiveAttended
  <2>3. QED
    BY <1>4, <1>5, <2>1, <2>2 DEF HubSends
<1>6. CASE Timers
  <2>1. PICK probe \in JitterDelay, tod \in JitterDelay, advert \in JitterDelay :
          m' = PeriodicAdvert(ServiceTimeOfDay(ServiceProbe(m, probe), tod), advert)
    BY <1>6 DEF Timers
  <2>2. m'.until = m.until
    BY <1>1, <2>1, TimersKeep DEF Keeps, SameFlags
  <2>3. ghost' = ghost /\ clock' = clock
    BY <1>6 DEF Timers
  <2>4. QED
    BY <1>4, <2>2, <2>3
<1>7. CASE Cli
  <2>1. \A delay \in JitterDelay : SendAdvert(m, delay).until = m.until
    <3>1. JitterDelay \subseteq Nat
      BY MeshAssumption
    <3>2. QED
      BY <1>1, <3>1, SendAdvertKeeps DEF Keeps, SameFlags
  <2>2. \A x : [m EXCEPT !.probe = x].until = m.until
    BY <1>1 DEF MeshType
  <2>3. \/ \E delay \in JitterDelay : m' = SendAdvert(m, delay)
        \/ \E x : m' = [m EXCEPT !.probe = x]
    BY <1>7 DEF Cli, StartProbe
  <2>4. ghost' = ghost /\ clock' = clock
    BY <1>7 DEF Cli
  <2>5. m'.until = m.until
    <3>1. CASE \E delay \in JitterDelay : m' = SendAdvert(m, delay)
      <4>1. PICK delay \in JitterDelay : m' = SendAdvert(m, delay)
        BY <3>1
      <4>2. (m').until = SendAdvert(m, delay).until
        BY <4>1
      <4>3. QED
        BY <2>1, <4>2
    <3>2. CASE \E x : m' = [m EXCEPT !.probe = x]
      <4>1. PICK x : m' = [m EXCEPT !.probe = x]
        BY <3>2
      <4>2. QED
        BY <2>2, <4>1
    <3>3. QED
      BY <2>3, <3>1, <3>2
  <2>6. QED
    BY <1>4, <2>4, <2>5
<1>8. CASE HubDone
  <2>1. m'.until = m.until
    BY <1>1, <1>8 DEF HubDone, MeshType
  <2>2. ghost' = ghost /\ clock' = clock
    BY <1>8 DEF HubDone
  <2>3. QED
    BY <1>4, <2>1, <2>2
<1>9. CASE PollNothing \/ LinkDone \/ CliDone \/ UNCHANGED vars
  <2>1. m' = m /\ ghost' = ghost /\ clock' = clock
    BY <1>9 DEF PollNothing, LinkDone, CliDone, vars
  <2>2. QED
    BY <1>4, <2>1
<1>10. CASE Tick
  <2>1. m' = m /\ ghost' = ghost /\ clock' = clock + 1
    BY <1>10 DEF Tick
  <2>2. Awake \in Nat /\ ghost.attended \in Nat
    BY <1>1, MeshAssumption DEF GhostType
  <2>3. ghost.attended <= clock' + Awake
    BY <1>1, <2>1, <2>2 DEF Attended
  <2>4. QED
    BY <1>1, <2>1, <2>3 DEF Attended
<1>11. QED
  BY <1>1, <1>3, <1>5, <1>6, <1>7, <1>8, <1>9, <1>10, ServiceTxAttended DEF Next, Step, Input

LEMMA AInvInit == Init => AInv
<1> SUFFICES ASSUME Init
             PROVE  Attended
  BY IInvInit DEF AInv
<1>1. clock = 0 /\ clock \in Nat
  BY DEF Init
<1>2. Cleared.until = 0 /\ Core(Cleared)
  BY <1>1, ClearedIsCore DEF Cleared
<1>3. m.until = 0
  <2>1. ASSUME NEW delay \in JitterDelay
        PROVE  SendAdvert(Cleared, delay).until = 0
    <3>1. delay \in Nat
      BY MeshAssumption
    <3>2. QED
      BY <1>1, <1>2, <3>1, SendAdvertKeeps DEF Keeps, SameFlags
  <2>2. QED
    BY <1>2, <2>1 DEF Init
<1>4. Awake \in Nat /\ ghost.attended = 0 /\ ghost.sent = NoEntry
  BY MeshAssumption DEF Init
<1>5. QED
  BY <1>1, <1>3, <1>4 DEF Attended
----------------------------------------------------------------------------
(* What Spec guarantees, for every value of the constants.                 *)

(* A packet is queued again for relaying only after SeenSize other packets *)
(* (mesh_on_recv, enqueue).                                                *)
THEOREM RelayedOnce == Spec => []RelayOnce
<1>1. HInv => RelayOnce
  BY DEF HInv, Past, HistOK, OnceEach, RelayOnce
<1>2. QED
  BY HInvInit, HInvNext, <1>1, PTL DEF Spec

(* Nothing that came from the hub is ever offered back to it               *)
(* (backbone_offer's caller, enqueue).                                     *)
THEOREM HubNotEchoed == Spec => []NoEchoToHub
<1>1. HInv => NoEchoToHub
  BY DEF HInv, Past, HistOK, HistRecorded, NoEchoToHub
<1>2. QED
  BY HInvInit, HInvNext, <1>1, PTL DEF Spec

(* The hub cannot fill the queue (on_frame, mesh_txq_free).                *)
THEOREM HubShareKept == Spec => []HubShare
<1>1. HInv => HubShare
  BY DEF HInv, Past, Share, HubSlots, QueuedFrom, HubShare
<1>2. QED
  BY HInvInit, HInvNext, <1>1, PTL DEF Spec

(* A hotspot transmits only within Awake of a companion of the operator    *)
(* heard directly on the air (mesh_rf_silent, hotspot_wake).               *)
THEOREM OnAirOnlyAttended == Spec => []OnAirAttended
<1>1. AInv => OnAirAttended
  BY DEF AInv, Attended, OnAirAttended
<1>2. QED
  BY AInvInit, AInvNext, <1>1, PTL DEF Spec
----------------------------------------------------------------------------
(* The mailbox: answers, and the gates that space them. An answer is a     *)
(* pair of the station's base call and the time.                           *)

Cooling(gates, x) ==
  \E k \in 1..Len(gates) : gates[k].call = x[1] /\ gates[k].next >= x[2] + MboxCooldown

Crowded(answers, x) == Cardinality(OthersAnswered(answers, x[1], x[2])) >= GateMax

\* One gate for each station at most, closed by an answer; and every answer is
\* still cooling, or has lost its gate to as many other stations.
Gated(answers, gates) ==
  /\ Len(gates) <= GateMax
  /\ \A j, k \in 1..Len(gates) : gates[j].call = gates[k].call => j = k
  /\ \A k \in 1..Len(gates) :
       \E x \in answers : x[1] = gates[k].call /\ gates[k].next = x[2] + MboxCooldown
  /\ \A x \in answers : Cooling(gates, x) \/ Crowded(answers, x)

\* Answers up to t.
AnswersUpTo(answers, t) ==
  answers \in SUBSET (Call \X Nat) /\ IsFiniteSet(answers) /\ \A x \in answers : x[2] <= t

(* The stalest gate opens no later than any other.                         *)
LEMMA StalestIsFirst ==
  ASSUME NEW gates \in Seq(Gate), Len(gates) # 0
  PROVE  /\ StalestGate(gates) \in 1..Len(gates)
         /\ \A k \in 1..Len(gates) : gates[StalestGate(gates)].next <= gates[k].next
<1> DEFINE n == Len(gates)
           P == {gates[k].next : k \in 1..n}
<1>1. n \in Nat /\ n # 0 /\ \A k \in 1..n : gates[k].next \in Nat
  <2>1. n \in Nat /\ \A k \in 1..n : gates[k] \in Gate
    OBVIOUS
  <2>2. QED
    BY <2>1 DEF Gate
<1> HIDE DEF n
<1>2. PICK a \in 1..n : \A j \in 1..n : gates[a].next <= gates[j].next
  <2>1. P \in SUBSET Nat /\ P # {}
    <3>1. \A y \in P : y \in Nat
      BY <1>1
    <3>2. 1 \in 1..n
      BY <1>1
    <3>3. gates[1].next \in P
      BY <3>2
    <3>4. QED
      BY <3>1, <3>3
  <2>2. PICK p \in P : \A q \in P : p <= q
    <3> HIDE DEF P
    <3>1. QED
      BY <2>1, HasLeast
  <2>3. QED
    BY <2>2
<1> DEFINE E == {k \in 1..n : gates[k].next = gates[a].next}
<1>3. PICK b \in E : \A j \in E : b <= j
  <2>1. E \in SUBSET Nat /\ E # {}
    BY <1>1, <1>2
  <2> HIDE DEF E
  <2>2. QED
    BY <2>1, HasLeast
<1>4. ASSUME NEW j \in 1..n
      PROVE  gates[b].next < gates[j].next \/ (gates[b].next = gates[j].next /\ b <= j)
  <2>1. CASE j \in E
    BY <1>3, <2>1
  <2>2. CASE j \notin E
    BY <1>1, <1>2, <1>3, <2>2
  <2>3. QED
    BY <2>1, <2>2
<1>5. b \in 1..n
  BY <1>3
<1>6. LET s == StalestGate(gates)
      IN /\ s \in 1..n
         /\ \A j \in 1..n :
              gates[s].next < gates[j].next \/ (gates[s].next = gates[j].next /\ s <= j)
  BY <1>4, <1>5 DEF StalestGate, n
<1>7. QED
  BY <1>1, <1>6 DEF n

(* Finitely many stations are among finitely many answers.                 *)
LEMMA AnsweredFinite ==
  ASSUME NEW answers, IsFiniteSet(answers), NEW call, NEW t
  PROVE  IsFiniteSet(OthersAnswered(answers, call, t))
<1> DEFINE S == {x \in answers : x[1] # call /\ x[2] >= t}
           f == [x \in S |-> x[1]]
           T == OthersAnswered(answers, call, t)
<1>1. IsFiniteSet(S)
  <2>1. S \in SUBSET answers
    OBVIOUS
  <2> HIDE DEF S
  <2>2. QED
    BY <2>1, FS_Subset
<1>2. f \in Surjection(S, T)
  <2>1. T = {x[1] : x \in S}
    BY DEF OthersAnswered
  <2> HIDE DEF S, T
  <2>2. f \in [S -> T] /\ \A y \in T : \E x \in S : f[x] = y
    BY <2>1
  <2>3. QED
    BY <2>2 DEF Surjection
<1> HIDE DEF S, T, f
<1>3. IsFiniteSet(T)
  BY <1>1, <1>2, FS_Surjection
<1>4. QED
  BY <1>3 DEF T

(* More answers crowd an earlier one no less.                              *)
LEMMA CrowdStays ==
  ASSUME NEW answers, IsFiniteSet(answers), NEW x, Crowded(answers, x),
         NEW more, more \in SUBSET (Call \X Nat), IsFiniteSet(more), answers \subseteq more
  PROVE  Crowded(more, x)
<1> DEFINE A == OthersAnswered(answers, x[1], x[2])
           B == OthersAnswered(more, x[1], x[2])
<1>1. A \in SUBSET B
  BY DEF OthersAnswered
<1>2. IsFiniteSet(B)
  BY AnsweredFinite
<1>3. Cardinality(A) <= Cardinality(B) /\ Cardinality(A) \in Nat /\ Cardinality(B) \in Nat
  BY <1>1, <1>2, FS_Subset, FS_CardinalityType
<1>4. Cardinality(A) >= GateMax /\ GateMax \in Nat
  BY MailboxAssumption DEF Crowded
<1> HIDE DEF A, B
<1>5. Cardinality(B) >= GateMax
  BY <1>3, <1>4
<1>6. QED
  BY <1>5 DEF Crowded, B

\* g is the table in which gate k has closed as gate; no other gate was its
\* station's, and if it was another's, the table is full and k opened first.
Shut(gates, g, k, gate) ==
  /\ Len(g) \in Nat /\ Len(g) <= GateMax /\ k \in 1..Len(g) /\ g[k] = gate
  /\ \A j \in 1..Len(gates) : j \in 1..Len(g)
  /\ \A j \in 1..Len(g) : j # k =>
       j \in 1..Len(gates) /\ g[j] = gates[j] /\ gates[j].call # gate.call
  /\ k \in 1..Len(gates) =>
       \/ gates[k].call = gate.call
       \/ Len(g) = GateMax /\ \A j \in 1..Len(gates) : gates[k].next <= gates[j].next

(* mbox_rate_ok closes one gate, whichever of its three ways it takes.     *)
LEMMA OneGateCloses ==
  ASSUME NEW gates \in Seq(Gate), NEW call \in Call, NEW t \in Nat,
         Len(gates) <= GateMax,
         \A j, k \in 1..Len(gates) : gates[j].call = gates[k].call => j = k
  PROVE  \E k : Shut(gates, CloseGate(gates, call, t), k,
                     [call |-> call, next |-> t + MboxCooldown])
<1> DEFINE n == Len(gates)
           gate == [call |-> call, next |-> t + MboxCooldown]
           g == CloseGate(gates, call, t)
<1>1. n \in Nat /\ GateMax \in Nat \ {0} /\ gate \in Gate /\ gate.call = call
  BY MailboxAssumption DEF Gate
<1>2. gates \in [1..n -> Gate]
  OBVIOUS
<1>3. GateOf(gates, call) = {k \in 1..n : gates[k].call = call}
  BY DEF GateOf
<1>4. CASE GateOf(gates, call) # {}
  <2>1. PICK k \in 1..n : gates[k].call = call
    BY <1>3, <1>4
  <2>2. g = [j \in 1..n |-> IF gates[j].call = call THEN gate ELSE gates[j]]
    BY <1>4 DEF CloseGate
  <2> HIDE DEF gate, g
  <2>3. g \in Seq(Gate) /\ Len(g) = n
    <3>1. g \in [1..n -> Gate]
      BY <1>1, <1>2, <2>2
    <3>2. QED
      BY <1>1, <3>1, IsASeq, LenProperties
  <2>4. \A j \in 1..n : g[j] = IF gates[j].call = call THEN gate ELSE gates[j]
    BY <2>2
  <2>5. \A j \in 1..n : gates[j].call = call => j = k
    BY <2>1
  <2>6. Shut(gates, g, k, gate)
    BY <1>1, <2>1, <2>3, <2>4, <2>5 DEF Shut
  <2>7. QED
    BY <2>6 DEF g, gate
<1>5. CASE GateOf(gates, call) = {} /\ n < GateMax
  <2>1. g = Append(gates, gate)
    BY <1>5 DEF CloseGate
  <2> HIDE DEF gate, g
  <2>2. Len(g) = n + 1 /\ g[n + 1] = gate /\ \A j \in 1..n : g[j] = gates[j]
    BY <1>1, <2>1
  <2>3. \A j \in 1..n : gates[j].call # call
    BY <1>3, <1>5
  <2> HIDE DEF n
  <2>4. /\ n + 1 \in Nat /\ n + 1 <= GateMax /\ n + 1 \in 1..n + 1 /\ n + 1 \notin 1..n
        /\ \A j \in 1..n : j \in 1..n + 1
        /\ \A j \in 1..n + 1 : j # n + 1 => j \in 1..n
    BY <1>1, <1>5
  <2>5. Shut(gates, g, n + 1, gate)
    BY <1>1, <2>2, <2>3, <2>4 DEF Shut, n
  <2>6. QED
    BY <2>5 DEF g, gate
<1>6. CASE GateOf(gates, call) = {} /\ ~(n < GateMax)
  <2> DEFINE k == StalestGate(gates)
  <2>1. g = [gates EXCEPT ![k] = gate]
    BY <1>6 DEF CloseGate
  <2>2. n # 0 /\ n = GateMax
    BY <1>1, <1>6
  <2>3. k \in 1..n /\ \A j \in 1..n : gates[k].next <= gates[j].next
    BY <2>2, StalestIsFirst
  <2> HIDE DEF gate, g, k
  <2>4. g \in Seq(Gate) /\ Len(g) = n
    <3>1. g \in [1..n -> Gate]
      BY <1>1, <1>2, <2>1
    <3>2. QED
      BY <1>1, <3>1, IsASeq, LenProperties
  <2>5. \A j \in 1..n : g[j] = IF j = k THEN gate ELSE gates[j]
    BY <1>2, <2>1, <2>3
  <2>6. \A j \in 1..n : gates[j].call # call
    BY <1>3, <1>6
  <2>7. Shut(gates, g, k, gate)
    BY <1>1, <2>2, <2>3, <2>4, <2>5, <2>6 DEF Shut
  <2>8. QED
    BY <2>7 DEF g, gate
<1>7. QED
  BY <1>4, <1>5, <1>6

(* A gate lost to another station leaves a full table of others, each      *)
(* answered no earlier than the station that lost it.                      *)
LEMMA LostToACrowd ==
  ASSUME NEW gates \in Seq(Gate), NEW g, NEW call \in Call, NEW t \in Nat, NEW k,
         Shut(gates, g, k, [call |-> call, next |-> t + MboxCooldown]),
         NEW answers, AnswersUpTo(answers, t), Gated(answers, gates),
         NEW more, more = answers \cup {<<call, t>>}, IsFiniteSet(more),
         NEW x \in answers, k \in 1..Len(gates), gates[k].call = x[1],
         gates[k].next >= x[2] + MboxCooldown, x[1] # call
  PROVE  Crowded(more, x)
<1> DEFINE n == Len(gates)
           B == OthersAnswered(more, x[1], x[2])
           f == [j \in 1..GateMax |-> g[j].call]
<1>1. /\ n \in Nat /\ GateMax \in Nat \ {0} /\ MboxCooldown \in Nat
      /\ x[2] \in Nat /\ x[2] <= t
  BY MailboxAssumption DEF AnswersUpTo
<1>2. \A j \in 1..n : gates[j].next \in Nat
  <2>1. \A j \in 1..n : gates[j] \in Gate
    OBVIOUS
  <2>2. QED
    BY <2>1 DEF Gate
<1>3. /\ Len(g) = GateMax /\ \A j \in 1..n : gates[k].next <= gates[j].next
      /\ k \in 1..GateMax /\ g[k].call = call
      /\ \A j \in 1..GateMax : j # k =>
           j \in 1..n /\ g[j] = gates[j] /\ gates[j].call # call
  BY DEF Shut
<1>4. \A i, j \in 1..n : gates[i].call = gates[j].call => i = j
  BY DEF Gated
<1>5. <<call, t>> \in more /\ answers \subseteq more
  OBVIOUS
<1> HIDE DEF n
<1>6. ASSUME NEW j \in 1..GateMax
      PROVE  g[j].call \in B
  <2>1. CASE j = k
    <3>1. \E y \in more : y[1] = g[j].call /\ y[1] # x[1] /\ y[2] >= x[2]
      BY <1>1, <1>3, <1>5, <2>1
    <3>2. QED
      BY <3>1 DEF OthersAnswered
  <2>2. CASE j # k
    <3>1. j \in 1..n /\ g[j] = gates[j] /\ gates[j].call # x[1]
      BY <1>3, <1>4, <2>2 DEF n
    <3>2. PICK y \in answers : y[1] = gates[j].call /\ gates[j].next = y[2] + MboxCooldown
      BY <3>1 DEF Gated, n
    <3>3. y[2] \in Nat
      BY <3>2 DEF AnswersUpTo
    <3>4. gates[j].next >= gates[k].next /\ gates[k].next \in Nat
      BY <1>2, <1>3, <3>1 DEF n
    <3>5. y[2] >= x[2]
      <4>1. gates[k].next >= x[2] + MboxCooldown
        OBVIOUS
      <4>2. \A p, q, r, c \in Nat : q + c >= r /\ r >= p + c => q >= p
        OBVIOUS
      <4>3. y[2] + MboxCooldown >= gates[k].next
        BY <3>2, <3>4
      <4>4. QED
        BY <1>1, <3>3, <3>4, <4>1, <4>2, <4>3
    <3>6. y \in more /\ y[1] = g[j].call /\ y[1] # x[1]
      BY <1>5, <3>1, <3>2
    <3>7. QED
      BY <3>5, <3>6 DEF OthersAnswered
  <2>3. QED
    BY <2>1, <2>2
<1>7. \A i, j \in 1..GateMax : g[i].call = g[j].call => i = j
  BY <1>3, <1>4
<1>8. f \in Injection(1..GateMax, B)
  <2> HIDE DEF B
  <2>1. f \in [1..GateMax -> B]
    BY <1>6
  <2>2. \A i, j \in 1..GateMax : f[i] = f[j] => i = j
    BY <1>7
  <2> HIDE DEF f
  <2>3. QED
    BY <2>1, <2>2 DEF Injection, IsInjective
<1>9. IsFiniteSet(B)
  BY AnsweredFinite
<1>10. Cardinality(1..GateMax) = GateMax
  <2>1. 1 \in Int /\ GateMax \in Int /\ ~(1 > GateMax) /\ GateMax - 1 + 1 = GateMax
    BY <1>1
  <2>2. Cardinality(1..GateMax) = GateMax - 1 + 1
    BY <2>1, FS_Interval
  <2>3. QED
    BY <2>1, <2>2
<1> HIDE DEF B, f
<1>11. Cardinality(1..GateMax) <= Cardinality(B) /\ Cardinality(B) \in Nat
  BY <1>8, <1>9, FS_Injection, FS_CardinalityType
<1>12. Cardinality(B) >= GateMax
  BY <1>1, <1>10, <1>11
<1>13. QED
  BY <1>12 DEF Crowded, B

(* One more answer, and its gate closed: everything answered is still      *)
(* cooling, or crowded out.                                                *)
LEMMA AnswerIsGated ==
  ASSUME NEW gates \in Seq(Gate), NEW call \in Call, NEW t \in Nat,
         NEW answers, AnswersUpTo(answers, t), Gated(answers, gates),
         NEW more, more = answers \cup {<<call, t>>}
  PROVE  AnswersUpTo(more, t) /\ Gated(more, CloseGate(gates, call, t))
<1> DEFINE gate == [call |-> call, next |-> t + MboxCooldown]
           g == CloseGate(gates, call, t)
           n == Len(gates)
<1>1. MboxCooldown \in Nat /\ gate.call = call /\ gate.next = t + MboxCooldown
  BY MailboxAssumption
<1>2. PICK k : Shut(gates, g, k, gate)
  BY OneGateCloses DEF Gated
<1>3. AnswersUpTo(more, t)
  <2>1. IsFiniteSet(more)
    BY FS_AddElement DEF AnswersUpTo
  <2>2. more \in SUBSET (Call \X Nat) /\ \A x \in more : x[2] <= t
    BY DEF AnswersUpTo
  <2>3. QED
    BY <2>1, <2>2 DEF AnswersUpTo
<1>4. <<call, t>> \in more /\ answers \subseteq more
  OBVIOUS
<1> HIDE DEF g, gate, n
<1>5. /\ Len(g) <= GateMax /\ k \in 1..Len(g) /\ g[k] = gate
      /\ \A j \in 1..n : j \in 1..Len(g)
      /\ \A j \in 1..Len(g) : j # k => j \in 1..n /\ g[j] = gates[j] /\ gates[j].call # call
  BY <1>1, <1>2 DEF Shut, n
<1>6. \A i, j \in 1..Len(g) : g[i].call = g[j].call => i = j
  <2>1. \A i, j \in 1..n : gates[i].call = gates[j].call => i = j
    BY DEF Gated, n
  <2>2. QED
    BY <1>1, <1>5, <2>1
<1>7. ASSUME NEW j \in 1..Len(g)
      PROVE  \E x \in more : x[1] = g[j].call /\ g[j].next = x[2] + MboxCooldown
  <2>1. CASE j = k
    BY <1>1, <1>4, <1>5, <2>1
  <2>2. CASE j # k
    BY <1>4, <1>5, <2>2 DEF Gated, n
  <2>3. QED
    BY <2>1, <2>2
<1>8. ASSUME NEW x \in answers
      PROVE  Cooling(g, x) \/ Crowded(more, x)
  <2>1. CASE Crowded(answers, x)
    BY <1>3, <1>4, <2>1, CrowdStays DEF AnswersUpTo
  <2>2. CASE Cooling(gates, x)
    <3>1. PICK j \in 1..n : gates[j].call = x[1] /\ gates[j].next >= x[2] + MboxCooldown
      BY <2>2 DEF Cooling, n
    <3>2. CASE j # k
      BY <1>5, <3>1, <3>2 DEF Cooling
    <3>3. CASE j = k /\ x[1] = call
      <4>1. x[2] \in Nat /\ x[2] <= t
        BY DEF AnswersUpTo
      <4>2. gate.next >= x[2] + MboxCooldown
        BY <1>1, <4>1
      <4>3. QED
        BY <1>1, <1>5, <3>3, <4>2 DEF Cooling
    <3>4. CASE j = k /\ x[1] # call
      BY <1>2, <1>3, <3>1, <3>4, LostToACrowd DEF n, gate, AnswersUpTo
    <3>5. QED
      BY <3>2, <3>3, <3>4
  <2>3. QED
    BY <2>1, <2>2 DEF Gated
<1>9. Cooling(g, <<call, t>>)
  <2>1. gate.next >= t + MboxCooldown
    BY <1>1
  <2>2. QED
    BY <1>1, <1>5, <2>1 DEF Cooling
<1>10. \A x \in more : Cooling(g, x) \/ Crowded(more, x)
  BY <1>8, <1>9
<1>11. Gated(more, g)
  BY <1>5, <1>6, <1>7, <1>10 DEF Gated
<1>12. QED
  BY <1>3, <1>11 DEF g

(* Who may be answered is not cooling any more.                            *)
LEMMA AnsweredLater ==
  ASSUME NEW gates \in Seq(Gate), NEW call \in Call, NEW t \in Nat, MayReply(gates, call, t),
         NEW answers, AnswersUpTo(answers, t), Gated(answers, gates),
         NEW x \in answers, x[1] = call
  PROVE  t - x[2] >= MboxCooldown \/ Crowded(answers, x)
<1>1. CASE Cooling(gates, x)
  <2>1. PICK k \in 1..Len(gates) : gates[k].call = call /\ gates[k].next >= x[2] + MboxCooldown
    BY <1>1 DEF Cooling
  <2>2. t >= gates[k].next
    BY <2>1 DEF MayReply, GateOf
  <2>3. gates[k] \in Gate
    BY <2>1
  <2>4. gates[k].next \in Nat /\ x[2] \in Nat /\ MboxCooldown \in Nat
    BY <2>3, MailboxAssumption DEF Gate, AnswersUpTo
  <2>5. QED
    BY <2>1, <2>2, <2>4
<1>2. QED
  BY <1>1 DEF Gated

\* Whom a reply answered, and when: the base call and the second of its payload.
AnswerOf(id) == <<BaseCall[id[2]], id[3]>>

IsReply(id) == id \in OwnId /\ id[1] = "reply"

\* The log knows the node's own messages, and a reply is nobody else's.
OwnLog(log) ==
  \A k \in 1..Len(log) :
    /\ log[k].src = "own" => log[k].hash[1] \in OwnId
    /\ IsReply(log[k].hash[1]) => log[k].src = "own"

\* A reply, or a help, may follow what was queued before.
MayFollow(answers, id, earlier) ==
  /\ id[1] = "reply" /\ earlier[1] = "reply" /\ BaseCall[earlier[2]] = BaseCall[id[2]]
       => id[3] - earlier[3] >= MboxCooldown \/ Crowded(answers, AnswerOf(earlier))
  /\ id[1] = "help" /\ earlier[1] = "help" => id[3] - earlier[3] >= HelpCooldown

\* What was queued of the node's own is accounted for.
Accounted(answers, id, help) ==
  /\ id \in OwnId
  /\ id[1] = "reply" => AnswerOf(id) \in answers
  /\ id[1] = "help" => id[3] + HelpCooldown <= help

OwnAt(hist, i) == i \in 1..Len(hist) /\ hist[i].src = "own"

SaidOK(hist, answers, help) ==
  /\ \A i \in 1..Len(hist) : OwnAt(hist, i) => Accounted(answers, hist[i].hash[1], help)
  /\ \A i, j \in 1..Len(hist) :
       i < j /\ OwnAt(hist, i) /\ OwnAt(hist, j)
         => MayFollow(answers, hist[j].hash[1], hist[i].hash[1])

\* A message of the node may be queued next.
Timely(hist, answers, id, help) ==
  /\ Accounted(answers, id, help)
  /\ \A i \in 1..Len(hist) : OwnAt(hist, i) => MayFollow(answers, id, hist[i].hash[1])

\* The answers and helps of the node are spaced.
Polite(s) ==
  /\ OwnLog(s.ring.log)
  /\ AnswersUpTo(Answers(s.ring.log), clock) /\ Gated(Answers(s.ring.log), s.gates)
  /\ SaidOK(s.hist, Answers(s.ring.log), s.help)

Mannered(s) == Core(s) /\ HistOK(s) /\ Polite(s)

LEMMA OwnIdParts ==
  ASSUME NEW id \in OwnId
  PROVE  id[1] \in OwnKind /\ id[2] \in Name /\ id[3] \in Nat /\ AnswerOf(id) \in Call \X Nat
<1>1. id[1] \in OwnKind /\ id[2] \in Name /\ id[3] \in Nat
  BY DEF OwnId
<1>2. BaseCall[id[2]] \in Call
  BY <1>1, MeshAssumption
<1>3. QED
  BY <1>1, <1>2 DEF AnswerOf

LEMMA InAnswers ==
  ASSUME NEW log, OwnLog(log), NEW x
  PROVE  x \in Answers(log) <=>
           \E k \in 1..Len(log) : IsReply(log[k].hash[1]) /\ x = AnswerOf(log[k].hash[1])
<1>1. \A k \in 1..Len(log) :
        IsReply(log[k].hash[1]) <=> log[k].src = "own" /\ log[k].hash[1][1] = "reply"
  BY DEF OwnLog, IsReply
<1>2. x \in Answers(log) <=>
        \E k \in 1..Len(log) :
          /\ log[k].src = "own" /\ log[k].hash[1][1] = "reply"
          /\ x = <<BaseCall[log[k].hash[1][2]], log[k].hash[1][3]>>
  BY DEF Answers
<1>3. QED
  BY <1>1, <1>2 DEF AnswerOf

\* The answer that recording a message of the node adds, if it is a reply.
AnswerAdded(id) == IF IsReply(id) THEN {AnswerOf(id)} ELSE {}

(* seen_check_and_add: a reply recorded is an answer.                      *)
LEMMA RecordedAnswers ==
  ASSUME NEW s, Core(s), OwnLog(s.ring.log), NEW f \in Frame, NEW src \in Source,
         src = "own" => f.msg.id \in OwnId, IsReply(f.msg.id) => src = "own",
         NEW t, t = Recorded(s, f, src), Core(t)
  PROVE  /\ OwnLog(t.ring.log) /\ Answers(t.ring.log) = Answers(s.ring.log) \cup AnswerAdded(f.msg.id)
         /\ t.gates = s.gates /\ t.help = s.help /\ t.hist = s.hist
<1> DEFINE h == HashOf(f)
           n == Len(s.ring.log)
<1>1. n \in Nat /\ s \in MeshType
  BY LogType
<1>2. h[1] = f.msg.id
  BY DEF HashOf
<1>3. Logged(s, t, h, src)
  BY RecordedIs
<1>4. t.gates = s.gates /\ t.help = s.help /\ t.hist = s.hist
  BY <1>1 DEF Recorded, MeshType
<1>5. PICK k \in 1..Len(t.ring.log) : t.ring.log[k].hash = h
  BY RecordedHasRecord
<1> HIDE DEF h, n
<1>6. OwnLog(t.ring.log)
  <2>1. CASE Seen(s.ring, h)
    BY <1>3, <2>1 DEF Logged, OwnLog
  <2>2. CASE ~Seen(s.ring, h)
    <3>1. /\ Len(t.ring.log) = n + 1
          /\ t.ring.log[n + 1].hash = h /\ t.ring.log[n + 1].src = src
          /\ \A j \in 1..n : t.ring.log[j] = s.ring.log[j]
      BY <1>3, <2>2 DEF Logged, n
    <3>2. \A j \in 1..n + 1 : j = n + 1 \/ j \in 1..n
      BY <1>1
    <3> SUFFICES ASSUME NEW j \in 1..n + 1
                 PROVE  /\ t.ring.log[j].src = "own" => t.ring.log[j].hash[1] \in OwnId
                        /\ IsReply(t.ring.log[j].hash[1]) => t.ring.log[j].src = "own"
      BY <3>1 DEF OwnLog
    <3>3. CASE j = n + 1
      BY <1>2, <3>1, <3>3
    <3>4. CASE j \in 1..n
      BY <3>1, <3>4 DEF OwnLog, n
    <3>5. QED
      BY <3>2, <3>3, <3>4
  <2>3. QED
    BY <2>1, <2>2
<1>7. \A x : x \in Answers(t.ring.log) <=> x \in Answers(s.ring.log) \/ x \in AnswerAdded(f.msg.id)
  <2>1. \A x : x \in AnswerAdded(f.msg.id) => x \in Answers(t.ring.log)
    BY <1>2, <1>5, <1>6, InAnswers DEF AnswerAdded
  <2>2. CASE Seen(s.ring, h)
    <3>1. t.ring = s.ring
      BY <1>3, <2>2 DEF Logged
    <3>2. Answers(t.ring.log) = Answers(s.ring.log)
      BY <3>1 DEF Answers
    <3>3. QED
      BY <2>1, <3>2
  <2>3. CASE ~Seen(s.ring, h)
    <3>1. /\ Len(t.ring.log) = n + 1 /\ t.ring.log[n + 1].hash = h
          /\ \A j \in 1..n : t.ring.log[j] = s.ring.log[j] /\ j \in 1..n + 1
      BY <1>1, <1>3, <2>3 DEF Logged, n
    <3>2. \A j \in 1..n + 1 : j = n + 1 \/ j \in 1..n
      BY <1>1
    <3>3. \A x : x \in Answers(s.ring.log) <=> \E j \in 1..n :
            IsReply(s.ring.log[j].hash[1]) /\ x = AnswerOf(s.ring.log[j].hash[1])
      BY InAnswers DEF n
    <3>4. \A x : x \in Answers(t.ring.log) <=> \E j \in 1..n + 1 :
            IsReply(t.ring.log[j].hash[1]) /\ x = AnswerOf(t.ring.log[j].hash[1])
      <4>1. \A x : x \in Answers(t.ring.log) <=> \E j \in 1..Len(t.ring.log) :
              IsReply(t.ring.log[j].hash[1]) /\ x = AnswerOf(t.ring.log[j].hash[1])
        BY <1>6, InAnswers
      <4>2. QED
        BY <3>1, <4>1
    <3>5. ASSUME NEW x \in Answers(s.ring.log)
          PROVE  x \in Answers(t.ring.log)
      BY <3>1, <3>3, <3>4
    <3>6. ASSUME NEW x \in Answers(t.ring.log)
          PROVE  x \in Answers(s.ring.log) \/ x \in AnswerAdded(f.msg.id)
      <4>1. PICK j \in 1..n + 1 :
              IsReply(t.ring.log[j].hash[1]) /\ x = AnswerOf(t.ring.log[j].hash[1])
        BY <3>4
      <4>2. CASE j = n + 1
        BY <1>2, <3>1, <4>1, <4>2 DEF AnswerAdded
      <4>3. CASE j \in 1..n
        BY <3>1, <3>3, <4>1, <4>3
      <4>4. QED
        BY <3>2, <4>2, <4>3
    <3>7. QED
      BY <2>1, <3>5, <3>6
  <2>4. QED
    BY <2>2, <2>3
<1>8. QED
  BY <1>4, <1>6, <1>7

(* enqueue: what is the node's own follows what it may.                    *)
LEMMA PutSaid ==
  ASSUME NEW s, Core(s), NEW answers, NEW help, SaidOK(s.hist, answers, help),
         NEW f \in Frame, NEW src \in Source, NEW prio, NEW delay, NEW power,
         src = "own" => Timely(s.hist, answers, f.msg.id, help),
         NEW t, t = Put(s, f, src, prio, delay, power)
  PROVE  /\ SaidOK(t.hist, answers, help)
         /\ t.ring = s.ring /\ t.gates = s.gates /\ t.help = s.help
<1> DEFINE h == HashOf(f)
           x == Len(s.hist)
           n == LatestRecord(s, h)
           g == [hash |-> h, at |-> n, src |-> src, offered |-> Offered(f, src)]
<1>1. /\ s \in MeshType /\ s.hist \in Seq(Queued) /\ x \in Nat
      /\ s.ring \in RingType(Hash, Source)
  BY LogType
<1>2. h[1] = f.msg.id
  BY DEF HashOf
<1>3. g \in Queued
  <2>1. h \in Hash /\ n \in Nat /\ Offered(f, src) \in BOOLEAN
    BY <1>1, HashOfIsHash, LatestRecordIsNat DEF Offered
  <2> HIDE DEF h, n
  <2>2. QED
    BY <2>1 DEF Queued
<1>4. g.hash = h /\ g.src = src
  OBVIOUS
<1>5. /\ t.ring = s.ring /\ t.gates = s.gates /\ t.help = s.help
      /\ t.hist = s.hist \/ t.hist = Append(s.hist, g)
  <2> HIDE DEF g
  <2>1. \A q, y : LET u == [s EXCEPT !.txq = q, !.hist = y]
                  IN u.ring = s.ring /\ u.gates = s.gates /\ u.help = s.help /\ u.hist = y
    BY <1>1 DEF MeshType
  <2>2. t = s \/ \E q : t = [s EXCEPT !.txq = q, !.hist = Append(s.hist, g)]
    BY DEF Put, g
  <2>3. ASSUME NEW q, t = [s EXCEPT !.txq = q, !.hist = Append(s.hist, g)]
        PROVE  /\ t.ring = s.ring /\ t.gates = s.gates /\ t.help = s.help
               /\ t.hist = Append(s.hist, g)
    BY <2>1, <2>3
  <2>4. QED
    BY <2>2, <2>3
<1> HIDE DEF g, h, n, x
<1>6. CASE t.hist = s.hist
  BY <1>5, <1>6 DEF SaidOK, OwnAt
<1>7. CASE t.hist = Append(s.hist, g)
  <2>1. Len(t.hist) = x + 1 /\ t.hist[x + 1] = g /\ \A i \in 1..x : t.hist[i] = s.hist[i]
    BY <1>1, <1>3, <1>7 DEF x
  <2>2. \A i \in 1..x + 1 : i = x + 1 \/ i \in 1..x
    BY <1>1
  <2>3. \A i \in 1..x : OwnAt(t.hist, i) <=> OwnAt(s.hist, i)
    <3>1. \A i \in 1..x : i \in 1..x + 1
      BY <1>1
    <3>2. QED
      BY <2>1, <3>1 DEF OwnAt, x
  <2>4. OwnAt(t.hist, x + 1) => src = "own"
    BY <1>4, <2>1 DEF OwnAt
  <2>5. ASSUME NEW i \in 1..x + 1, OwnAt(t.hist, i)
        PROVE  Accounted(answers, t.hist[i].hash[1], help)
    <3>1. CASE i = x + 1
      BY <1>2, <1>4, <2>1, <2>4, <2>5, <3>1 DEF Timely
    <3>2. CASE i \in 1..x
      BY <2>1, <2>3, <2>5, <3>2 DEF SaidOK, x
    <3>3. QED
      BY <2>2, <3>1, <3>2
  <2>6. ASSUME NEW i \in 1..x + 1, NEW j \in 1..x + 1, i < j, OwnAt(t.hist, i), OwnAt(t.hist, j)
        PROVE  MayFollow(answers, t.hist[j].hash[1], t.hist[i].hash[1])
    <3>1. i \in 1..x
      BY <1>1, <2>6
    <3>2. CASE j = x + 1
      BY <1>2, <1>4, <2>1, <2>3, <2>4, <2>6, <3>1, <3>2 DEF Timely, x
    <3>3. CASE j \in 1..x
      BY <2>1, <2>3, <2>6, <3>1, <3>3 DEF SaidOK, x
    <3>4. QED
      BY <2>2, <3>2, <3>3
  <2>7. QED
    BY <1>5, <2>1, <2>5, <2>6 DEF SaidOK
<1>8. QED
  BY <1>5, <1>6, <1>7

(* Who is accounted for stays so when more are answered and a later help   *)
(* is allowed later.                                                       *)
LEMMA SaidGrows ==
  ASSUME NEW s, NEW answers, IsFiniteSet(answers), NEW help \in Nat, SaidOK(s.hist, answers, help),
         NEW more, more \in SUBSET (Call \X Nat), IsFiniteSet(more), answers \subseteq more,
         NEW later \in Nat, help <= later
  PROVE  SaidOK(s.hist, more, later)
<1>1. ASSUME NEW id, Accounted(answers, id, help)
      PROVE  Accounted(more, id, later)
  <2>1. HelpCooldown \in Nat /\ id[3] \in Nat
    BY <1>1, MeshAssumption, OwnIdParts DEF Accounted
  <2>2. id[3] + HelpCooldown <= help => id[3] + HelpCooldown <= later
    BY <2>1
  <2>3. QED
    BY <1>1, <2>2 DEF Accounted
<1>2. ASSUME NEW id, NEW earlier, MayFollow(answers, id, earlier)
      PROVE  MayFollow(more, id, earlier)
  BY <1>2, CrowdStays DEF MayFollow
<1>3. QED
  BY <1>1, <1>2 DEF SaidOK

(* A message of the node is recorded and queued.                           *)
LEMMA OwnSaid ==
  ASSUME NEW s, Core(s), HistOK(s), OwnLog(s.ring.log), clock \in Nat,
         NEW f \in Frame, Sendable(f, "own", OwnPower), NEW prio \in Nat, NEW delay \in Nat,
         NEW answers, answers = Answers(s.ring.log) \cup AnswerAdded(f.msg.id), NEW help,
         SaidOK(s.hist, answers, help), Timely(s.hist, answers, f.msg.id, help),
         NEW r, r = Recorded(s, f, "own"), NEW t, t = Put(r, f, "own", prio, delay, OwnPower)
  PROVE  /\ OwnLog(r.ring.log) /\ Answers(r.ring.log) = answers /\ SaidOK(r.hist, answers, help)
         /\ r.gates = s.gates /\ r.help = s.help
         /\ OwnLog(t.ring.log) /\ Answers(t.ring.log) = answers /\ SaidOK(t.hist, answers, help)
         /\ t.gates = s.gates /\ t.help = s.help
<1>1. "own" \in Source /\ f.msg.id \in OwnId
  BY DEF Source, Sendable
<1>2. Core(r)
  BY OwnAdds DEF Adds
<1>3. /\ OwnLog(r.ring.log) /\ Answers(r.ring.log) = answers /\ r.gates = s.gates /\ r.help = s.help
      /\ r.hist = s.hist
  BY <1>1, <1>2, RecordedAnswers
<1>4. SaidOK(r.hist, answers, help)
  BY <1>3
<1>5. SaidOK(t.hist, answers, help) /\ t.ring = r.ring /\ t.gates = r.gates /\ t.help = r.help
  <2>1. Timely(r.hist, answers, f.msg.id, help)
    BY <1>3
  <2>2. QED
    BY <1>1, <1>2, <1>4, <2>1, PutSaid
<1>6. OwnLog(t.ring.log) /\ Answers(t.ring.log) = Answers(r.ring.log)
  BY <1>3, <1>5
<1>7. QED
  BY <1>3, <1>4, <1>5, <1>6

(* Neither a reply nor a help disturbs nothing.                            *)
LEMMA OwnMannered ==
  ASSUME NEW s, Mannered(s), clock \in Nat,
         NEW f \in Frame, Sendable(f, "own", OwnPower), NEW prio \in Nat, NEW delay \in Nat,
         f.msg.id[1] # "reply", f.msg.id[1] # "help",
         NEW r, r = Recorded(s, f, "own"), NEW t, t = Put(r, f, "own", prio, delay, OwnPower)
  PROVE  Mannered(r) /\ Mannered(t)
<1>1. Core(s) /\ HistOK(s) /\ Polite(s) /\ f.msg.id \in OwnId
  BY DEF Mannered, Sendable
<1>2. Adds(s, r) /\ Adds(s, t)
  BY <1>1, OwnAdds
<1>3. Answers(s.ring.log) = Answers(s.ring.log) \cup AnswerAdded(f.msg.id)
  BY DEF AnswerAdded, IsReply
<1>4. Timely(s.hist, Answers(s.ring.log), f.msg.id, s.help)
  BY <1>1 DEF Timely, Accounted, MayFollow
<1>6. OwnLog(s.ring.log) /\ SaidOK(s.hist, Answers(s.ring.log), s.help)
  BY <1>1 DEF Polite
<1>7. /\ OwnLog(r.ring.log) /\ Answers(r.ring.log) = Answers(s.ring.log) /\ SaidOK(r.hist, Answers(s.ring.log), s.help)
      /\ r.gates = s.gates /\ r.help = s.help
      /\ OwnLog(t.ring.log) /\ Answers(t.ring.log) = Answers(s.ring.log) /\ SaidOK(t.hist, Answers(s.ring.log), s.help)
      /\ t.gates = s.gates /\ t.help = s.help
  BY <1>1, <1>3, <1>4, <1>6, OwnSaid
<1>8. Polite(r) /\ Polite(t)
  BY <1>1, <1>7 DEF Polite
<1>9. QED
  BY <1>2, <1>8 DEF Adds, Mannered

\* What the past of a state is made of.
SamePast(s, t) == t.ring = s.ring /\ t.hist = s.hist /\ t.gates = s.gates /\ t.help = s.help

LEMMA SameMannered ==
  ASSUME NEW s, Mannered(s), NEW t, Core(t), SamePast(s, t)
  PROVE  Mannered(t)
<1>1. HistOK(t)
  BY DEF Mannered, SamePast, HistOK, OwnRecords, HistRecorded, OnceEach
<1>2. Polite(t)
  BY DEF Mannered, SamePast, Polite
<1>3. QED
  BY <1>1, <1>2 DEF Mannered

(* A help is given when its cooldown is over, and closes for another.      *)
LEMMA HelpSaid ==
  ASSUME NEW s, Mannered(s), clock \in Nat, clock >= s.help,
         NEW f \in Frame, Sendable(f, "own", OwnPower), NEW prio \in Nat, NEW delay \in Nat,
         f.msg.id[1] = "help", f.msg.id[3] = clock,
         NEW late, late = clock + HelpCooldown,
         NEW r, r = Recorded(s, f, "own"), NEW t, t = Put(r, f, "own", prio, delay, OwnPower)
  PROVE  /\ OwnLog(t.ring.log) /\ Answers(t.ring.log) = Answers(s.ring.log)
         /\ SaidOK(t.hist, Answers(s.ring.log), late) /\ t.gates = s.gates
<1> DEFINE A == Answers(s.ring.log)
<1>1. /\ Core(s) /\ HistOK(s) /\ s.help \in Nat /\ HelpCooldown \in Nat
      /\ OwnLog(s.ring.log) /\ AnswersUpTo(A, clock) /\ SaidOK(s.hist, A, s.help)
  BY MeshAssumption DEF Mannered, Polite, Core, MeshType
<1>2. f.msg.id \in OwnId
  BY DEF Sendable
<1>3. late \in Nat /\ s.help <= late /\ clock + HelpCooldown <= late
  BY <1>1
<1>4. A = A \cup AnswerAdded(f.msg.id)
  BY DEF AnswerAdded, IsReply
<1> HIDE DEF A
<1>5. SaidOK(s.hist, A, late)
  BY <1>1, <1>3, SaidGrows DEF AnswersUpTo
<1>6. ASSUME NEW i \in 1..Len(s.hist), OwnAt(s.hist, i)
      PROVE  MayFollow(A, f.msg.id, s.hist[i].hash[1])
  <2> DEFINE id == s.hist[i].hash[1]
  <2>1. Accounted(A, id, s.help)
    BY <1>1, <1>6 DEF SaidOK
  <2> HIDE DEF id
  <2>2. id[3] \in Nat /\ (id[1] = "help" => id[3] + HelpCooldown <= s.help)
    BY <2>1, OwnIdParts DEF Accounted
  <2>3. id[1] = "help" => clock - id[3] >= HelpCooldown
    BY <1>1, <2>2
  <2>4. QED
    BY <2>3 DEF MayFollow, id
<1>7. Timely(s.hist, A, f.msg.id, late)
  BY <1>2, <1>3, <1>6 DEF Timely, Accounted
<1>8. A = Answers(s.ring.log) \cup AnswerAdded(f.msg.id)
  BY <1>4 DEF A
<1>9. OwnLog(t.ring.log) /\ Answers(t.ring.log) = A /\ SaidOK(t.hist, A, late) /\ t.gates = s.gates
  BY <1>1, <1>5, <1>7, <1>8, OwnSaid
<1>10. QED
  BY <1>9 DEF A

LEMMA HelpMannered ==
  ASSUME NEW s, Mannered(s), clock \in Nat, clock >= s.help, NEW chan \in Channel,
         NEW delay \in Nat, NEW u, Core(u), HistOK(u),
         u = [Announce(s, "help", chan, delay) EXCEPT !.help = clock + HelpCooldown]
  PROVE  Mannered(u)
<1> DEFINE f == OwnFrame("help", "", chan, clock, "flood", <<>>, 1)
           r == Recorded(s, f, "own")
           t == Put(r, f, "own", 1, delay, OwnPower)
           late == clock + HelpCooldown
<1>1. Core(s) /\ HistOK(s) /\ 1 \in Nat
  BY DEF Mannered
<1>2. f \in Frame /\ Sendable(f, "own", OwnPower)
  <2>1. /\ "help" \in OwnKind /\ chan \in Channel \cup {"unknown"} /\ "help" # "advert"
        /\ "flood" \in {"flood", "direct"} /\ 1 \in 1..3
    BY DEF OwnKind
  <2>2. QED
    BY <2>1, NothingIsNamed, OwnFrameIsFrame, OwnSendable
<1>3. f.msg.id[1] = "help" /\ f.msg.id[3] = clock
  BY DEF OwnFrame, OwnMessage
<1>4. u = [t EXCEPT !.help = late]
  BY DEF Announce, Say
<1> HIDE DEF f
<1>5. Core(t)
  BY <1>1, <1>2, OwnAdds DEF Adds
<1>6. /\ OwnLog(t.ring.log) /\ Answers(t.ring.log) = Answers(s.ring.log)
      /\ SaidOK(t.hist, Answers(s.ring.log), late) /\ t.gates = s.gates
  <2>1. PICK g \in Frame : g = f
    BY <1>2
  <2>2. PICK one \in Nat : one = 1
    OBVIOUS
  <2>3. Sendable(g, "own", OwnPower) /\ g.msg.id[1] = "help" /\ g.msg.id[3] = clock
    BY <1>2, <1>3, <2>1
  <2>4. r = Recorded(s, g, "own") /\ t = Put(r, g, "own", one, delay, OwnPower)
    BY <2>1, <2>2
  <2>5. late = clock + HelpCooldown
    OBVIOUS
  <2> HIDE DEF r, t, late
  <2>6. QED
    BY <2>3, <2>4, <2>5, HelpSaid
<1> HIDE DEF r, t, late
<1>7. u.ring = t.ring /\ u.hist = t.hist /\ u.gates = t.gates /\ u.help = late
  BY <1>4, <1>5 DEF Core, MeshType
<1>8. AnswersUpTo(Answers(s.ring.log), clock) /\ Gated(Answers(s.ring.log), s.gates)
  BY DEF Mannered, Polite
<1>9. QED
  BY <1>6, <1>7, <1>8 DEF Mannered, Polite

(* A reply is given when the station is not cooling, and closes its gate:  *)
(* it joins the answers, and what was queued before stays accounted for.   *)
LEMMA ReplySaid ==
  ASSUME NEW s, Mannered(s), clock \in Nat,
         NEW f \in Frame, Sendable(f, "own", OwnPower), NEW prio \in Nat, NEW delay \in Nat,
         NEW call \in Call, MayReply(s.gates, call, clock),
         f.msg.id[1] = "reply", AnswerOf(f.msg.id) = <<call, clock>>,
         BaseCall[f.msg.id[2]] = call, f.msg.id[3] = clock,
         NEW gates, gates = CloseGate(s.gates, call, clock),
         NEW shut, Core(shut), SameHist(s, shut), shut.help = s.help,
         NEW more, more = Answers(s.ring.log) \cup {<<call, clock>>},
         NEW r, r = Recorded(shut, f, "own"),
         NEW t, t = Put(r, f, "own", prio, delay, OwnPower)
  PROVE  /\ OwnLog(t.ring.log) /\ Answers(t.ring.log) = more
         /\ AnswersUpTo(more, clock) /\ Gated(more, gates)
         /\ SaidOK(t.hist, more, s.help) /\ t.gates = shut.gates /\ t.help = s.help
<1> DEFINE A == Answers(s.ring.log)
<1>1. /\ Core(s) /\ HistOK(s) /\ s.gates \in Seq(Gate) /\ s.help \in Nat
      /\ OwnLog(s.ring.log) /\ AnswersUpTo(A, clock) /\ Gated(A, s.gates)
      /\ SaidOK(s.hist, A, s.help)
  BY DEF Mannered, Polite, Core, MeshType
<1>2. f.msg.id \in OwnId
  BY DEF Sendable
<1>3. AnswersUpTo(more, clock) /\ Gated(more, gates)
  BY <1>1, AnswerIsGated
<1>4. HistOK(shut) /\ shut.ring = s.ring /\ shut.hist = s.hist
  BY <1>1, SameHistGrows DEF SameHist
<1>5. more = Answers(shut.ring.log) \cup AnswerAdded(f.msg.id)
  BY <1>2, <1>4 DEF AnswerAdded, IsReply
<1> HIDE DEF A
<1>6. A \subseteq more /\ <<call, clock>> \in more
  BY DEF A
<1>7. SaidOK(shut.hist, more, s.help)
  <2>1. s.help <= s.help
    BY <1>1
  <2>2. QED
    BY <1>1, <1>3, <1>4, <1>6, <2>1, SaidGrows DEF AnswersUpTo
<1>8. ASSUME NEW i \in 1..Len(shut.hist), OwnAt(shut.hist, i)
      PROVE  MayFollow(more, f.msg.id, shut.hist[i].hash[1])
  <2> DEFINE id == s.hist[i].hash[1]
  <2>1. Accounted(A, id, s.help)
    BY <1>1, <1>4, <1>8 DEF SaidOK
  <2> HIDE DEF id
  <2> SUFFICES ASSUME id[1] = "reply", BaseCall[id[2]] = call
               PROVE  clock - id[3] >= MboxCooldown \/ Crowded(more, AnswerOf(id))
    BY <1>4 DEF MayFollow, id
  <2>2. AnswerOf(id) \in A /\ AnswerOf(id)[1] = call /\ AnswerOf(id)[2] = id[3]
    BY <2>1 DEF Accounted, AnswerOf
  <2>3. clock - id[3] >= MboxCooldown \/ Crowded(A, AnswerOf(id))
    BY <1>1, <2>2, AnsweredLater
  <2>4. QED
    BY <1>1, <1>3, <1>6, <2>3, CrowdStays DEF AnswersUpTo
<1>9. Timely(shut.hist, more, f.msg.id, s.help)
  BY <1>2, <1>6, <1>8 DEF Timely, Accounted
<1>10. /\ OwnLog(t.ring.log) /\ Answers(t.ring.log) = more /\ SaidOK(t.hist, more, s.help)
       /\ t.gates = shut.gates /\ t.help = shut.help
  <2>1. OwnLog(shut.ring.log)
    BY <1>1, <1>4
  <2>2. PICK help : help = s.help
    OBVIOUS
  <2>3. SaidOK(shut.hist, more, help) /\ Timely(shut.hist, more, f.msg.id, help)
    BY <1>7, <1>9, <2>2
  <2>4. /\ OwnLog(t.ring.log) /\ Answers(t.ring.log) = more /\ SaidOK(t.hist, more, help)
        /\ t.gates = shut.gates /\ t.help = shut.help
    <3>1. HistOK(shut)
      BY <1>4
    <3>2. QED
      BY <1>5, <2>1, <2>3, <3>1, OwnSaid
  <2>5. QED
    BY <2>2, <2>4
<1>11. QED
  BY <1>3, <1>10

LEMMA ReplyMannered ==
  ASSUME NEW s, Mannered(s), clock \in Nat, NEW f \in Frame, f.msg.chan \in Channel,
         NEW call, call = BaseCall[f.msg.sender], MayReply(s.gates, call, clock),
         NEW delay \in Nat, NEW shut, Core(shut), SameHist(s, shut), shut.help = s.help,
         shut.gates = CloseGate(s.gates, call, clock),
         NEW u, u = ReplyTo(shut, f, delay), Core(u), HistOK(u)
  PROVE  Mannered(u)
<1> DEFINE g == OwnFrame("reply", f.msg.sender, f.msg.chan, clock, "direct",
                         Reversed(f.path), f.hs)
           gates == CloseGate(s.gates, call, clock)
           more == Answers(s.ring.log) \cup {<<call, clock>>}
<1>1. Core(s) /\ s \in MeshType /\ 1 \in Nat
  BY DEF Mannered, Core
<1>2. f.msg.sender \in Name /\ call \in Call
  <2>1. f.msg.sender \in Name
    BY DEF Frame, Message
  <2>2. QED
    BY <2>1, MeshAssumption
<1>3. g \in Frame /\ Sendable(g, "own", OwnPower)
  <2>1. /\ f.hs \in 1..3 /\ f.path \in Seq(Node) /\ "reply" \in OwnKind
    BY DEF Frame, Message, OwnKind
  <2>2. Reversed(f.path) \in Seq(Node)
    BY <2>1, ReversedIsPath
  <2>3. QED
    BY <1>2, <2>1, <2>2, OwnFrameIsFrame, OwnSendable
<1>4. /\ g.msg.id[1] = "reply" /\ g.msg.id[3] = clock
      /\ BaseCall[g.msg.id[2]] = call /\ AnswerOf(g.msg.id) = <<call, clock>>
  BY DEF OwnFrame, OwnMessage, AnswerOf
<1>5. u = Put(Recorded(shut, g, "own"), g, "own", 1, delay, OwnPower)
  BY DEF ReplyTo, Say
<1> HIDE DEF g
<1>6. shut.gates = gates
  OBVIOUS
<1> HIDE DEF gates, more
<1>8. gates = CloseGate(s.gates, call, clock) /\ more = Answers(s.ring.log) \cup {<<call, clock>>}
  BY DEF gates, more
<1>9. /\ OwnLog(u.ring.log) /\ Answers(u.ring.log) = more
      /\ AnswersUpTo(more, clock) /\ Gated(more, gates)
      /\ SaidOK(u.hist, more, s.help) /\ u.gates = shut.gates /\ u.help = s.help
  <2>1. PICK h \in Frame : h = g
    BY <1>3
  <2>2. PICK one \in Nat : one = 1
    OBVIOUS
  <2>3. PICK r : r = Recorded(shut, h, "own")
    OBVIOUS
  <2>4. /\ Sendable(h, "own", OwnPower) /\ u = Put(r, h, "own", one, delay, OwnPower)
        /\ h.msg.id[1] = "reply" /\ h.msg.id[3] = clock
        /\ BaseCall[h.msg.id[2]] = call /\ AnswerOf(h.msg.id) = <<call, clock>>
    BY <1>3, <1>4, <1>5, <2>1, <2>2, <2>3
  <2>5. QED
    BY <1>2, <1>8, <2>3, <2>4, ReplySaid
<1>10. QED
  BY <1>6, <1>9 DEF Mannered, Polite
----------------------------------------------------------------------------
(* Every handler keeps its manners.                                        *)
LEMMA SendAdvertMannered ==
  ASSUME NEW s, Mannered(s), clock \in Nat, NEW delay \in Nat
  PROVE  Mannered(SendAdvert(s, delay))
<1> DEFINE f == OwnFrame("advert", "", "unknown", clock, "flood", <<>>, 1)
           r == Recorded(s, f, "own")
           p == Put(r, f, "own", 0, delay, OwnPower)
           t == [p EXCEPT !.last_advert = clock]
<1>1. f \in Frame /\ Sendable(f, "own", OwnPower)
  <2>1. /\ "advert" \in OwnKind /\ "unknown" \in Channel \cup {"unknown"}
        /\ "flood" \in {"flood", "direct"} /\ 1 \in 1..3
    BY DEF OwnKind
  <2>2. QED
    BY <2>1, NothingIsNamed, OwnFrameIsFrame, OwnSendable
<1>2. f.msg.id[1] = "advert"
  BY DEF OwnFrame, OwnMessage
<1>3. SendAdvert(s, delay) \in {s, r, t}
  BY DEF SendAdvert
<1>4. Core(SendAdvert(s, delay))
  BY SendAdvertKeeps DEF Keeps, Mannered
<1> HIDE DEF f
<1>5. Mannered(r) /\ Mannered(p)
  <2>1. PICK zero \in Nat : zero = 0
    OBVIOUS
  <2>2. PICK g \in Frame : g = f
    BY <1>1
  <2>3. /\ Sendable(g, "own", OwnPower) /\ g.msg.id[1] # "reply" /\ g.msg.id[1] # "help"
        /\ r = Recorded(s, g, "own") /\ p = Put(r, g, "own", zero, delay, OwnPower)
    BY <1>1, <1>2, <2>1, <2>2
  <2> HIDE DEF r, p
  <2>4. QED
    BY <2>3, OwnMannered
<1> HIDE DEF r, p
<1>6. SamePast(p, t)
  BY <1>5 DEF Mannered, Core, MeshType, SamePast
<1> HIDE DEF t
<1>7. QED
  BY <1>3, <1>4, <1>5, <1>6, SameMannered

LEMMA AnnounceMannered ==
  ASSUME NEW s, Mannered(s), clock \in Nat, NEW delay \in Nat,
         NEW kind \in OwnKind \ {"advert", "help", "reply"}, NEW chan \in Channel
  PROVE  Mannered(Announce(s, kind, chan, delay))
<1> DEFINE f == OwnFrame(kind, "", chan, clock, "flood", <<>>, 1)
<1>1. f \in Frame /\ Sendable(f, "own", OwnPower)
  <2>1. /\ kind \in OwnKind /\ kind # "advert" /\ chan \in Channel \cup {"unknown"}
        /\ "flood" \in {"flood", "direct"} /\ 1 \in 1..3
    OBVIOUS
  <2>2. QED
    BY <2>1, NothingIsNamed, OwnFrameIsFrame, OwnSendable
<1>2. f.msg.id[1] = kind /\ kind # "reply" /\ kind # "help"
  BY DEF OwnFrame, OwnMessage
<1> HIDE DEF f
<1>3. PICK one \in Nat : one = 1
  OBVIOUS
<1>4. PICK g \in Frame : g = f
  BY <1>1
<1>5. PICK r : r = Recorded(s, g, "own")
  OBVIOUS
<1>6. PICK t : t = Put(r, g, "own", one, delay, OwnPower)
  OBVIOUS
<1>7. Sendable(g, "own", OwnPower) /\ g.msg.id[1] # "reply" /\ g.msg.id[1] # "help"
  BY <1>1, <1>2, <1>4
<1>8. Mannered(t)
  BY <1>5, <1>6, <1>7, OwnMannered
<1>9. Announce(s, kind, chan, delay) = t
  BY <1>3, <1>4, <1>5, <1>6 DEF Announce, Say, f
<1>10. QED
  BY <1>8, <1>9

LEMMA WakeMannered ==
  ASSUME NEW s, Good(s), Mannered(s), clock \in Nat, NEW f, NEW d \in Delays
  PROVE  Mannered(Wake(s, f, d))
<1> DEFINE late == clock + Awake
           w == [s EXCEPT !.until = late]
           u == [w EXCEPT !.silent = FALSE]
           v == SendAdvert(u, d.jitter)
           b == [v EXCEPT !.soon = TRUE]
<1>1. s \in MeshType /\ Core(s) /\ d.jitter \in Nat
  BY DelaysAreNat DEF Good, Core
<1>2. late \in Nat
  <2>1. Awake \in Nat
    BY MeshAssumption
  <2>2. QED
    BY <2>1
<1>3. Core(Wake(s, f, d))
  BY WakeGood DEF Good
<1>4. Wake(s, f, d) \in {s, w, b}
  BY DEF Wake, BackOnAir
<1> HIDE DEF late
<1>5. w \in MeshType /\ SamePast(s, w) /\ w.txq = s.txq
  BY <1>1, <1>2 DEF MeshType, SamePast
<1> HIDE DEF w
<1>6. CASE Wake(s, f, d) = b
  <2>1. u \in MeshType /\ SamePast(s, u) /\ u.txq = s.txq /\ ~u.silent
    BY <1>5 DEF MeshType, SamePast
  <2> HIDE DEF u
  <2>2. Core(u)
    BY <1>1, <2>1 DEF SamePast, Core, QueueOK, SilentOK
  <2>3. Mannered(v)
    BY <1>1, <2>1, <2>2, SameMannered, SendAdvertMannered
  <2> HIDE DEF v
  <2>4. SamePast(v, b)
    BY <2>3 DEF Mannered, Core, MeshType, SamePast
  <2> HIDE DEF b
  <2>5. QED
    BY <1>3, <1>6, <2>3, <2>4, SameMannered
<1> HIDE DEF b
<1>7. CASE Wake(s, f, d) = w
  BY <1>3, <1>5, <1>7, SameMannered
<1>8. QED
  BY <1>4, <1>6, <1>7

LEMMA LearnMannered ==
  ASSUME NEW s, Good(s), Mannered(s), clock \in Nat, NEW f \in Frame, NEW src, NEW d \in Delays
  PROVE  Mannered(Learn(s, f, src, d))
<1> DEFINE n == NoteNeighbor(s, f)
           l == LearnAffinity(n, f)
           w == Wake(l, f, d)
<1>1. s \in MeshType /\ Core(s) /\ Keeps(s, n)
  BY NoteNeighborKeeps DEF Good, Core
<1>2. SamePast(s, n)
  <2>1. \E x : n = [s EXCEPT !.neighbors = x]
    BY DEF NoteNeighbor
  <2> HIDE DEF n
  <2>2. QED
    BY <1>1, <2>1 DEF MeshType, SamePast
<1>3. Learn(s, f, src, d) \in {s, l, w}
  BY DEF Learn
<1> HIDE DEF n
<1>4. Good(n) /\ Core(n) /\ n \in MeshType /\ Mannered(n)
  BY <1>1, <1>2, KeepsGood, SameMannered DEF Keeps, Core
<1>5. Keeps(n, l)
  BY <1>4, LearnAffinityKeeps
<1>6. SamePast(n, l)
  <2>1. l = n \/ \E x : l = [n EXCEPT !.affinity = x]
    BY DEF LearnAffinity
  <2> HIDE DEF l
  <2>2. QED
    BY <1>4, <2>1 DEF MeshType, SamePast
<1> HIDE DEF l
<1>7. Good(l) /\ Mannered(l)
  BY <1>4, <1>5, <1>6, KeepsGood, SameMannered DEF Keeps
<1>8. Mannered(w)
  BY <1>7, WakeMannered
<1>9. QED
  BY <1>3, <1>7, <1>8

LEMMA AnswerMannered ==
  ASSUME NEW s, Mannered(s), clock \in Nat, NEW f \in Frame, f.msg.chan \in Channel,
         NEW d \in Delays
  PROVE  Mannered(Answer(s, f, d))
<1> DEFINE chan == f.msg.chan
           call == BaseCall[f.msg.sender]
           pong == Announce(s, "pong", chan, d.reply)
           help == [Announce(s, "help", chan, d.reply) EXCEPT !.help = clock + HelpCooldown]
           gates == CloseGate(s.gates, call, clock)
           shut == [s EXCEPT !.gates = gates]
           reply == ReplyTo(shut, f, d.reply)
           a == Answer(s, f, d)
<1>1. /\ s \in MeshType /\ Core(s) /\ HistOK(s) /\ d.reply \in Nat
      /\ Core(a) /\ HistOK(a)
  <2>1. Core(s) /\ HistOK(s)
    BY DEF Mannered
  <2>2. Adds(s, a)
    BY <2>1, AnswerAdds
  <2>3. QED
    BY <2>1, <2>2, DelaysAreNat DEF Adds, Core
<1>2. \/ a = pong
      \/ a = help /\ clock >= s.help
      \/ a = reply /\ MayReply(s.gates, call, clock)
      \/ \E x : a = [s EXCEPT !.probe = x] \/ a = [s EXCEPT !.tod = x] \/ a = [s EXCEPT !.box = x]
      \/ a = s
  BY DEF Answer, StartProbe, ArmTod
<1> SUFFICES Mannered(a)
  OBVIOUS
<1>3. CASE a = pong
  <2>1. "pong" \in OwnKind \ {"advert", "help", "reply"}
    BY DEF OwnKind
  <2> HIDE DEF a
  <2>2. Mannered(pong)
    BY <1>1, <2>1, AnnounceMannered
  <2>3. QED
    BY <1>3, <2>2
<1>4. CASE a = help /\ clock >= s.help
  <2>1. PICK u : u = a
    OBVIOUS
  <2>2. u = help /\ Core(u) /\ HistOK(u)
    BY <1>1, <1>4, <2>1
  <2> HIDE DEF a
  <2>3. Mannered(u)
    BY <1>1, <1>4, <2>2, HelpMannered
  <2>4. QED
    BY <2>1, <2>3
<1>5. CASE a = reply /\ MayReply(s.gates, call, clock)
  <2>1. Core(shut)
    BY <1>1, MailboxKeeps DEF Keeps
  <2>2. SameHist(s, shut) /\ shut.help = s.help /\ shut.gates = gates
    <3> HIDE DEF gates
    <3>1. QED
      BY <1>1 DEF MeshType, SameHist
  <2>3. PICK u : u = a
    OBVIOUS
  <2>4. PICK c : c = call
    OBVIOUS
  <2>5. PICK z : z = shut
    OBVIOUS
  <2>6. /\ u = ReplyTo(z, f, d.reply) /\ Core(u) /\ HistOK(u)
        /\ Core(z) /\ SameHist(s, z) /\ z.help = s.help
        /\ z.gates = CloseGate(s.gates, c, clock)
        /\ c = BaseCall[f.msg.sender] /\ MayReply(s.gates, c, clock)
    BY <1>1, <1>5, <2>1, <2>2, <2>3, <2>4, <2>5
  <2> HIDE DEF a, call, shut, gates, reply
  <2>7. Mannered(u)
    BY <1>1, <2>6, ReplyMannered
  <2>8. QED
    BY <2>3, <2>7
<1>6. \A x : /\ SamePast(s, [s EXCEPT !.probe = x]) /\ SamePast(s, [s EXCEPT !.tod = x])
             /\ SamePast(s, [s EXCEPT !.box = x]) /\ SamePast(s, s)
  BY <1>1 DEF MeshType, SamePast
<1> HIDE DEF a, pong, help, shut, reply, call
<1>7. CASE SamePast(s, a)
  BY <1>1, <1>7, SameMannered
<1>8. QED
  BY <1>2, <1>3, <1>4, <1>5, <1>6, <1>7

LEMMA AttendMannered ==
  ASSUME NEW s, Good(s), Mannered(s), clock \in Nat, NEW f \in Frame, f.msg.chan \in Channel,
         NEW src, NEW d \in Delays
  PROVE  Mannered(Attend(s, f, src, d))
<1> DEFINE w == Wake(s, f, d)
<1>1. Mannered(w)
  BY WakeMannered
<1>2. Attend(s, f, src, d) \in {s, Answer(w, f, d)}
  BY DEF Attend
<1> HIDE DEF w
<1>3. Mannered(Answer(w, f, d))
  BY <1>1, AnswerMannered
<1>4. QED
  BY <1>2, <1>3

(* The timers of the loop.                                                 *)
LEMMA ServiceProbeMannered ==
  ASSUME NEW s, Mannered(s), clock \in Nat, now \in Nat, NEW delay \in Nat
  PROVE  Mannered(ServiceProbe(s, delay))
<1> DEFINE a == Announce(s, "probe", s.probe.chan, delay)
           t == [a EXCEPT !.probe.left = s.probe.left - 1, !.probe.next = now + ProbeInterval]
           quiet == [s EXCEPT !.probe.left = 0]
           u == ServiceProbe(s, delay)
<1>1. s \in MeshType /\ Core(s) /\ HistOK(s) /\ s.probe.chan \in Channel
  BY DEF Mannered, Core, MeshType, Probing
<1>2. Core(u)
  BY <1>1, ServiceProbeAdds DEF Adds
<1>3. Mannered(a)
  <2>1. "probe" \in OwnKind \ {"advert", "help", "reply"}
    BY DEF OwnKind
  <2>2. QED
    BY <1>1, <2>1, AnnounceMannered
<1>4. u \in {s, t, quiet}
  BY DEF ServiceProbe
<1> HIDE DEF a, u
<1>5. a \in MeshType
  BY <1>3 DEF Mannered, Core
<1>6. SamePast(a, t) /\ SamePast(s, quiet)
  <2>1. \A x : SamePast(a, [a EXCEPT !.probe = x]) /\ SamePast(s, [s EXCEPT !.probe = x])
    BY <1>1, <1>5 DEF MeshType, SamePast
  <2>2. /\ \E x : t = [a EXCEPT !.probe = x]
        /\ \E x : quiet = [s EXCEPT !.probe = x]
    OBVIOUS
  <2> HIDE DEF t, quiet
  <2>3. QED
    BY <2>1, <2>2
<1> HIDE DEF t, quiet
<1>7. Mannered(u)
  BY <1>2, <1>3, <1>4, <1>6, SameMannered
<1>8. QED
  BY <1>7 DEF u

LEMMA ServiceTimeOfDayMannered ==
  ASSUME NEW s, Mannered(s), clock \in Nat, NEW delay \in Nat
  PROVE  Mannered(ServiceTimeOfDay(s, delay))
<1> DEFINE a == Tell(s, "time", delay)
           b == Tell(a, "date", delay)
           t == [b EXCEPT !.tod.ask = {}, !.tod.minute = Minute(clock)]
           u == ServiceTimeOfDay(s, delay)
<1>1. Core(u)
  BY ServiceTimeOfDayAdds DEF Adds, Mannered
<1>2. ASSUME NEW x, Mannered(x), NEW kind \in {"time", "date"}
      PROVE  Mannered(Tell(x, kind, delay))
  <2>1. kind \in OwnKind \ {"advert", "help", "reply"}
    BY DEF OwnKind
  <2>2. x.tod.chan \in Channel
    BY <1>2 DEF Mannered, Core, MeshType, Telling
  <2>3. Mannered(Announce(x, kind, x.tod.chan, delay))
    BY <1>2, <2>1, <2>2, AnnounceMannered
  <2>4. QED
    BY <1>2, <2>3 DEF Tell
<1>3. u \in {s, t}
  BY DEF ServiceTimeOfDay
<1> HIDE DEF u
<1>4. Mannered(a)
  BY <1>2
<1> HIDE DEF a
<1>5. Mannered(b)
  BY <1>2, <1>4
<1> HIDE DEF b
<1>6. SamePast(b, t)
  <2>1. b \in MeshType
    BY <1>5 DEF Mannered, Core
  <2>2. \A x : SamePast(b, [b EXCEPT !.tod = x])
    BY <2>1 DEF MeshType, SamePast
  <2>3. \E x : t = [b EXCEPT !.tod = x]
    OBVIOUS
  <2> HIDE DEF t
  <2>4. QED
    BY <2>2, <2>3
<1> HIDE DEF t
<1>7. Mannered(u)
  BY <1>1, <1>3, <1>5, <1>6, SameMannered
<1>8. QED
  BY <1>7 DEF u

LEMMA TimersMannered ==
  ASSUME NEW s, Mannered(s), clock \in Nat, now \in Nat,
         NEW probe \in Nat, NEW tod \in Nat, NEW advert \in Nat
  PROVE  Mannered(PeriodicAdvert(ServiceTimeOfDay(ServiceProbe(s, probe), tod), advert))
<1> DEFINE x == ServiceProbe(s, probe)
           y == ServiceTimeOfDay(x, tod)
           a == SendAdvert(y, advert)
           t == [a EXCEPT !.last_advert = now]
           z == PeriodicAdvert(y, advert)
<1>1. Mannered(x)
  BY ServiceProbeMannered
<1> HIDE DEF x
<1>2. Mannered(y)
  BY <1>1, ServiceTimeOfDayMannered
<1> HIDE DEF y
<1>3. Mannered(a)
  BY <1>2, SendAdvertMannered
<1>4. z \in {y, t} /\ Core(z)
  BY <1>2, PeriodicAdvertAdds DEF PeriodicAdvert, Adds, Mannered
<1> HIDE DEF a, z
<1>5. SamePast(a, t)
  BY <1>3 DEF Mannered, Core, MeshType, SamePast
<1> HIDE DEF t
<1>6. Mannered(z)
  BY <1>2, <1>3, <1>4, <1>5, SameMannered
<1>7. QED
  BY <1>6 DEF x, y, z

(* What is relayed is not the node's own.                                  *)
LEMMA RelayPolite ==
  ASSUME NEW s, Mannered(s), NEW f \in Frame, NEW src \in {"rf", "hub"}, NEW d \in Delays
  PROVE  Polite(Relay(s, f, src, d))
<1>1. src \in Source /\ src # "own"
  BY DEF Source
<1>2. Core(s) /\ Polite(s) /\ SaidOK(s.hist, Answers(s.ring.log), s.help)
  BY DEF Mannered, Polite
<1>3. ASSUME NEW g \in Frame, NEW prio, NEW delay, NEW power
      PROVE  Polite(Put(s, g, src, prio, delay, power))
  <2>1. PICK t : t = Put(s, g, src, prio, delay, power)
    OBVIOUS
  <2>2. /\ SaidOK(t.hist, Answers(s.ring.log), s.help)
        /\ t.ring = s.ring /\ t.gates = s.gates /\ t.help = s.help
    BY <1>1, <1>2, <2>1, PutSaid
  <2>3. Polite(t)
    BY <1>2, <2>2 DEF Polite
  <2>4. QED
    BY <2>1, <2>3
<1>4. Relay(s, f, src, d) = s \/ \E g \in Frame : \E prio, delay, power :
        Relay(s, f, src, d) = Put(s, g, src, prio, delay, power)
  BY RelayedIsFrame DEF Relay, RelayFlood, RelayDirect
<1>5. QED
  BY <1>2, <1>3, <1>4

(* mesh_on_recv.                                                           *)
LEMMA RecvPolite ==
  ASSUME Good(m), Mannered(m), clock \in Nat,
         NEW f \in Frame, NEW src \in {"rf", "hub"}, Recv(f, src),
         ~IsReply(f.msg.id), f.msg.id \in OwnId => src # "hub"
  PROVE  Polite(m')
<1> DEFINE r == Recorded(m, f, src)
<1>1. Core(m) /\ HistOK(m) /\ Polite(m) /\ src \in Source /\ src # "own"
  BY DEF Mannered, Source
<1>2. Keeps(m, r)
  BY <1>1, RecordedKeeps
<1>3. Good(r) /\ Core(r)
  BY <1>2, KeepsGood DEF Good
<1>4. HistOK(r)
  BY <1>1, RecordedHist
<1>5. Mannered(r)
  <2>1. PICK t : t = r
    OBVIOUS
  <2>2. Core(t) /\ HistOK(t) /\ t = Recorded(m, f, src)
    BY <1>3, <1>4, <2>1
  <2>3. AnswerAdded(f.msg.id) = {}
    BY DEF AnswerAdded
  <2>4. OwnLog(m.ring.log)
    BY <1>1 DEF Polite
  <2>5. /\ OwnLog(t.ring.log)
        /\ Answers(t.ring.log) = Answers(m.ring.log) \cup AnswerAdded(f.msg.id)
        /\ t.gates = m.gates /\ t.help = m.help /\ t.hist = m.hist
    BY <1>1, <2>2, <2>4, RecordedAnswers
  <2>6. Answers(t.ring.log) = Answers(m.ring.log)
    BY <2>3, <2>5
  <2>7. Polite(t)
    BY <1>1, <2>5, <2>6 DEF Polite
  <2>8. QED
    BY <2>1, <2>2, <2>7 DEF Mannered
<1> HIDE DEF r
<1>6. CASE RecvDuplicate(f, src)
  BY <1>1, <1>6 DEF RecvDuplicate
<1>7. CASE RecvRefused(f, src)
  BY <1>5, <1>7 DEF RecvRefused, Mannered, r
<1>8. CASE RecvKept(f, src)
  <2>1. PICK d \in Delays : m' = Learn(r, f, src, d)
    BY <1>8 DEF RecvKept, r
  <2>2. Mannered(Learn(r, f, src, d))
    BY <1>3, <1>5, LearnMannered
  <2>3. QED
    BY <2>1, <2>2 DEF Mannered
<1>9. CASE RecvCommand(f, src)
  <2>1. PICK d \in Delays : m' = Attend(r, f, src, d)
    BY <1>9 DEF RecvCommand, r
  <2>2. f.msg.chan \in Channel
    BY <1>9 DEF RecvCommand, Classify
  <2>3. Mannered(Attend(r, f, src, d))
    BY <1>3, <1>5, <2>2, AttendMannered
  <2>4. QED
    BY <2>1, <2>3 DEF Mannered
<1>10. CASE RecvPublic(f, src)
  <2>1. PICK d \in Delays : m' = Relay(Attend(r, f, src, d), f, src, d)
    BY <1>10 DEF RecvPublic, r
  <2>2. f.msg.chan \in Channel
    BY <1>10 DEF RecvPublic, Classify
  <2>3. Mannered(Attend(r, f, src, d))
    BY <1>3, <1>5, <2>2, AttendMannered
  <2>4. QED
    BY <2>1, <2>3, RelayPolite
<1>11. CASE RecvOpaque(f, src)
  <2>1. PICK d \in Delays : m' = Relay(Learn(r, f, src, d), f, src, d)
    BY <1>11 DEF RecvOpaque, r
  <2>2. Mannered(Learn(r, f, src, d))
    BY <1>3, <1>5, LearnMannered
  <2>3. QED
    BY <2>1, <2>2, RelayPolite
<1>12. QED
  BY <1>6, <1>7, <1>8, <1>9, <1>10, <1>11 DEF Recv
----------------------------------------------------------------------------
\* The inductive invariant of the services.
SInv == HInv /\ Polite(m)

(* A step that leaves the past alone, while time may pass.                 *)
LEMMA PoliteKept ==
  ASSUME Polite(m), SamePast(m, m'), clock \in Nat, clock' \in Nat, clock <= clock'
  PROVE  Polite(m)'
<1>1. AnswersUpTo(Answers(m.ring.log), clock')
  <2>1. \A x \in Answers(m.ring.log) : x[2] \in Nat /\ x[2] <= clock
    BY DEF Polite, AnswersUpTo
  <2>2. \A x \in Answers(m.ring.log) : x[2] <= clock'
    BY <2>1
  <2>3. QED
    BY <2>2 DEF Polite, AnswersUpTo
<1>2. QED
  BY <1>1 DEF Polite, SamePast

LEMMA PoliteNow ==
  ASSUME Polite(m'), clock' = clock
  PROVE  Polite(m)'
BY DEF Polite

LEMMA SInvNext == SInv /\ [Next]_vars => SInv'
<1> SUFFICES ASSUME SInv, [Next]_vars
             PROVE  Polite(m)'
  BY HInvNext DEF SInv
<1>1. /\ Good(m) /\ Core(m) /\ HistOK(m) /\ Mannered(m) /\ Polite(m) /\ m \in MeshType
      /\ ghost \in GhostType /\ clock \in Nat /\ now \in Nat
  BY DEF SInv, HInv, IInv, LoopType, Past, Good, Core, Mannered
<1>2. RfFrame \subseteq Frame /\ HubFrame \subseteq Frame /\ Echoes \subseteq Frame
  <2>1. RfFrame \subseteq Frame /\ HubFrame \subseteq Frame
    BY MeshAssumption
  <2>2. QED
    BY <1>1, <2>1, EchoIsFrame
<1>3. \A f \in Echoes : f.msg.id[1] # "reply"
  <2> TAKE f \in Echoes
  <2>1. PICK id \in {i \in ghost.aired : i[1] # "reply"} : f = Echo(id)
    BY DEF Echoes
  <2>2. PICK who : f.msg.id = <<id[1], who, id[3]>>
    BY <2>1 DEF Echo, OwnFrame, OwnMessage
  <2>3. f.msg.id[1] = id[1]
    BY <2>2
  <2>4. id[1] # "reply"
    OBVIOUS
  <2>5. QED
    BY <2>3, <2>4
<1>4. ASSUME NEW f \in RfFrame \cup Echoes, PollRx(f) \/ LinkRecv(f)
      PROVE  Polite(m)'
  <2>1. Recv(f, "rf") /\ f \in Frame /\ clock' = clock
    BY <1>2, <1>4 DEF PollRx, LinkRecv
  <2>2. ~IsReply(f.msg.id)
    BY <1>3, OthersAssumption DEF IsReply
  <2>3. "rf" \in {"rf", "hub"} /\ "rf" # "hub"
    OBVIOUS
  <2>4. Polite(m')
    BY <1>1, <2>1, <2>2, <2>3, RecvPolite
  <2>5. QED
    BY <2>1, <2>4, PoliteNow
<1>5. ASSUME m' = m, clock' = clock
      PROVE  Polite(m)'
  BY <1>1, <1>5, PoliteNow
<1>6. ASSUME NEW f \in HubFrame, HubSends(f)
      PROVE  Polite(m)'
  <2>1. f.msg.id \notin OwnId /\ ~IsReply(f.msg.id) /\ f \in Frame /\ clock' = clock
    BY <1>2, <1>6, OthersAssumption DEF IsReply, HubSends
  <2>2. CASE Recv(f, "hub")
    <3>1. "hub" \in {"rf", "hub"}
      OBVIOUS
    <3>2. Polite(m')
      BY <1>1, <2>1, <2>2, <3>1, RecvPolite
    <3>3. QED
      BY <2>1, <3>2, PoliteNow
  <2>3. QED
    BY <1>5, <1>6, <2>1, <2>2 DEF HubSends
<1>7. CASE ServiceTx
  <2>1. CASE SilentFlush
    <3>1. PICK x, y, z : m' = [m EXCEPT !.silent = x, !.soon = y, !.txq = z]
      BY <2>1 DEF SilentFlush, Emptied
    <3>2. SamePast(m, m') /\ clock' = clock
      BY <1>1, <2>1, <3>1 DEF SilentFlush, MeshType, SamePast
    <3>3. QED
      BY <1>1, <3>2, PoliteKept
  <2>2. CASE NothingDue
    BY <1>5, <2>2 DEF NothingDue
  <2>3. CASE \/ \E delay \in CadDelay : ChannelBusy(delay)
             \/ Transmit
             \/ TransmitFails
    <3>1. PICK z : m' = [m EXCEPT !.txq = z]
      BY <2>3 DEF ChannelBusy, Transmit, TransmitFails, BackedOff, Freed
    <3>2. SamePast(m, m')
      BY <1>1, <3>1 DEF MeshType, SamePast
    <3>3. clock' = clock
      BY <2>3 DEF ChannelBusy, Transmit, TransmitFails
    <3>4. QED
      BY <1>1, <3>2, <3>3, PoliteKept
  <2>4. QED
    BY <1>7, <2>1, <2>2, <2>3 DEF ServiceTx
<1>8. CASE Timers
  <2>1. PICK probe \in JitterDelay, tod \in JitterDelay, advert \in JitterDelay :
          m' = PeriodicAdvert(ServiceTimeOfDay(ServiceProbe(m, probe), tod), advert)
    BY <1>8 DEF Timers
  <2>2. probe \in Nat /\ tod \in Nat /\ advert \in Nat
    BY MeshAssumption
  <2>3. Mannered(m')
    BY <1>1, <2>1, <2>2, TimersMannered
  <2>4. clock' = clock
    BY <1>8 DEF Timers
  <2>5. QED
    BY <2>3, <2>4, PoliteNow DEF Mannered
<1>9. CASE Cli
  <2>1. clock' = clock
    BY <1>9 DEF Cli
  <2>2. ASSUME NEW delay \in JitterDelay, m' = SendAdvert(m, delay)
        PROVE  Polite(m)'
    <3>1. delay \in Nat
      BY MeshAssumption
    <3>2. Mannered(m')
      BY <1>1, <2>2, <3>1, SendAdvertMannered
    <3>3. QED
      BY <2>1, <3>2, PoliteNow DEF Mannered
  <2>3. ASSUME NEW x, m' = [m EXCEPT !.probe = x]
        PROVE  Polite(m)'
    <3>1. SamePast(m, m')
      BY <1>1, <2>3 DEF MeshType, SamePast
    <3>2. QED
      BY <1>1, <2>1, <3>1, PoliteKept
  <2>4. QED
    BY <1>9, <2>2, <2>3 DEF Cli, StartProbe
<1>10. CASE HubDone
  <2>1. SamePast(m, m') /\ clock' = clock
    BY <1>1, <1>10 DEF HubDone, MeshType, SamePast
  <2>2. QED
    BY <1>1, <2>1, PoliteKept
<1>11. CASE Tick
  <2>1. SamePast(m, m') /\ clock' = clock + 1
    BY <1>11 DEF Tick, SamePast
  <2>2. clock' \in Nat /\ clock <= clock'
    BY <1>1, <2>1
  <2>3. QED
    BY <1>1, <2>1, <2>2, PoliteKept
<1>12. CASE PollNothing \/ LinkDone \/ CliDone \/ UNCHANGED vars
  BY <1>5, <1>12 DEF PollNothing, LinkDone, CliDone, vars
<1>13. QED
  BY <1>4, <1>6, <1>7, <1>8, <1>9, <1>10, <1>11, <1>12 DEF Next, Step, Input

LEMMA SInvInit == Init => SInv
<1> SUFFICES ASSUME Init
             PROVE  Polite(m)
  BY HInvInit DEF SInv
<1>1. clock = 0 /\ clock \in Nat
  BY DEF Init
<1>2. Cleared.hist = <<>> /\ Cleared.ring.log = <<>> /\ Cleared.gates = <<>> /\ Cleared.help = 0
  BY DEF Cleared, EmptyRing
<1>3. Len(Cleared.hist) = 0 /\ Len(Cleared.ring.log) = 0 /\ Len(Cleared.gates) = 0
  BY <1>2
<1>4. Answers(Cleared.ring.log) = {}
  BY <1>3 DEF Answers
<1>5. AnswersUpTo({}, clock) /\ Gated({}, Cleared.gates)
  <2>1. 0 <= GateMax
    BY MailboxAssumption
  <2>2. QED
    BY <1>3, <2>1, FS_EmptySet DEF AnswersUpTo, Gated
<1>6. OwnLog(Cleared.ring.log) /\ SaidOK(Cleared.hist, {}, Cleared.help)
  BY <1>3 DEF OwnLog, SaidOK
<1>7. HistOK(Cleared)
  BY <1>3 DEF HistOK, OwnRecords, HistRecorded, OnceEach
<1>8. Mannered(Cleared)
  BY <1>1, <1>4, <1>5, <1>6, <1>7, ClearedIsCore DEF Mannered, Polite
<1>9. ASSUME NEW delay \in JitterDelay, m = SendAdvert(Cleared, delay)
      PROVE  Polite(m)
  <2>1. delay \in Nat
    BY MeshAssumption
  <2>2. Mannered(m)
    BY <1>1, <1>8, <1>9, <2>1, SendAdvertMannered
  <2>3. QED
    BY <2>2 DEF Mannered
<1>10. CASE m = Cleared
  BY <1>8, <1>10 DEF Mannered
<1>11. QED
  BY <1>9, <1>10 DEF Init

(* No station is answered twice within the cooldown, unless as many others *)
(* were answered since as there are gates; no help is given twice within   *)
(* its own (mbox_rate_ok).                                                 *)
THEOREM RepliesAreSpaced == Spec => []RepliesSpaced
<1>1. ASSUME SInv
      PROVE  RepliesSpaced
  <2>1. SaidOK(m.hist, Answers(m.ring.log), m.help)
    BY <1>1 DEF SInv, Polite
  <2> SUFFICES ASSUME NEW i \in 1..Len(m.hist), NEW j \in 1..Len(m.hist), i < j,
                      m.hist[i].src = "own", m.hist[j].src = "own"
               PROVE  LET a == m.hist[i].hash[1]
                          b == m.hist[j].hash[1]
                      IN /\ a[1] = "reply" /\ b[1] = "reply" /\ BaseCall[a[2]] = BaseCall[b[2]]
                              => b[3] - a[3] >= MboxCooldown
                                   \/ Cardinality(OthersAnswered(Answers(m.ring.log),
                                                                 BaseCall[a[2]], a[3])) >= GateMax
                         /\ a[1] = "help" /\ b[1] = "help" => b[3] - a[3] >= HelpCooldown
    BY DEF RepliesSpaced
  <2>2. MayFollow(Answers(m.ring.log), m.hist[j].hash[1], m.hist[i].hash[1])
    BY <2>1 DEF SaidOK, OwnAt
  <2>3. \A id : AnswerOf(id)[1] = BaseCall[id[2]] /\ AnswerOf(id)[2] = id[3]
    BY DEF AnswerOf
  <2>4. QED
    BY <2>2, <2>3 DEF MayFollow, Crowded
<1>2. QED
  BY SInvInit, SInvNext, <1>1, PTL DEF Spec
=============================================================================
