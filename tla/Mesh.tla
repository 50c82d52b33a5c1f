-------------------------------- MODULE Mesh --------------------------------
(***************************************************************************)
(* The repeater proper: mesh.c driven by the loop of main.c.               *)
(*                                                                         *)
(* m is the state of mesh.c (mc_mesh_t). Its functions that call one       *)
(* another are operators on that record (they take a state s and return    *)
(* the next one), and each handler the loop calls is an action. The loop   *)
(* reads the clock once, into now, and then serves the radio, the link,    *)
(* the TX queue, the timers and the hub in a fixed order; time passes      *)
(* anywhere, so a handler that reads the clock itself may see a later time *)
(* than now.                                                               *)
(***************************************************************************)
EXTENDS FiniteSets, DedupRing, Policy, Mailbox

CONSTANTS
  TxqSize,        \* MESH_TXQ_SIZE
  Headroom,       \* BB_TXQ_HEADROOM: slots a frame of the hub must find free
  NeighborMax,    \* MESH_MAX_NEIGHBORS
  AffinityMax,    \* MC_MAX_AFFINITY
  NoEntry,        \* a TX slot that is not used
  Awake,          \* cfg.hotspot_awake, 0 for always on the air
  UseCad,         \* cfg.use_cad: listen before talk
  AdvertInterval, \* cfg.advert_interval, 0 for no adverts
  LinkTx,         \* the node injects what remote ears relay (link mode TX)
  PingPong, TimeOfDay, MboxEnable,  \* cfg: the services that are on
  ProbeAllow,     \* names that may start a probe
  ProbeCount, ProbeInterval,        \* what they ask for, after clamping
  PingChannel,    \* cfg.ping_channel, "" for any public channel
  MboxChannel,    \* the channel "#mbox"
  BaseCall,       \* the base call of a name
  HelpCooldown,   \* MESH_HELP_COOLDOWN_MS
  MinuteTicks     \* ticks of the clock in a minute

CONSTANTS
  FloodDelay, ReplyDelay, JitterDelay, CadDelay,  \* the random delays, in ticks
  RfFrame,        \* frames the radio may hear
  HubFrame,       \* frames the hub may send
  Repeater,       \* the path hash of the node that echoes what we send
  ReinitFails,    \* a reset of the radio may fail
  MaxClock,       \* bound of the runs: the clock stops here
  MaxRx,          \* bound: frames received
  MaxBusy,        \* bound: times the channel is found busy
  MaxFail,        \* bound: failed transmissions
  MaxCli,         \* bound: commands of the local operator
  LastInput       \* bound: nothing is received and no channel busy after this

ASSUME MeshAssumption ==
  /\ TxqSize \in Nat \ {0} /\ Headroom \in 1..TxqSize
  /\ NeighborMax \in Nat \ {0} /\ AffinityMax \in Nat
  /\ Awake \in Nat /\ AdvertInterval \in Nat /\ HelpCooldown \in Nat
  /\ ProbeCount \in Nat \ {0} /\ ProbeInterval \in Nat \ {0} /\ MinuteTicks \in Nat \ {0}
  /\ \A b \in {UseCad, LinkTx, PingPong, TimeOfDay, MboxEnable, ReinitFails} : b \in BOOLEAN
  /\ ProbeAllow \subseteq Name \ {""}
  /\ BaseCall \in [Name -> Call] /\ MboxChannel \in Channel
  /\ FloodDelay \subseteq Nat /\ ReplyDelay \subseteq Nat /\ ReplyDelay # {}
  /\ JitterDelay \subseteq Nat /\ CadDelay \subseteq Nat \ {0}
  /\ RfFrame \subseteq Frame /\ HubFrame \subseteq Frame
  /\ Repeater \in Node \ {Self}
  /\ \A n \in {MaxClock, MaxRx, MaxBusy, MaxFail, MaxCli, LastInput} : n \in Nat

VARIABLES
  m,        \* mc_mesh_t
  clock,    \* hal_millis, and the wall clock
  now,      \* the loop's own reading of the clock
  pc,       \* what the loop does next
  radio,    \* "rx": listening; "standby": not
  told,     \* the rf_silent the hub was last told (STATUS)
  ghost,    \* history the code does not keep: what was sent, and why it may be
  used      \* how much of each bound is used up

vars == <<m, clock, now, pc, radio, told, ghost, used>>

Slot == 1..TxqSize

MinOf(S) == CHOOSE i \in S : \A j \in S : i <= j

\* The random delays one handler draws: back-off of a relay, delay of a reply,
\* jitter of an advert.
Delays == [flood : FloodDelay, reply : ReplyDelay, jitter : JitterDelay]
----------------------------------------------------------------------------
(* The TX queue and what the node originates.                              *)

\* mesh_rf_silent.
RfSilent(s, t) == Role = "hotspot" /\ Awake > 0 /\ t >= s.until

Free(s) == {i \in Slot : s.txq[i] = NoEntry}

\* A node that offers the hub everything it queues.
OfferedAlways(f, src) == ~(f.route = "direct" /\ f.path = <<>>)

\* What is offered to the hub: everything queued, but for the hub's own frames
\* and the packets that have nowhere to be routed (enqueue, backbone_offer).
Offered(f, src) == src # "hub" /\ ~(f.route = "direct" /\ f.path = <<>>)

\* The latest record of a hash in the log of the ring, 0 if there is none.
LatestRecord(s, h) ==
  LET at == {i \in 1..Len(s.ring.log) : s.ring.log[i].hash = h}
  IN IF at = {} THEN 0 ELSE CHOOSE i \in at : \A j \in at : j <= i

\* enqueue: a silent hotspot queues nothing, a full queue drops the packet.
Put(s, f, src, prio, delay, power) ==
  IF RfSilent(s, clock) \/ Free(s) = {} THEN s
  ELSE [s EXCEPT
    !.txq[MinOf(Free(s))] =
      [frame |-> f, src |-> src, prio |-> prio, due |-> clock + delay, power |-> power],
    !.hist = Append(@, [hash |-> HashOf(f), at |-> LatestRecord(s, HashOf(f)),
                        src |-> src, offered |-> Offered(f, src)])]

\* A node whose ring only knows what the radio hears.
RecordedRfOnly(s, f, src) == IF src = "hub" THEN s ELSE [s EXCEPT !.ring = SeenAdd(@, HashOf(f), src)]

\* seen_check_and_add, for the hash of a frame.
Recorded(s, f, src) == [s EXCEPT !.ring = SeenAdd(@, HashOf(f), src)]

\* mesh_send_advert. An advert the queue has no room for leaves last_advert alone.
SendAdvert(s, delay) ==
  LET f == OwnFrame("advert", "", "unknown", clock, "flood", <<>>, 1)
      r == Recorded(s, f, "own")
  IN IF RfSilent(s, clock) THEN s
     ELSE IF Free(r) = {} THEN r
     ELSE [Put(r, f, "own", 0, delay, OwnPower) EXCEPT !.last_advert = clock]

\* Record a message of our own, so that its echo is a duplicate, and queue it.
Say(s, f, delay) == Put(Recorded(s, f, "own"), f, "own", 1, delay, OwnPower)

\* A message for everyone on a channel: send_pong, send_help, send_tod, a probe.
Announce(s, kind, chan, delay) ==
  Say(s, OwnFrame(kind, "", chan, clock, "flood", <<>>, 1), delay)

\* send_routed_reply: back along the path the command took.
ReplyTo(s, f, delay) ==
  Say(s, OwnFrame("reply", f.msg.sender, f.msg.chan, clock, "direct",
                  Reversed(f.path), f.hs), delay)
----------------------------------------------------------------------------
(* What a received frame teaches the node.                                 *)

\* neighbor_update: refresh the advertiser's entry, take a free one, or replace
\* the one heard longest ago.
NoteNeighbor(s, f) ==
  LET n == [key |-> f.msg.key, name |-> f.msg.sender, type |-> f.msg.adv, last |-> clock]
      known == {i \in 1..Len(s.neighbors) : s.neighbors[i].key = f.msg.key}
      oldest == MinOf({i \in 1..Len(s.neighbors) :
                        \A j \in 1..Len(s.neighbors) : s.neighbors[i].last <= s.neighbors[j].last})
  IN IF known # {} THEN [s EXCEPT !.neighbors[MinOf(known)] = n]
     ELSE IF Len(s.neighbors) < NeighborMax THEN [s EXCEPT !.neighbors = Append(@, n)]
     ELSE [s EXCEPT !.neighbors[oldest] = n]

\* learn_affinity: the advertiser's path hash. A full table learns nothing more.
LearnAffinity(s, f) ==
  IF Role = "hotspot" /\ f.msg.sender \in Affinity /\ Cardinality(s.affinity) < AffinityMax
  THEN [s EXCEPT !.affinity = @ \cup {PathHash[f.msg.key]}]
  ELSE s

\* A hotspot woken by a companion that others have relayed.
WakesAnyHops(s, f) ==
  Role = "hotspot" /\ Awake > 0 /\ IsCompanion(f.msg.sender, s.neighbors)

\* Is this frame, heard on the air, a companion heard directly?
Wakes(s, f) ==
  Role = "hotspot" /\ Awake > 0 /\ f.path = <<>> /\ IsCompanion(f.msg.sender, s.neighbors)

\* A hotspot that comes back on the air without telling the hub.
BackOnAirQuietly(s, d) == SendAdvert([s EXCEPT !.silent = FALSE], d.jitter)

\* Back from silence: a self-advert is queued, and the hub gets a STATUS soon.
BackOnAir(s, d) == [SendAdvert([s EXCEPT !.silent = FALSE], d.jitter) EXCEPT !.soon = TRUE]

\* hotspot_wake.
Wake(s, f, d) ==
  LET w == [s EXCEPT !.until = clock + Awake]
  IN IF ~Wakes(s, f) THEN s ELSE IF RfSilent(s, clock) THEN BackOnAir(w, d) ELSE w

\* A valid advert heard on the air; one from the hub teaches nothing.
Learn(s, f, src, d) ==
  LET l == LearnAffinity(NoteNeighbor(s, f), f)
  IN IF f.msg.type # "advert" \/ src = "hub" THEN s
     ELSE IF f.msg.adv = "chat" THEN Wake(l, f, d) ELSE l
----------------------------------------------------------------------------
(* The services on public channels.                                        *)

InMailbox(f) ==
  MboxEnable /\ Role # "hotspot" /\ IsFlood(f) /\ f.msg.chan = MboxChannel

\* Which service a public text asks for, in the order the code tries them.
Command(f) ==
  LET body == f.msg.body
      on_ping_ch == PingChannel = "" \/ f.msg.chan = PingChannel
  IN IF PingPong /\ body = "ping" THEN IF on_ping_ch THEN "ping" ELSE "none"
     ELSE IF on_ping_ch /\ body \in {"probe", "probe stop"} /\ f.msg.sender \in ProbeAllow THEN body
     ELSE IF on_ping_ch /\ TimeOfDay /\ body \in {"time", "date"} THEN body
     ELSE IF on_ping_ch /\ body = "help" THEN "help"
     ELSE IF InMailbox(f) THEN IF body = "@mention" THEN "mention" ELSE "fetch"
     ELSE "none"

\* mesh_start_probe; "probe stop" cancels.
StartProbe(s, chan) ==
  [s EXCEPT !.probe = [chan |-> chan, left |-> ProbeCount, next |-> clock + MinOf(ReplyDelay)]]

Minute(t) == t \div MinuteTicks

\* tod_arm: requests of one minute are answered together, at the next one.
ArmTod(s, chan, what) ==
  [s EXCEPT !.tod = [chan |-> chan, ask |-> @.ask \cup {what},
                     minute |-> IF @.ask = {} THEN Minute(clock) ELSE @.minute]]

\* The rest of process_public_grp and mbox_handle.
Answer(s, f, d) ==
  LET c == Command(f)
      call == BaseCall[f.msg.sender]
  IN CASE c = "ping" -> Announce(s, "pong", f.msg.chan, d.reply)
       [] c = "probe" -> StartProbe(s, f.msg.chan)
       [] c = "probe stop" -> [s EXCEPT !.probe.left = 0]
       [] c \in {"time", "date"} -> ArmTod(s, f.msg.chan, c)
       [] c = "help" /\ clock >= s.help ->
            [Announce(s, "help", f.msg.chan, d.reply) EXCEPT !.help = clock + HelpCooldown]
       [] c = "mention" -> [s EXCEPT !.box = Deposit(@, BaseCall[f.msg.to], f.msg.id)]
       [] c = "fetch" /\ MayReply(s.gates, call, clock) ->
            ReplyTo([s EXCEPT !.gates = CloseGate(@, call, clock)], f, d.reply)
       [] OTHER -> s

\* process_public_grp for a text nobody blocked: a companion may wake the hotspot
\* before the answer. The hub's frames are answered where they were heard.
Attend(s, f, src, d) ==
  IF src = "hub" \/ f.msg.type # "grp_txt" THEN s ELSE Answer(Wake(s, f, d), f, d)

\* A command of the mailbox is answered and goes no further.
Consumed(f, src) == src # "hub" /\ f.msg.type = "grp_txt" /\ Command(f) = "fetch"
----------------------------------------------------------------------------
(* Relaying.                                                               *)

\* A routed packet is relayed, at once and first of all, by its next hop only.
RelayDirect(s, f, src, d, power) ==
  IF f.path # <<>> /\ Head(f.path) = Self THEN Put(s, Stripped(f), src, 0, 0, power) ELSE s

\* A flood is relayed while its path has room; the nearer its source the sooner.
RelayFlood(s, f, src, d, power) ==
  IF FitsOneMore(f) THEN Put(s, Appended(f), src, Len(f.path) + 1, d.flood, power) ELSE s

\* The end of mesh_on_recv, for a frame the content policy lets pass.
Relay(s, f, src, d) ==
  IF Role = "hotspot" /\ ~InScope(f, src, s.affinity) THEN s
  ELSE IF IsFlood(f)
       THEN RelayFlood(s, f, src, d, RelayPower(f, src, s.affinity))
       ELSE RelayDirect(s, f, src, d, RelayPower(f, src, s.affinity))
----------------------------------------------------------------------------
(* mesh_on_recv, by what becomes of the frame.                             *)

Known(f) == Seen(m.ring, HashOf(f))

\* Forged or blocked adverts, content that is not provably public, blocked senders.
Refused(f) ==
  \/ AdvertRefused(f)
  \/ Forward /\ Classify(f) = "drop"
  \/ Forward /\ Classify(f) = "grp_public" /\ GroupSender(f) \in Blacklist

\* Taken note of, but never relayed: a TRACE, or everything with forwarding off.
KeptHere(f) == f.msg.type = "trace" \/ ~Forward

RecvDuplicate(f, src) == Known(f) /\ UNCHANGED m

RecvRefused(f, src) ==
  /\ ~Known(f) /\ Refused(f)
  /\ m' = Recorded(m, f, src)

RecvKept(f, src) ==
  /\ ~Known(f) /\ ~Refused(f) /\ KeptHere(f)
  /\ \E d \in Delays : m' = Learn(Recorded(m, f, src), f, src, d)

\* A command of the mailbox: answered, not relayed.
RecvCommand(f, src) ==
  /\ ~Known(f) /\ ~Refused(f) /\ ~KeptHere(f)
  /\ Classify(f) = "grp_public" /\ Consumed(f, src)
  /\ \E d \in Delays : m' = Attend(Recorded(m, f, src), f, src, d)

RecvPublic(f, src) ==
  /\ ~Known(f) /\ ~Refused(f) /\ ~KeptHere(f)
  /\ Classify(f) = "grp_public" /\ ~Consumed(f, src)
  /\ \E d \in Delays :
       m' = Relay(Attend(Recorded(m, f, src), f, src, d), f, src, d)

\* Adverts, and the group messages of a served region, whose text is not read.
RecvOpaque(f, src) ==
  /\ ~Known(f) /\ ~Refused(f) /\ ~KeptHere(f)
  /\ Classify(f) \in {"public", "region"}
  /\ \E d \in Delays :
       m' = Relay(Learn(Recorded(m, f, src), f, src, d), f, src, d)

Recv(f, src) ==
  \/ RecvDuplicate(f, src)
  \/ RecvRefused(f, src)
  \/ RecvKept(f, src)
  \/ RecvCommand(f, src)
  \/ RecvPublic(f, src)
  \/ RecvOpaque(f, src)
----------------------------------------------------------------------------
(* History.                                                                *)

\* A companion of the operator is heard directly: its advert as a chat node, or
\* its message on a public channel.
CompanionHeard(f) ==
  /\ f.path = <<>>
  /\ f.msg.sender \in Home \ (Belgian \cup Affinity \cup {SelfName})
  /\ \/ f.msg.type = "advert" /\ f.msg.adv = "chat" /\ ~AdvertRefused(f)
     \/ f.msg.type = "grp_txt" /\ Classify(f) = "grp_public"

\* attended: until when the last companion heard directly justifies being on the
\* air.
GhostHear(f) ==
  ghost' = [ghost EXCEPT !.attended = IF CompanionHeard(f) THEN clock + Awake ELSE @]

\* sent: the last transmission; aired: the messages of our own that went out.
GhostSend(e) ==
  ghost' = [ghost EXCEPT
    !.sent = [frame |-> e.frame, src |-> e.src, power |-> e.power, now |-> now],
    !.aired = IF e.src = "own" THEN @ \cup {e.frame.msg.id} ELSE @]

\* What a neighbour sends back of the floods we originate.
Echo(id) ==
  OwnFrame(id[1], id[2], IF id[1] = "advert" THEN "unknown" ELSE MboxChannel, id[3],
           "flood", <<Repeater>>, 1)

Echoes == {Echo(id) : id \in {i \in ghost.aired : i[1] # "reply"}}
----------------------------------------------------------------------------
(* The main loop. A step is enabled where pc says the loop is.             *)

Count(what) == used' = [used EXCEPT ![what] = @ + 1]

MayReceive == used.rx < MaxRx /\ clock <= LastInput

AfterRx == IF LinkTx THEN "link" ELSE "tx"
AfterTimers == IF MaxCli > 0 THEN "cli" ELSE "hub"

\* sx126x_poll_rx finds a frame: only a radio that listens has one.
PollRx(f) ==
  /\ pc = "rx" /\ radio = "rx" /\ MayReceive
  /\ Recv(f, "rf")
  /\ GhostHear(f)
  /\ pc' = AfterRx
  /\ Count("rx")
  /\ UNCHANGED <<clock, now, radio, told>>

\* Nothing heard, or a frame with a bad CRC or header, which is only counted.
PollNothing ==
  /\ pc = "rx"
  /\ pc' = AfterRx
  /\ UNCHANGED <<m, clock, now, radio, told, ghost, used>>

\* link_recv: what the remote ears have relayed, as if heard here.
LinkRecv(f) ==
  /\ pc = "link" /\ MayReceive
  /\ Recv(f, "rf")
  /\ GhostHear(f)
  /\ Count("rx")
  /\ UNCHANGED <<clock, now, pc, radio, told>>

LinkDone ==
  /\ pc = "link"
  /\ pc' = "tx"
  /\ UNCHANGED <<m, clock, now, radio, told, ghost, used>>

Due(s, t) == {i \in Slot : s.txq[i] # NoEntry /\ s.txq[i].due <= t}

\* pick_due: the lowest priority value, then the earliest due, then the first slot.
Urgent(s, t) ==
  CHOOSE i \in Due(s, t) : \A j \in Due(s, t) :
    LET a == s.txq[i]
        b == s.txq[j]
    IN \/ a.prio < b.prio
       \/ a.prio = b.prio /\ a.due < b.due
       \/ a.prio = b.prio /\ a.due = b.due /\ i <= j

\* A hotspot gone silent that keeps its queue for later.
EmptiedNever(s) == [s EXCEPT !.silent = TRUE, !.soon = @ \/ ~s.silent]

\* What is queued never goes out late.
Emptied(s) ==
  [s EXCEPT !.silent = TRUE, !.soon = @ \/ ~s.silent, !.txq = [i \in Slot |-> NoEntry]]

\* A packet that is given up when the channel is busy.
BackedOffForGood(s, i, due) == [s EXCEPT !.txq[i] = NoEntry]

\* The packet stays in its slot and waits.
BackedOff(s, i, due) == [s EXCEPT !.txq[i].due = due]

\* A packet that stays in the queue once it is sent.
FreedNever(s, i) == s

\* One shot: the slot is free again, whether the packet went out or not.
Freed(s, i) == [s EXCEPT !.txq[i] = NoEntry]

SilentFlush ==
  /\ pc = "tx" /\ RfSilent(m, now)
  /\ m' = Emptied(m)
  /\ pc' = "timers"
  /\ UNCHANGED <<clock, now, radio, told, ghost, used>>

NothingDue ==
  /\ pc = "tx" /\ ~RfSilent(m, now) /\ Due(m, now) = {}
  /\ pc' = "timers"
  /\ UNCHANGED <<m, clock, now, radio, told, ghost, used>>

\* sx126x_channel_busy finds the channel busy: the packet waits, and the radio is
\* left in standby, the state the detection ends in.
ChannelBusy(delay) ==
  /\ pc = "tx" /\ ~RfSilent(m, now) /\ Due(m, now) # {}
  /\ UseCad /\ used.busy < MaxBusy /\ clock <= LastInput
  /\ m' = BackedOff(m, Urgent(m, now), now + delay)
  /\ radio' = "standby"
  /\ Count("busy")
  /\ pc' = "timers"
  /\ UNCHANGED <<clock, now, told, ghost>>

\* sx126x_transmit succeeds and returns to RX.
Transmit ==
  /\ pc = "tx" /\ ~RfSilent(m, now) /\ Due(m, now) # {}
  /\ m' = Freed(m, Urgent(m, now))
  /\ GhostSend(m.txq[Urgent(m, now)])
  /\ radio' = "rx"
  /\ pc' = "timers"
  /\ UNCHANGED <<clock, now, told, used>>

\* No TxDone: the packet is lost, and the chip is reset, which may fail too.
TransmitFails ==
  /\ pc = "tx" /\ ~RfSilent(m, now) /\ Due(m, now) # {} /\ used.fail < MaxFail
  /\ m' = Freed(m, Urgent(m, now))
  /\ radio' \in {"rx"} \cup (IF ReinitFails THEN {"standby"} ELSE {})
  /\ Count("fail")
  /\ pc' = "timers"
  /\ UNCHANGED <<clock, now, told, ghost>>

\* mesh_service_tx.
ServiceTx ==
  \/ SilentFlush
  \/ NothingDue
  \/ \E delay \in CadDelay : ChannelBusy(delay)
  \/ Transmit
  \/ TransmitFails

ProbeDue(s) == s.probe.left > 0 /\ now >= s.probe.next

\* mesh_service_probe. The next probe counts from this loop's now.
ServiceProbe(s, delay) ==
  IF ~ProbeDue(s) THEN s
  ELSE IF RfSilent(s, now) THEN [s EXCEPT !.probe.left = 0]
  ELSE [Announce(s, "probe", s.probe.chan, delay) EXCEPT
         !.probe.left = s.probe.left - 1, !.probe.next = now + ProbeInterval]

\* send_tod, for a kind that was asked for.
Tell(s, kind, delay) ==
  IF kind \in s.tod.ask THEN Announce(s, kind, s.tod.chan, delay) ELSE s

\* mesh_service_timeofday: the answer waits for the minute to change.
ServiceTimeOfDay(s, delay) ==
  IF s.tod.ask = {} \/ Minute(clock) = s.tod.minute THEN s
  ELSE [Tell(Tell(s, "time", delay), "date", delay) EXCEPT
         !.tod.ask = {}, !.tod.minute = Minute(clock)]

AdvertDue(s) ==
  AdvertInterval > 0 /\ now > s.last_advert /\ now - s.last_advert >= AdvertInterval

\* The periodic advert of the loop; a silent hotspot or a full queue skips one.
PeriodicAdvert(s, delay) ==
  IF AdvertDue(s) THEN [SendAdvert(s, delay) EXCEPT !.last_advert = now] ELSE s

\* mesh_service_probe, mesh_service_timeofday and the periodic advert, in a row.
Timers ==
  /\ pc = "timers"
  /\ \E probe, tod, advert \in JitterDelay :
       m' = PeriodicAdvert(ServiceTimeOfDay(ServiceProbe(m, probe), tod), advert)
  /\ pc' = AfterTimers
  /\ UNCHANGED <<clock, now, radio, told, ghost, used>>

\* The CLI commands that reach the mesh: advert, probe, probe 0.
Cli ==
  /\ pc = "cli" /\ used.cli < MaxCli /\ clock <= LastInput
  /\ \/ \E delay \in JitterDelay : m' = SendAdvert(m, delay)
     \/ m' = StartProbe(m, MboxChannel)
     \/ m' = [m EXCEPT !.probe.left = 0]
  /\ Count("cli")
  /\ UNCHANGED <<clock, now, pc, radio, told, ghost>>

CliDone ==
  /\ pc = "cli"
  /\ pc' = "hub"
  /\ UNCHANGED <<m, clock, now, radio, told, ghost, used>>

\* A node that takes the hub's frames whatever its queue.
HasRoomAlways(s) == TRUE

\* on_frame's test: a frame of the hub must find this many slots free.
HasRoom(s) == Cardinality(Free(s)) >= Headroom

\* on_frame, past its token bucket: a frame of the hub is handled like one heard,
\* or refused as limited, before the dedup ring sees it.
HubSends(f) ==
  /\ pc = "hub" /\ MayReceive
  /\ \/ HasRoom(m) /\ Recv(f, "hub")
     \/ ~HasRoom(m) /\ UNCHANGED m
  /\ Count("rx")
  /\ UNCHANGED <<clock, now, pc, radio, told, ghost>>

\* The rest of backbone_service: a STATUS, at once when the mesh asked for one and
\* otherwise when its own timer says so; then the loop starts over.
HubDone ==
  /\ pc = "hub"
  /\ told' \in {RfSilent(m, clock)} \cup (IF m.soon THEN {} ELSE {told})
  /\ m' = [m EXCEPT !.soon = FALSE]
  /\ pc' = "rx" /\ now' = clock
  /\ UNCHANGED <<clock, radio, ghost, used>>

Tick ==
  /\ clock < MaxClock
  /\ clock' = clock + 1
  /\ UNCHANGED <<m, now, pc, radio, told, ghost, used>>

Step ==
  \/ PollNothing \/ LinkDone \/ ServiceTx \/ Timers \/ CliDone \/ HubDone

Input ==
  \/ \E f \in RfFrame \cup Echoes : PollRx(f) \/ LinkRecv(f)
  \/ \E f \in HubFrame : HubSends(f)
  \/ Cli

Next == Step \/ Input \/ Tick

\* mesh_init, all cleared.
Cleared ==
  [ring |-> EmptyRing, txq |-> [i \in Slot |-> NoEntry], hist |-> <<>>,
   until |-> 0, silent |-> FALSE, soon |-> FALSE, last_advert |-> clock,
   neighbors |-> <<>>, affinity |-> {},
   probe |-> [chan |-> MboxChannel, left |-> 0, next |-> 0],
   tod |-> [chan |-> MboxChannel, ask |-> {}, minute |-> 0],
   help |-> 0, gates |-> <<>>, box |-> <<>>]

\* main: the advert at the start, then the loop; the hub's session comes up.
Init ==
  /\ clock = 0 /\ now = 0
  /\ \E delay \in JitterDelay :
       m = IF AdvertInterval > 0 THEN SendAdvert(Cleared, delay) ELSE Cleared
  /\ pc = "rx" /\ radio = "rx" /\ told = RfSilent(Cleared, 0)
  /\ ghost = [attended |-> 0, sent |-> NoEntry, aired |-> {}]
  /\ used = [rx |-> 0, busy |-> 0, fail |-> 0, cli |-> 0]

Spec == Init /\ [][Next]_vars

\* The loop never stops, and neither does time. Nothing is assumed of what is
\* received; a busy channel clears after MaxBusy times.
FairSpec == Spec /\ WF_vars(Step) /\ WF_vars(Tick)
----------------------------------------------------------------------------
Power == {"low", "normal", "high"}

\* An entry of the TX queue, and what is remembered of one once it is queued.
Entry == [frame : Frame, src : Source, prio : Nat, due : Nat, power : Power]
Queued == [hash : Hash, at : Nat, src : Source, offered : BOOLEAN]

Queue == [Slot -> Entry \cup {NoEntry}]
Neighbor == [key : Key, name : Name, type : {"chat", "repeater"}, last : Nat]
Probing == [chan : Channel, left : Nat, next : Nat]
Telling == [chan : Channel, ask : SUBSET {"time", "date"}, minute : Nat]

MeshType ==
  [ring : RingType(Hash, Source), txq : Queue, hist : Seq(Queued),
   until : Nat, silent : BOOLEAN, soon : BOOLEAN, last_advert : Nat,
   neighbors : Seq(Neighbor), affinity : SUBSET Node,
   probe : Probing, tod : Telling, help : Nat, gates : Seq(Gate), box : Seq(LetterSet(Id))]

\* A transmission: what was sent, and when.
Sending == [frame : Frame, src : Source, power : Power, now : Nat]

GhostType ==
  [attended : Nat, sent : Sending \cup {NoEntry}, aired : SUBSET OwnId]

\* What others originate is nothing that this node originates (a payload names its
\* sender and its second); what comes back of our own is among the Echoes.
ASSUME OthersAssumption == \A f \in RfFrame \cup HubFrame : f.msg.id \notin OwnId

\* What a slot holds when it is not used is no entry, and no hash.
ASSUME EmptyAssumption == NoEntry \notin Entry /\ NoHash \notin Hash

TypeOK ==
  /\ m \in MeshType
  /\ clock \in Nat /\ now \in 0..clock
  /\ pc \in {"rx", "link", "tx", "timers", "cli", "hub"}
  /\ radio \in {"rx", "standby"}
  /\ told \in BOOLEAN
  /\ ghost \in GhostType
  /\ used \in [{"rx", "busy", "fail", "cli"} -> Nat]

\* A packet is queued again for relaying only after SeenSize other packets: a
\* relayed copy, a copy from the hub, a copy of our own message, however they
\* interleave, is a duplicate (mesh_on_recv, enqueue).
RelayOnce ==
  \A i, j \in 1..Len(m.hist) :
    i < j /\ m.hist[i].hash = m.hist[j].hash /\ m.hist[j].src # "own"
      => m.hist[j].at - m.hist[i].at > SeenSize

\* What came from the hub is never offered back to it, even when its copies are
\* heard on the air later (backbone_offer's caller, enqueue).
NoEchoToHub ==
  \A i \in 1..Len(m.hist) :
    m.hist[i].offered => m.ring.log[m.hist[i].at].src # "hub"

\* The dedup ring of the repeater is a correct ring (DedupRing), under every
\* interleaving of what is heard, what the hub sends and what the node says.
SeenRingInv == RingOK(m.ring)

QueuedFrom(src) == {i \in Slot : m.txq[i] # NoEntry /\ m.txq[i].src = src}

\* The hub alone cannot fill the queue: Headroom slots less one are always free of
\* its frames (on_frame, mesh_txq_free).
HubShare == Cardinality(QueuedFrom("hub")) <= TxqSize - Headroom + 1

\* A hotspot transmits only while attended: within Awake of a companion of the
\* operator heard directly on the air (mesh_rf_silent, hotspot_wake).
OnAirAttended ==
  Role = "hotspot" /\ Awake > 0 /\ ghost.sent # NoEntry => ghost.sent.now < ghost.attended

\* Nothing of the hub leaves a hotspot at uplink power, and nothing else does but
\* what the operator's devices or the node itself said (hotspot_decide).
UplinkScope ==
  \A i \in Slot :
    m.txq[i] # NoEntry /\ m.txq[i].power = "high" =>
      \/ m.txq[i].src = "own"
      \/ m.txq[i].src = "rf" /\ m.txq[i].frame.msg.sender \in Home

\* A hotspot that knows it is silent has nothing to send, in whatever order the
\* timers, the radio and the hub add to the queue (mesh_service_tx, enqueue).
SilentQueueEmpty ==
  m.silent => RfSilent(m, clock) /\ Free(m) = Slot

\* The hub is not left with a wrong idea of a silent hotspot: whenever it was told
\* otherwise, a STATUS is on its way (backbone_status_soon).
HubInformed ==
  /\ m.silent /\ ~told => m.soon
  /\ told /\ ~RfSilent(m, clock) => m.soon

\* Only what is provably public is ever queued: signed adverts, messages of a
\* configured channel, and those tagged for a served region (classify_forward).
QueuesPublicOnly ==
  \A i \in Slot :
    m.txq[i] # NoEntry =>
      LET msg == m.txq[i].frame.msg
      IN \/ msg.type = "advert" /\ msg.sig
         \/ msg.type \in Group /\ msg.chan \in Channel
         \/ msg.type \in Group /\ msg.region /\ m.txq[i].frame.route = "tflood"

\* The answers of the mailbox in the log of the ring: to which station, and when.
Answers(log) ==
  {<<BaseCall[log[k].hash[1][2]], log[k].hash[1][3]>> :
     k \in {k \in 1..Len(log) : log[k].src = "own" /\ log[k].hash[1][1] = "reply"}}

\* The other stations among them that were answered at t or later.
OthersAnswered(answers, call, t) ==
  {x[1] : x \in {x \in answers : x[1] # call /\ x[2] >= t}}

\* No station is answered in the mailbox twice within the cooldown, unless since
\* then as many others were answered as there are gates and one took its gate; and
\* no help is given twice within its own cooldown (mbox_rate_ok).
RepliesSpaced ==
  \A i, j \in 1..Len(m.hist) :
    LET a == m.hist[i].hash[1]
        b == m.hist[j].hash[1]
    IN i < j /\ m.hist[i].src = "own" /\ m.hist[j].src = "own" =>
         /\ a[1] = "reply" /\ b[1] = "reply" /\ BaseCall[a[2]] = BaseCall[b[2]]
              => b[3] - a[3] >= MboxCooldown
                   \/ Cardinality(OthersAnswered(Answers(m.ring.log), BaseCall[a[2]], a[3])) >= GateMax
         /\ a[1] = "help" /\ b[1] = "help" => b[3] - a[3] >= HelpCooldown

\* A flood that was relayed says so: its path ends with this node ("append our
\* path hash, bounded by the 64-byte path").
FloodPathEndsHere ==
  \A i \in Slot :
    m.txq[i] # NoEntry /\ m.txq[i].src # "own" /\ IsFlood(m.txq[i].frame) =>
      LET p == m.txq[i].frame.path
      IN p # <<>> /\ p[Len(p)] = Self

\* A routed packet whose next hop we are is queued, if there is room, or was
\* queued before ("if we are the next hop, strip ourselves and retransmit").
RelaysAsNextHop ==
  [][\A f \in RfFrame :
       /\ PollRx(f) /\ Forward /\ Role = "repeater" /\ Free(m) # {}
       /\ f.route = "direct" /\ f.path # <<>> /\ Head(f.path) = Self
       /\ ~Refused(f) /\ ~KeptHere(f)
       => \E i \in 1..Len(m'.hist) : m'.hist[i].hash = HashOf(f)]_vars

\* A radio left in standby, because the channel was busy or because its reset failed,
\* listens again once something is queued, unless that transmission fails as well:
\* nothing but a transmission and its reset bring it back (mesh_service_tx).
RadioReturns ==
  \A n \in 0..MaxFail :
    radio = "standby" /\ Free(m) # Slot /\ used.fail = n ~> radio = "rx" \/ used.fail > n

\* What is queued leaves the queue, sent or given up.
QueueDrains == (\E i \in Slot : m.txq[i] # NoEntry) ~> Free(m) = Slot
=============================================================================
