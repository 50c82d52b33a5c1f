# Verification of the MeshCore repeater

TLA+ models of the repeater daemon (`src/src/`), model-checked with TLC on small
instances, and theorems about them for every value of their constants, checked
with TLAPS. Paths below are relative to the repository.

- [The system](#the-system)
- [Modules and how they correspond to the code](#modules-and-how-they-correspond-to-the-code)
- [Runs](#runs)
- [Fairness](#fairness)
- [What is proved](#what-is-proved)
- [Disagreements between code and documentation](#disagreements-between-code-and-documentation)
- [What is not modelled](#what-is-not-modelled)
- [Plan](#plan)

## The system

One process, one thread. `main.c` runs a loop: it reads the clock once (`now`),
polls the radio (or sleeps), takes what remote ears relay (`link`), serves the TX
queue, the probes and the time-of-day answers, sends the periodic advert, reads the
local CLI and the monitors, and serves APRS-IS and the hub ("backbone"). Each
handler runs to completion, so there are no data races; what is hard is the
*order* of handlers, time that passes inside them, and the network.

| component | state | operations | talks to |
|---|---|---|---|
| dedup ring, `mesh.c` `seen_check_and_add` | `seen[1024]`, `seen_idx` | check-and-add of a packet hash | everything that receives or originates |
| packets, `packet.c/h` | none | parse, hash, path length byte, append/strip a hop | mesh |
| mesh, `mesh.c` | ring, TX queue, neighbours, affinity, hotspot deadline, probe, time of day, help time | `mesh_on_recv`, `enqueue`, `mesh_service_tx`, `mesh_service_probe`, `mesh_service_timeofday`, `mesh_send_advert` | radio, hub, mailbox, log |
| mailbox, `mbox.c` | letters, reply gates | deposit, fetch, rate limit per base call | mesh |
| radio driver, `sx126x.c` | `g_cfg`, chip mode and registers, antenna switch | init, poll, CAD, set power, transmit, retune, reinit, standby | loop, `mesh_service_tx`, CLI |
| link, `link.c` | socket, key | relay a frame, receive a frame (MAC, 60 s window), drained by the loop | loop; injects into `mesh_on_recv` |
| backbone client, `backbone.c` | session state, keys, sequence numbers, replay window, timers, token bucket | HELLO/WELCOME, RESET, KEEPALIVE, STATUS, NEIGHBOURS, OBSERVE, BRIDGE, FRAME, POLICY, BYE | a hub over UDP; `mesh_on_recv`, config |
| policy, `backbone.c`, `config.c` | pages collected, version, rooms and block lists | collect, apply, save, load | hub, mesh |
| APRS-IS client, `aprsis.c` | connection, back-off, rate limit | connect, login, gate a node | TCP server |
| monitors, `monitor.c` | up to 4 connections with a filter each | accept, publish, poll, reap | loop, mesh |
| configuration, `config.c` | `mc_config_t`, a file | defaults, set, load, save | start-up, CLI |
| identity, `identity.c` | a key pair, a file | load, make, save | start-up |
| local CLI, `cli.c` | — | set, save, reload, blacklist, advert, probe, freq ... | everything above |
| platform layer, crypto, self test, web, install | — | — | — |

What makes each correct, and where it is hard:

- **Dedup.** A packet is relayed once within the ring's span, whichever of radio,
  hub and the node itself it comes from first, and across wraps of the array.
- **Queue.** Only provably public content is queued; the hub cannot fill the queue;
  nothing of the hub returns to it; the queue drains although the channel is busy
  and transmissions fail; replies keep their cooldowns.
- **Hotspot.** A hotspot is on the air only while a companion of its operator was
  heard recently, although the loop's `now` is older than the clock other handlers
  read. It flushes its queue on falling silent, tells the hub, and bounds what goes out at uplink power.
- **Session with the hub.** Datagrams are lost, duplicated, delayed and reordered,
  either side restarts: both sides must agree on keys, never use a number twice
  under one key, accept a frame at most once, believe a RESET only about a session
  the hub does not hold, come back to a session without help and not give one up that works.
- **Policy.** Sets of the hub apply whole and in order though their pages are lost and
  overtake one another; they share two tables with the node's own rooms, which must
  survive every set; the kept file survives a crash.
- **APRS-IS.** Connecting, logging in and sending fail at any point: the server gets whole lines and
  nothing before a verified login, the back-off grows to its limit, a station is gated
  at its rate although the table of stations is small, and the client comes back without help.
- **Radio.** A call of the driver is a list of SPI commands; the chip works on between any two of them, any of them may
  fail, and a transmission may outlive the software's deadline. No packet may be lost or delivered twice by a poll, "sent" must mean
  sent, the antenna must not be switched while the chip transmits, and a packet must go out with the settings last asked for.
- **Ways in.** Remote ears send datagrams that are repeated within 60 s, by clocks that differ; the hub is held to a rate by
  a bucket that is refilled only when it is looked at, at the rate of that moment.
- **Monitors.** Connections are found by index in a table that a drop compacts: a poll result must not be applied to another connection.
- **Settings, identity.** Both files are rewritten in place, any write may be cut, and a start takes what it finds: a
  receive-only ear must not come up as a transmitter, and a node keeps its identity.

`PROJECT.json` lists every component, and under `hazards` each place of the code
where these go wrong, with the property that would show it.

## Modules and how they correspond to the code

| module | models | notes |
|---|---|---|
| `SeenWindow` | what the ring promises | a log of hashes; a call is Duplicate exactly if the hash is among the last `size` |
| `DedupRing` | `seen[]`, `seen_idx`, `seen_check_and_add` | operators on a ring record; `log` is history |
| `SeenRing` | the ring on its own | one action, any hash; refines `SeenWindow` |
| `Packet` | `packet.c`, `packet.h` | content, route, path with its 6-bit count, dedup hash |
| `Policy` | `classify_forward`, `hotspot_decide`, block lists, `is_companion_name` | pure decisions |
| `Mailbox` | gates and deposits of `mbox.c` | operators |
| `Mesh` | `mesh.c` and the loop of `main.c` | composes the four above; radio, link, hub and CLI are its inputs |
| `MCMesh` | constants of the runs | nodes, payloads, frames |
| `ReplayWindow` | `bb_replay_check` | the mask is the set of its bits |
| `Session` | the client's side of `backbone.c` | operators on the client's state |
| `FrameChannel` | what the session promises for frames | sent before it arrives, at most once, any order |
| `Backbone` | client, hub, resolver, network | composes `Session` with a hub; refines `FrameChannel` |
| `PolicyRegister` | what the node promises of the hub's sets | one whole set in force, replaced by later ones only; a restart brings back one that was in force |
| `CentralPolicy` | `on_policy`, the merge, the files | an external hub sends pages; refines `PolicyRegister` |
| `MCPolicy` | constants of its runs | sets, rooms, blocks |
| `Aprsis` | `aprsis.c` | the client and an external server |
| `Radio` | what the driver promises the loop | calls, without their commands |
| `Sx126x` | `sx126x.c`, its callers in `main.c`, `mesh.c`, `cli.c` | a step per SPI command; refines `Radio` |
| `Ingress` | `link.c`, the token bucket of `on_frame`, the loop's three sources of frames | extends `SeenRing`: all of them meet in the ring |
| `Subscribers` | what the control port promises its monitors | who is told what, who leaves |
| `Console` | `monitor.c`, `control_accept`, step 4 of the loop | the table and its indices; refines `Subscribers` |
| `Settings` | `config.c`, `identity.c`, the start in `main` | one key for each kind of setting |
| `MCParts` | constants of the run of the five parts above and the ring | a behaviour runs one of them |
| `*_proofs` | theorems | see below; `Parts_proofs` is about the parts of `MCParts`; `Order_proofs` has least and greatest elements of sets of numbers, induction up to a number, and folds |

### Mesh

`m` is `mc_mesh_t`. Functions of `mesh.c` that call one another are operators from a
state to the next; each handler the loop calls is an action, enabled where `pc` says
the loop is: `PollRx`/`PollNothing`, `LinkRecv`/`LinkDone`, `ServiceTx`, `Timers`,
`Cli`/`CliDone`, `HubSends`/`HubDone`. `HubDone` ends an iteration and reads the clock into
`now`. `Tick` moves the clock between any two of them, so a handler that reads the
clock itself (`enqueue`, `mesh_rf_silent`, wake-ups) may see a later time than `now`,
which the TX service and timers use. A message carries the facts the code extracts
from its bytes: whether the signature verifies, which configured channel's MAC verifies, who sent it,
which command it is. `ghost`, `m.hist` and `ring.log` are history: nothing in the code
reads them, and no guard of the model does, but for `ghost.aired`, which bounds what a
neighbouring repeater may echo to what was really sent. `told` is what the hub last
heard about silence.

Random delays (relay back-off, reply delay, jitter, CAD retry) are free choices from
small sets. `radio` is what the driver leaves the chip in: CAD ends in standby, a
transmission in RX, a reset after a missing TxDone in RX, or in standby if it fails.

### Backbone

`bb` is `mc_backbone`. `backbone_service` is split into its parts (the lookup, each
datagram read, each timer) and a part with nothing to do changes nothing, so the
sequences of calls are among the interleavings of its parts. Timers are countdowns in
ticks. A key stands for both directional keys: it is made of the HELLO (named by its
ephemeral key, a number) and the WELCOME (named by the session id), so two sides that combine different
datagrams have different keys, as they would. A HELLO's `ts` is only what the hub compares. It grows within a process, but
`Restart` may begin in the second of the last HELLO or the one before it, since `backbone_init` forgets `last_hello_ts`: the next
HELLO may then repeat a time, and the hub refuses it. `OnFrame` answers a frame that the mesh takes with an OBSERVE; one that it
does not take may have been malformed, and is then not observed.

The hub is not in this repository; it does what `src/docs/backbone.md` asks of one:
it accepts a HELLO only if newer than the last, keeps the new session pending until
its first datagram, never reuses a session id, and may answer an unknown session with
RESET. The network is two queues. In order is normal; a datagram that overtakes,
is repeated later, is lost, or stays in flight for a whole tick is a fault, and so is a
restart of either side, a failed lookup, or a BYE of the hub. `MaxFaults` bounds them, and `LastFault` says
from which tick of agreement on nothing fails any more, so that a run has a calm to look at: `MaxCalm` ticks of it, in which the client
keeps the session alive, reports, and renews its keys.

### CentralPolicy

`cfg` is what `mc_config_t` says of rooms and channels: the node's own rooms in the order
of the table, the hub's, their channels, and the set in force. A room stands for its name, its
region key and its hashtag channel, a block for a name or a key. `OnPolicy` is a page
arriving; a complete set is applied in the same step (`config_set_policy`), and the file is then
written in three steps (truncate, write, rename), each of which may fail, so that a
crash falls between any two of them. The loop does nothing else meanwhile (`pc`). `Save` and `SaveConf`
write the config file in place, as `config_save` does. `Restart` loads both files as `main` does. A file of version
0 stands for no file.

The hub, as `src/docs/backbone.md` describes it, numbers its sets upwards (the node compares versions for equality only), sends the last one to a
new session, when it publishes one, and when a STATUS reports another. The session delivers
a page at most once and in any order (`Backbone` shows this), or loses it. A STATUS that
is due at once may overtake pages; a periodic one comes long after they have arrived or
are lost. `applied`, the sequence number before which pages are stale, and `col`, the pages collected, are forgotten by a new session.

### Aprsis

`a` is `mc_aprsis`. `aprsis_service` is one of four actions by what it finds: `StartConnect`, `Fails`
(poll or `send` reports an error), `Connect` and `Session`, in which one call reads, sends, times out and beacons in
the code's order. `GateNode` is the call from the mesh for a verified advert heard on the air. Timers are
countdowns, and the table of stations is kept in the order of its times, no two of them equal (the code breaks a tie of the same millisecond by slot, but two adverts verified on the air are further apart than that). A line has two parts, so that `send`
may take half a line; the server notes halves that do not belong together. The server's
lines matter one by one: what has no end yet only waits in `rxbuf`. `poll` interrupted by a signal leaves
`revents` unset (`src/src/main.c:361`, `374`), so an error or a writable socket may be reported that is none; such
a report, like a refusal, a reset, a silent server, a slow send or a loop that is late for its work, is one of `MaxFaults`.
`up` is the time since boot, which `hal_millis` counts, as far as the beacon depends on it.

### Sx126x

`drv.todo` is what is left of the call that runs: a function of the driver is a sequence of commands (`Transmit`, `InitSequence`, ...),
and `Step` takes one. `Fail` is the same command failing (BUSY stuck, SPI refused): `Stops` says where the function returns then, and
everywhere else it goes on regardless, as the code does (`sx126x_transmit` checks only the writing of the packet and SET_TX). `chip` is the device as its data sheet and the
driver's use of it say: it receives, latches interrupts, and overwrites its packet while a poll is half way. A register is written or
not; `unwritten` are those whose last write did not get there (and the clock, if a board has no
TCXO and the probe that finds that out failed or was not reached). `turn` is the order in which the loop, `mesh_service_tx` and the CLI call
the driver. A command that fails is taken to have had no effect, except the reset.

### Ingress

One iteration of the loop in three steps: `OwnRadio`, `LinkRecv` until `LinkDone`, `OnFrame`. `net` is every datagram sent, and any
of them may arrive at any time, any number of times, or damaged. Each ear stamps its own time, off by a member of `Skew`. `OnRecv` is `mesh_on_recv` up to the ring.
Tokens are counted in minute-ths (60000ths in the code). `acted` and `admitted` are history.

### Console

`conn` is the table of monitors in its order, `pfd` what `poll` said of its entries, by index. The three steps of the loop that touch it are
`Publish` (from the mesh), `Accept` (one client per iteration, a monitor or a command) and `Reap`; between them clients connect, send and hang up. The
walks go backwards because a drop moves the last entry into the hole (`mon_drop`); the table is `Subscribers`' set of clients.

### Settings

`conf` is `mc_config_t`, `disk` the lines of its file. Keys are modelled by kind: a checked number or flag (`tx_power`), a
number printed with fewer digits than it has (`latitude`), a flag that another key sets (`location`), a free text (`aprs_comment`), a name of a file (`key_file`), a secret written only if set
(`link_key`), a choice (`link_mode`), a list (`blacklist`). `CutAt` is what a write that stops half way leaves: whole lines and perhaps a piece of the
next, which `Stubs` says how to read. `StartConfig`, `StartIdentity`, `SaveIdentity`, `StartHardware` are `main`'s order; the process may end between any two.

## Runs

| run | question | bounds and why they are enough |
|---|---|---|
| `parts` | six questions, one per part, in one run because the parts share no variables: is the array a window of the last hashes; are replays of ears and the rate of the hub bounded; does the driver keep its contract; do monitors get their events; do settings and identity survive? | below |
| `mesh_repeater` | dedup, hub and queue together | ring of 2, so hashes are really forgotten; queue of 3 with 2 slots of headroom, so the hub is refused; 4 receptions from air and hub of original, relayed and echoed copies |
| `mesh_content` | what may be queued; cooldowns | every payload type, a forged advert, a blocked name, every command; one reply gate, so it is evicted; 3 receptions, 2 ticks; no commands of the local CLI and no failing transmission |
| `mesh_hotspot` | silence | awake for 2 of 4 ticks, so it wakes, falls silent and wakes; link on; one busy channel |
| `mesh_live` | does the queue drain and the radio listen again? | 2 busy channels, 2 failed transmissions, each with a reset that works or fails, 1 reception, 1 command |
| `backbone` | the session | any 2 faults, none from the third tick of agreement on (`LastFault` 2); 5 ticks of agreement follow (`MaxCalm` 7 in all), enough for a session without an answer to be given up (more than 4), and past the STATUS of every 4 and the NEIGHBOURS of every 5 ticks; window of 2, `RESET` window of 2, limit of 9 numbers so keys are renewed within the calm, 2 tries, back-off 1 to 2 |
| `policy` | the hub's sets of rooms and blocks | 3 overlapping sets of 2, 1 and 2 pages, tables of 3 rooms and 3 channels that they overfill, a set that blocks the node itself, any 2 faults, 2 commands; the hub stops resending at sequence number 8, which this run never reaches |
| `aprs` | the client of APRS-IS | any 2 faults; 3 stations over a table of 2, two places; a buffer of 2 lines, so that a line is dropped and one is half sent; waits of 1 to 3 ticks, so that the back-off reaches its limit |
| `cad_deaf`, `next_hop`, `path_wrap`, `room_lost` | the disagreements below | each expected to be violated |

In `parts` a behaviour runs one part, chosen in `PartsInit`; the others keep their initial state. *Ring:* 2 slots, 3 hashes, 6
records, so it wraps twice and a hash is repeated inside and just outside the window. *Ears:* window of 1 tick, clocks off by 0 or 1, 4 ticks, so a datagram is too early, fresh and too
old; one datagram, repeated at will, is enough to be acted on twice. *Hub:* a minute of 3 ticks and rates 1 and 6, so the bucket holds
1 or 2; 4 frames let through exceed it. *Radio:* 2 packets, 1 failed command anywhere, 1 retune, 2 powers, a board with and without TCXO. *Console:* 3
clients over a table of 2, three filters, three kinds of event; the leaving of one client is watched, because clients are interchangeable.
*Settings:* an ear or a repeater as installed, 2 sets, 1 save cut at any line, 2 starts, crashes anywhere.

A bound stops an input (`MaxRx`, `MaxFaults`, ...), never a step of the code. Where time is bounded, by `MaxClock` in the mesh and by
`MaxCalm` in `backbone` (ticks while both sides agree; other ticks are not counted), the bound is
beyond the deadlines the run's properties are about. In `mesh_live`, `LastInput` stops inputs a tick before the clock ends. In `path_wrap` the sizes are
scaled: 4 bytes of path and a count modulo 4, for 64 and 64.

The properties:

- `ImplementsWindow`, `SeenRingInv`: slots are the last hashes of the log,
  none twice.
- `RelayOnce`: between two times the same packet is queued for relaying, more than `SeenSize`
  others were recorded. `NoEchoToHub`: what the ring first learned from the hub is not offered to it.
  `HubShare`: the hub's frames leave `Headroom - 1` slots alone.
- `QueuesPublicOnly`: every queued frame is a verified advert, a message of a configured
  channel, or one with a served region's code on a transport flood.
- `RepliesSpaced`: no station is answered twice within the cooldown, *unless* as many other stations
  as there are gates were answered since the first answer. The exception is the code's: `mbox_rate_ok` takes
  the oldest gate when the table of 8 is full (`src/src/mesh.c:655`), so a ninth
  station inside the cooldown frees another. The comment at `src/src/mesh.c:632` has no such exception.
- `OnAirAttended`, `SilentQueueEmpty`, `HubInformed`, `UplinkScope`: the hotspot's promises.
- `QueueDrains`: the queue becomes empty. `RadioReturns`: a radio left in standby with something queued listens again, unless
  another transmission fails, whose reset may fail too. It claims nothing of a radio with nothing queued: see below.
- `KeysAgree`, `NumbersFresh`, `ResetJustified`, `ImplementsChannel`: the session's keys, numbers, RESETs and frames.
  `Settles`: both sides are in one session again and again, and from being in one they get out only by new keys at the limit
  of numbers, by a fault, or after three faults, as many lost answers as the client waits for. A client that does not take an answer for a
  sign of life breaks it.
- `ImplementsRegister`: sets apply whole and in order, and a crash brings back a whole one.
  `FileRoomsServed`: the rooms of the config file are served whatever the hub sends.
  `HubRoomsInForce`: every room and channel of the hub belongs to the set in force, and one
  that is missing found the table full. `Converges`: the hub's last set is in force in the end.

- `StreamWhole`: the server gets whole lines, the login first and the rest after it was verified.
  `GateSpaced`: a station that stays put is gated at most once per `aprs_node_rate`, *unless* as many others as
  the table holds were gated in between, the same exception as above. `BacksOff`: every failure before a verified login
  makes the wait longer, up to its limit. `Connects`: in the end the client is logged in and stays so.

- `ImplementsRadio`: a poll loses nothing it could have delivered, and delivers nothing twice; "sent" was on the air; calls whose commands
  all worked leave the radio as their callers expect; every call returns. `SwitchSafe`: the antenna is never at the receiver while
  the chip transmits, unless the chip refused to stop. `SentAsAsked`: frequency, modem, power and bytes on air are the last ones asked for, except where
  the last write of a register failed.
- `HubRate`: in any span of time the hub puts through at most a full bucket and what the highest rate earns. `ReplayBounded`: a
  repeated datagram acts again only within two windows of the first time and only after the ring has turned over.
- `ImplementsSubscribers`: every event goes once to each monitor that wants it; a monitor leaves only when its own end is closed, and then it does.
- `SettingsSurvive`: a start finds the settings last saved as their lines read back, or after a cut save each one's value, a piece of it, or its default.
  `RxNeverTransmits`: a saved ear comes up transmitting only if the very line that makes it one was lost. `IdentityKept`: one identity on air per key file,
  unless a write failed.

`parts` sets `CHECK_DEADLOCK FALSE`: logs, time and starts are bounded and its parts end there. In the mesh
runs the loop always has a step; in `backbone` the action `Rest` marks the states where
the run's calm is used up and nothing is left to do.

## Fairness

`Mesh!FairSpec` is weak fairness of the loop's steps as a whole and of the clock: the loop has no
blocking call without a timeout, and time passes. Nothing is assumed of receptions. A
busy channel clears after `MaxBusy` detections, without which nobody could promise
that the queue drains.

`Backbone!FairSpec` is weak fairness of the parts of `backbone_service` (the loop calls
it every iteration), of the lookup (`getaddrinfo_a` ends), of arrivals at either end and of
time. Losses and restarts are actions without fairness, bounded by `MaxFaults`;
when they stop, `Settles` demands that both sides come back to one session, and leave it only for new keys.
`Tick` requires the client to have no work left: the loop turns far more often than once per tick.

`CentralPolicy!FairSpec` is weak fairness of pages that are in flight, of the steps of a save, of STATUS
and of a session coming up, which `Backbone!Settles` justifies. Pages and STATUS may be lost `MaxFaults` times.

`Aprsis!FairSpec` is weak fairness of the client (the loop calls it in every iteration), of the server's part
(to accept and to answer) and of time, which passes when both have done what they can, unless a
fault delays one of them.

`RadioSpec` is weak fairness of the driver's steps: no call of it blocks, for every wait on the chip has a deadline. Nothing is assumed of the chip, of its
callers or of arrivals. `ConsoleSpec` is weak fairness of the loop's steps; nothing is assumed of clients.

## What is proved

By TLAPS, for every value of the constants that the named ASSUMEs allow:

| theorem | statement |
|---|---|
| `Parts_proofs!RingTypeCorrect`, `RingCorrect` | `Spec => []TypeOK`, `Spec => []RingInv` |
| `Parts_proofs!RingImplementsWindow` | `Spec => ImplementsWindow`: the ring refines the window |
| `Parts_proofs!HubRateKept` | `IngressSpec => []HubRate`, for any rates and changes of them |
| `Parts_proofs!ReplaysBounded` | `IngressSpec => []ReplayBounded`, for any window, skew and size of the ring |
| `Mesh_proofs!MeshTypeCorrect`, `MeshRingCorrect` | `Spec => []TypeOK`, `Spec => []SeenRingInv` |
| `Mesh_proofs!OnlyPublicQueued` | `Spec => []QueuesPublicOnly` |
| `Mesh_proofs!UplinkInScope` | `Spec => []UplinkScope` |
| `Mesh_proofs!SilentMeansEmpty` | `Spec => []SilentQueueEmpty` |
| `Mesh_proofs!HubIsInformed` | `Spec => []HubInformed` |
| `Mesh_proofs!RelayedOnce` | `Spec => []RelayOnce`: no relay twice while the ring remembers |
| `Mesh_proofs!HubNotEchoed` | `Spec => []NoEchoToHub` |
| `Mesh_proofs!HubShareKept` | `Spec => []HubShare`, for any size of the queue |
| `Mesh_proofs!OnAirOnlyAttended` | `Spec => []OnAirAttended` |
| `Mesh_proofs!RepliesAreSpaced` | `Spec => []RepliesSpaced`: the cooldowns of the mailbox, with the exception stated above, for any number of gates |
| `CentralPolicy_proofs!PolicyTypeCorrect` | `Spec => []TypeOK`: the tables of rooms and channels stay within their sizes |
| `CentralPolicy_proofs!FileRoomsKept`, `HubRoomsCorrect` | `Spec => []FileRoomsServed`, `Spec => []HubRoomsInForce` |
| `CentralPolicy_proofs!PolicyImplementsRegister` | `Spec => ImplementsRegister`: sets are in force whole, later ones replace earlier ones, a restart brings back a whole one |
| `Backbone_proofs!SessionTypeCorrect`, `KeysAlwaysAgree` | `Spec => []TypeOK`, `Spec => []KeysAgree`: any timeouts, faults and restarts |
| `Backbone_proofs!NumbersAlwaysFresh` | `Spec => []NumbersFresh` |
| `Backbone_proofs!ResetsAreJustified` | `Spec => ResetJustified` |
| `Backbone_proofs!SessionImplementsChannel` | `Spec => ImplementsChannel`: the mesh gets a frame of the hub at most once |
| `Sx126x_proofs!RadioTypeCorrect` | `RadioSpec => []RadioTypeOK` |
| `Sx126x_proofs!SwitchAlwaysSafe` | `RadioSpec => SwitchSafe`, however many commands fail |
| `Sx126x_proofs!AlwaysSentAsAsked` | `RadioSpec => SentAsAsked`, likewise |
| `Sx126x_proofs!RadioKeepsContract` | `RadioSpec => Contract!Safe`: the safety half of `ImplementsRadio`, for any packets, failed commands and calls, and any interleaving with the chip |
| `Aprsis_proofs!Typed` | `Spec => []TypeOK` |
| `Aprsis_proofs!StreamIsWhole` | `Spec => []StreamWhole`, for any size of the buffer and wherever `send` stops |
| `Aprsis_proofs!GateIsSpaced` | `Spec => GateSpaced`, for any number of stations and size of the table |
| `Aprsis_proofs!Patient` | `Spec => BacksOff`, for any waits |
| `Parts_proofs!SettingsAlwaysSurvive` | `SettingsSpec => []SettingsSurvive`: any settings, saved and cut anywhere, any number of times |
| `Parts_proofs!EarsNeverTransmit` | `SettingsSpec => []RxNeverTransmits` |
| `Parts_proofs!IdentityAlwaysKept` | `SettingsSpec => []IdentityKept` |
| `Parts_proofs!MonitorsServed` | `ConsoleSpec => Promise!Safe`: the safety half of `ImplementsSubscribers`, for any table, clients, filters and events |
| `Parts_proofs!PartsTypeCorrect` | `PartsSpec => []PartsTypeOK`: the types of the ring, the ways in, the driver, the console and the settings |

**The ring.** `RingIsTail` relates the array to the history: the slot `d` behind the
cursor holds the `d`-th last record. From it, a linear search of the array finds exactly
the last `SeenSize` hashes (`SeenIsRecent`), so a recorded hash is new and `NoEarlyRepeat` is
kept. `DedupRing_proofs` proves this for any sets of hashes and sources; `Parts_proofs`, which begins with the theorems of `SeenRing`,
cites it for the array, and the mesh's proofs for the ring inside `m`.

**The ways in.** `HubRate` is not inductive: it says nothing of the tokens that are left. `BucketInv` does: for every frame let through, what the frames from it on cost, together
with what is in the bucket, is at most a full bucket and what the highest rate has earned since. A refill adds no more than was earned, a frame takes what it costs, and a
change of rate only lowers either. For replays, `Deed` ties every datagram acted on to the record it made in the ring's log, at a time its stamp was
fresh: two deeds of one datagram are two records of one hash, and `NoEarlyRepeat` of the ring puts more than `SeenSize` records between them.

**The repeater.** The inductive invariant is `IInv == Good(m) /\ LoopType`. `Good` is `Core`
(types, the ring, every queued entry is `Sendable`, silence means an empty queue and a
passed deadline) and `Informed` (a hub with a wrong idea of silence is owed a STATUS). None
of the safety properties is inductive alone: `HubInformed` needs to know that a silent flag
implies a passed deadline, `QueuesPublicOnly` that our own messages carry our own ids.
One lemma per function of `mesh.c` shows that it keeps `Core` and, but for waking and flushing, the three flags
of a hotspot (`Keeps`); one lemma per handler adds the clock and
the ghost. The lemmas on the policy at the start of `Mesh_proofs` show that what `classify_forward` admits is public and that only own or
home traffic gets uplink power.

**The repeater's past.** `HInv == IInv /\ HistOK(m) /\ Share(m)` adds the history. `HistRecorded`: every packet ever queued is a
record of the ring's log with its hash, and one offered to the hub is not a record of the hub. `OnceEach`: two queuings of one hash, the later
a relay, lie more than `SeenSize` records apart. Neither survives a step alone, because between a reception's record and the
queuing of its relay the handler may queue messages of the node itself (`HELP`, room replies, a STATUS). `Fresh` says what the
relay needs: the record just made is the latest of its hash and nothing is queued for it yet; `Grown` what the handler does in between: it only appends, and
only hashes of the node's own messages. `OthersAssumption` keeps the two apart. A duplicate is turned away by the ring, and what it
does not turn away is more than `SeenSize` records later (`NoEarlyRepeat`). `Share` counts the hub's slots: `on_frame` takes a frame only with
`Headroom` slots free, and every other source only frees slots of the hub. For `OnAirAttended`, `Attended` says that the
deadline the code keeps (`until`) is not after the one the heard companions justify, nor that after `clock + Awake`.

**The mailbox's answers.** `SInv` adds `Polite` to the history. `RepliesSpaced` says nothing of the gates, so `Gated` relates them to the answers in the ring's log,
taken as pairs of a station and a time: no station has two gates; every gate was closed by an answer; and every answer either still has a gate that is closed at least until its cooldown
ends, or was followed by answers to as many other stations as there are gates. The last part is what the eviction of the stalest gate needs: when
`mbox_rate_ok` takes the gate of an answer that still cools, each other gate is of another station and was closed at that time or later, and the
station that takes it is the last one missing. `SaidOK` carries this from the log to what was queued.

**The hub's sets.** That a set is complete says nothing by itself of where its pages come from, so the inductive
invariant follows the pages. `Ordered`: of two sets in flight the later one has the higher
sequence numbers, and a page of a set before the one in force is one that `Stale` turns away.
`Collected`: a collection under way is part of a single set, not before the one in
force, and its numbers (`min`, `max`) lie between those of earlier and of later sets in flight; this is why a page
of another version replaces it only if it is later, and why `applied` may be set to `min`. `WithCollected`
shows that a page that is taken keeps this, `WholeSetApplied` that a complete collection is the set of the hub.
`Tables` (in `InForceOK`) holds of any configuration that a merge returns (`MergedTables`), by what
`FirstOf` returns: at most `n` elements (`FirstOfBounded`), and exactly `n` if it leaves one out (`FirstOfFull`).
`FilesOK` says that files hold whole sets, and that the temporary file does when it is renamed. The number of sets, pages, rooms,
faults and commands is arbitrary.

**The session.** `IInv` follows the keys. A session id is given once and an ephemeral key is used in one HELLO, so whatever is in flight under a key belongs
to one session. `ClientOK`: the client's key is of its last HELLO and one the hub gave (`Agrees`); no datagram on its way up has a later number than the last it
used under its key (`UpOK`); no frame handed to the mesh is accepted again (`GotOK`). `HubOK`: ids come from the counter. `NetOK`: a WELCOME in flight names a key that its
id belongs to, a RESET one the hub does not hold any more, and every FRAME was sealed. `WindowCloses` is the lemma about the bitmap: once a number is accepted, no
number accepted later reopens it. Datagrams are taken from any place of what is on its way and may stay there, so loss, repetition and reordering need no case of their own
but `Among`. One lemma per message handler and timer keeps each part.

**The radio driver.** Neither property is inductive, because what makes a command safe is what the call did before it, and what makes a failure harmless is what it
does after it. `RInv` looks ahead in `drv.todo`. `SwitchOK`: before every switch to the receiver that is left, the call still stops the chip, or it is
stopped, or it refused to; directly before every SET_TX comes the switch to the transmitter. `FilledOK` and `SetOK`: every lasting register holds what was
asked, or is in `unwritten`, or will still be written. `OrderOK`: nothing is written after a transmission, and everything is written after a reset. There is one lemma per
kind of step; a call that stops at a failure (`StopSet`) leaves the registers it did not reach in `unwritten`. The number of faults, packets, powers and calls is arbitrary.

For the contract, `KInv` follows each call by what is left of it (`LeftIn`: an end of the commands of its function). `Achieved` says what a call that met no failure has reached with `n`
commands left: the last five commands of a transmission, a retune and a bring-up are the return to reception, each of which adds one thing reception needs, and a channel check is in standby with
its flags cleared before it starts. The chip cannot undo any of it (`AirLeaves`): without the switch, the mask and the mode together nothing is received.
A poll is about to say something true (`Truthful`), from the moment it has read the flags: that packet was received since the last clear, a corrupt one was, or nothing was and the radio did not listen.
`Flagged` is what makes "none" right: a packet that is latched has raised its flag, and the flag stays until the poll clears both. `DoneFollows`, `PollGoesOn` and `PollEnds` say which step of `Radio` a
command is; `FailFollows` and `PollFails` the same of a command that fails.

**APRS-IS.** `IInv` has a part for each end. `Wire`: what the server has of a line and what waits in the buffer together make whole lines (`Whole`), and
as long as the server has not verified the login these are logins only (`Allowed`); a `send` that stops anywhere moves the cut and keeps both (`SendOK`), a line
is added or dropped whole, and a connection that ends takes the buffer with it. `Table`: no station twice, no more than fit. `GateInv` relates the table to the history of `GateSpaced`: a
station gated within the rate is in the table with the place and the time of it, and every entry after it is of a station gated since (`Known`), or as
many others were gated since as the table holds. What one visit of
`Session` reads is a fold over the lines that came; `ReadBy` says what any number of them leaves.

**Settings and identity.** A file is described by what reading it gives, line by line (`Reading`): of a key with one value the last line of it counts (`LastLine`), and lines of a list add to it
(`ListSurvives`). `File` says where the lines of a key are in a file that `config_save` wrote, and `Cut` what a write that stopped leaves of it. `FilesInv` says that the file is a cut of the last save
(`FileInv`), and the whole one if no write was hurt; that a running node has the settings it read (`StartInv`); and that every identity used on air is the one in its key file, which a start about to
make a new one finds empty (`IdInv`). `EarsNeverTransmit` then comes down to where the `link_mode` line is in the cut file, `IdentityAlwaysKept` to a key file being written only by a start that found none.

**Monitors.** Both walks over the table go backwards and drop by moving the last entry into the hole. `Walked` is what such a walk keeps: before place `j`
nothing has moved, so the index still says what `poll` meant, and what is left are the entries of before without those dropped. `WriteAllIs` and `ReapAllIs` follow:
each monitor that wants the event is written to once, and those that leave are exactly those whose write failed or whose hang-up was polled. `ConInv` says that no connection is twice in the table, that who is
served is in it, and that a hang-up that was polled is one (`PollInv`); with it each step is one of `Subscribers` or a stutter.

**The parts together.** `PartsInv` is the conjunction of the four parts' invariants. A step of `PartsNext` is a step of one part, or of the ways in and the ring, and leaves the others' variables alone; the types follow.

**Folds.** Functions of the code that loop over a list are folds in the model. `Order_proofs` has what makes them provable without the library's induction theorems, which take an operator as a
parameter: a set of numbers that has an element has a least one, so a set that holds 0 and with each number the next holds all of them up to a bound (`UpTo`), and the function a fold is made of exists, by extending it
place by place (`FoldExists`).

**Assumptions.** `SeenAssumption`, `SeenRingAssumption`, `IngressAssumption` (a minute and the run's time are not 0, no rate is above `Top`), `PacketAssumption`, `PolicyAssumption`, `MailboxAssumption`,
`CentralAssumption` (the hub publishes at least one set, each of at least one page; the config file has no room twice and no more than fit),
`MeshAssumption`, `OthersAssumption` (a message of another node is not one of ours: a payload names its sender; our own come back as echoes), `EmptyAssumption` (markers for empty slots are not entries): sizes are
positive, delays natural, a node has a name. `SessionAssumption`, `WidthAssumption`, `BackboneAssumption`: timeouts and the window are positive, the back-off's least is not above its
most. `AprsisAssumption`: tables, rates and waits are positive, the buffer holds at least two halves of a line, the first wait is not above the last,
and "anywhere", the history's word for a station not gated lately, is not a place. `SettingsAssumption`: the bounds are natural. `ConsoleAssumption`: so is the size of the table, a filter is a kind and
a name, and events are of the five kinds. `RadioAssumption`: "none", which a poll returns without a packet, is not a packet. TLC evaluates them in every run of their modules.

**Only model-checked:** all liveness (`Converges`, `Settles`, `Connects`, `RadioReturns`, `QueueDrains`, that calls of the driver return and that monitors whose end is closed leave), which
needs ENABLED and is out of the prover's reach. `ImplementsRadio` and `ImplementsSubscribers` contain such liveness; the safety half of each is proved. Every invariant that a run checks is proved.

## Disagreements between code and documentation

Each is a run that TLC violates, with the trace in its counterexample; `PROJECT.json` quotes the lines.

- **`cad_deaf`.** CAD ends in standby (`sx126x.c:599`, `621-624`) and `mesh_service_tx` returns when the channel
  is busy (`mesh.c:1138`). A hotspot whose awake window ends next flushes its queue before it looks at the
  radio and stays deaf; it cannot hear the companion that would wake it. On other roles the packet that met the busy channel is still queued, and
  its transmission restores reception, unless that fails and its reset too (`RadioReturns` holds in `mesh_live`).
- **`next_hop`.** The dedup hash leaves the path out and is recorded before the next-hop test, so a routed packet overheard one hop early is dropped
  when it is our turn.
- **`path_wrap`.** With 1-byte hashes the 64-byte path admits a 64th hop, which six bits of count cannot say: the path becomes empty.
- **`room_lost`.** `set room` for a room the hub's set has succeeds but leaves it the hub's (`config.c:394`); it is not saved, and
  the next set without it removes it.

Met while modelling, without a run of their own:

- A woken hotspot "identifies first with a self-advert" (`src/src/mesh.c:208`), but a relay may draw an earlier due
  time than the advert, and priority decides only between packets that are due.
- `aprsis_init` logs that a host it cannot resolve is tried again (`src/src/aprsis.c:410`); `resolved` is set nowhere else, so the client
  stays off until a restart.
- "beacon immediately" (`src/src/aprsis.c:277`) sets the time of the last beacon to 0, which is an interval ago only if
  the machine has been up that long: after a boot the first beacon waits for the rest of the interval (`Aprsis!Handle`).

- *A failed reset.* A failed transmission resets the radio at once, because "a deaf repeater originates little", and could be "stuck for
  hours" (`src/src/mesh.c:1160`). If `sx126x_reinit` fails in its turn, that is only logged (`mesh.c:1168`): with nothing queued the
  repeater stays in standby until there is something to send: a frame of the link or the hub, a command, or the advert of the next interval. `Mesh!TransmitFails` has both outcomes; with "something queued" left out of
  its premise, `RadioReturns` is violated in `mesh_live`.
- *Session.* A RESET makes the client register again "at most once per 5 s" (`src/src/backbone.c:623`, `src/docs/backbone.md:233`). The time is counted from the previous RESET, not
  from the last HELLO, so a RESET soon after a HELLO is followed at once, and a RESET that was delayed may leave attempts a second
  apart; what keeps them apart is the hub's own limit.
- *Ways in.* "at most `backbone_rate` frames per minute" (`README.md:780`) leaves out the full bucket: in some minutes it is the rate and a third
  (`HubRate` is the bound). The bucket starts full at each start, and a frame that does not parse costs a token too. A datagram that `link_recv` refuses ends
  the loop's drain as an empty socket does (`main.c`), so the rest waits for the next iteration.
- *Radio.* After a `sx126x_reinit` that fails half way (`main.c`), a later transmission may be sent by a chip that is only partly set up, and a power whose write failed is
  not written again, because `g_cfg` already has it (`sx126x.c:463`): these are `SentAsAsked`'s exceptions. A packet whose bytes fail their checksum, if it arrives
  between a poll's reading of the flags and of the buffer, is delivered as good. One such flag still latched makes the poll drop a good packet before it. A
  transmission that fails at the writing of its bytes (`sx126x_transmit` returns -11) leaves the radio in standby until the reinit that follows.
- *Monitors.* `README.md:575` says that a client too slow to read is dropped; the code drops what it could not write, and keeps the client. The two seconds a client
  has for its line count per byte (`SO_RCVTIMEO`), so a slow one can hold the loop for longer.
- *Settings.* `location=false` does not survive a save and a start: the coordinates after it in the file switch it on again (`RoundTrip`). A
  value with `#` in it is cut there, and coordinates are rounded. `save` reports success on a full disk. An ear whose file is cut before the
  `link_mode` line comes up as a repeater (`main.c:218`); a file cut later has no `link_key`, and the start fails instead. `reload` keeps the value
  of a key that the file lacks. `blacklist add` saves everything set so far. An empty `key_file` makes a new identity at each start.
- *Mailbox.* A fetch shows the oldest letters that fit into one packet and removes none, so a station with many never sees its newest until older ones are overwritten.

Deliberate behaviour that no property is about: a full queue drops a packet whose hash is already recorded (`mesh.c:112`), and an advert that finds the queue full waits for the next interval (`main.c:331`).

## What is not modelled

Byte layouts, encryption and signatures (a valid one is a field of the message); airtime arithmetic;
statistics and logging. In the driver: the values of registers beyond which setting they hold, and boards whose antenna switch is the chip's DIO2.
In the console: the text of commands and events, lines cut by a slow reader, and the case of channel names. In the session: a HELLO that cannot be signed, the 120 s window around the
hub's clock and a node's clock stepped far back (HELLOs are refused until it has caught up), the freshness of a RESET, the token bucket (`Ingress`) and the room for a frame in the TX
queue (`Backbone!OnFrame` may admit or refuse; `Mesh!HubSends` has the real headroom test), and a page the node rejects. In `Mesh`, the hub's
session is up, APRS-IS (`Aprsis`) and monitors (`Console`) only read, and the configuration is constant. In `Aprsis`, the shape of
callsigns, the text of lines and positions, a host that does not resolve and a beacon interval of 0 (never). The text of letters and which of them a fetch shows are left out. Start-up is
in `Settings`, but for the rooms (`CentralPolicy!StartedFrom`) and the command line's options.
In `CentralPolicy`, the session has the observe role (without it no STATUS is sent), `backbone_policy` is true (opting out removes the hub's rooms and the file), no set has more entries
than a node's limits, explicit public channels only make the table smaller (`MaxChannels`), and power is not lost between a write and the disk. After a save that failed the same version is not saved again; `PolicyRegister`
allows it, since the kept set is still a whole one.

## Plan

1. *Done:* `SeenWindow`, `DedupRing`, `SeenRing`, `Packet`, `Policy`, `Mailbox`, `Mesh`, `MCMesh`, with `DedupRing_proofs`,
   `Mesh_proofs`; `ReplayWindow`, `FrameChannel`, `Session`, `Backbone`.
2. *Done:* `PolicyRegister`, `CentralPolicy`, `MCPolicy`, with `CentralPolicy_proofs`.
3. *Done:* `Aprsis`; `Radio`, `Sx126x`, `Ingress`, `Subscribers`, `Console`, `Settings`, `MCParts`, with `Aprsis_proofs`, `Sx126x_proofs`, `Parts_proofs`.
4. The mailbox's replies: which letters a fetch shows.
5. Proofs: *done* every invariant of the runs, the action properties, three refinements, and the safety half of two more (`Parts_proofs!MonitorsServed`,
   `Sx126x_proofs!RadioKeepsContract`). Liveness is out of reach.
