------------------------------- MODULE Packet -------------------------------
(***************************************************************************)
(* What the repeater can tell of a frame: its content (the payload, a      *)
(* Message), the way it travels (route and path), and the hash it is       *)
(* deduplicated by. packet.c, packet.h.                                    *)
(*                                                                         *)
(* A payload is opaque: a Message carries the facts the forwarding code    *)
(* extracts from it (signature checks out, which public channel proves it, *)
(* who sent it, which command it is), all of them functions of the bytes.  *)
(***************************************************************************)
EXTENDS Naturals, Sequences

CONSTANTS
  MsgId,          \* the payloads other nodes originate
  Name,           \* names of nodes, "" where none is readable
  Key,            \* public keys of advertisers
  Channel,        \* the configured public channels
  Node,           \* path hashes
  PathHash,       \* the path hash of a key: its first bytes
  SelfName,       \* this node's name
  SelfKey,        \* this node's public key
  MaxPathSize,    \* MC_MAX_PATH_SIZE: bytes a path may take
  PathCountMod    \* a path counts its hashes modulo this (6 bits of path_len)

ASSUME PacketAssumption ==
  /\ PathHash \in [Key -> Node]
  /\ "" \in Name /\ SelfName \in Name \ {""}
  /\ SelfKey \in Key
  /\ Channel \cap {"macfail", "unknown"} = {}
  /\ MaxPathSize \in Nat /\ PathCountMod \in Nat \ {0}

\* mc_identity_copy_hash.
Self == PathHash[SelfKey]

\* The payloads this node originates: what it says, to whom, in which second.
OwnKind == {"advert", "pong", "help", "probe", "time", "date", "reply"}
OwnId == OwnKind \X Name \X Nat
Id == MsgId \cup OwnId

\* Payload types. "dm" stands for the five pairwise-encrypted types, "other" for
\* acks, control, multipart, raw and unknown ones.
PayloadType == {"advert", "trace", "grp_txt", "grp_data", "dm", "other"}

\* What a public text asks for: a command, or plain text.
Body == {"text", "ping", "probe", "probe stop", "time", "date", "help", "@mention", "fetch"}

Message ==
  [id     : Id,
   type   : PayloadType,
   sender : Name,                              \* advert name or text sender
   to     : Name,                              \* whom a mailbox message mentions
   key    : Key,                               \* advertiser (adverts)
   sig    : BOOLEAN,                           \* the signature verifies (adverts)
   adv    : {"chat", "repeater"},              \* chat, or repeater/room/sensor
   chan   : Channel \cup {"macfail", "unknown"}, \* the channel whose MAC verifies
   region : BOOLEAN,                           \* transport code of a served #room
   body   : Body]

\* Only a transport-flood frame carries the transport code of a region.
Frame ==
  [msg   : Message,
   route : {"flood", "tflood", "direct"},
   hs    : 1..3,                               \* bytes of each path hash
   path  : Seq(Node)]

IsFlood(f) == f.route \in {"flood", "tflood"}

\* pkt_calc_hash: the type and the payload, and for a TRACE its path_len byte.
\* Neither the route nor the path: a relayed copy has the hash of the original.
HashOf(f) ==
  <<f.msg.id, IF f.msg.type = "trace" THEN <<f.hs, Len(f.path)>> ELSE <<>>>>

Hash == Id \X Seq(Nat)

\* There is room in the path for one more hash.
FitsOneMore(f) == (Len(f.path) + 1) * f.hs <= MaxPathSize

\* pkt_set_path_hash_count: the count is stored in 6 bits, and what it does not
\* count is not part of the frame.
WithCount(p, n) == SubSeq(p, 1, n % PathCountMod)

\* A flood relayed: our hash at the back of the path.
Appended(f) ==
  [f EXCEPT !.path = WithCount(Append(f.path, Self), Len(f.path) + 1)]

\* A routed packet relayed: our hash stripped from the front.
Stripped(f) == [f EXCEPT !.path = WithCount(Tail(f.path), Len(f.path) - 1)]

Reversed(p) == [i \in 1..Len(p) |-> p[Len(p) - i + 1]]

\* A payload of our own (mc_advert_build, channel_build_txt).
OwnMessage(kind, who, chan, t) ==
  [id |-> <<kind, who, t>>,
   type |-> IF kind = "advert" THEN "advert" ELSE "grp_txt",
   sender |-> SelfName, to |-> "", key |-> SelfKey, sig |-> TRUE, adv |-> "repeater",
   chan |-> chan, region |-> FALSE, body |-> "text"]

OwnFrame(kind, who, chan, t, route, path, hs) ==
  [msg |-> OwnMessage(kind, who, chan, t), route |-> route, hs |-> hs, path |-> path]
=============================================================================
