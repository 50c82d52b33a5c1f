------------------------------- MODULE Policy -------------------------------
(***************************************************************************)
(* The decisions of mesh.c that depend on the frame, the configuration and *)
(* what the node has learned, and change nothing: what may be relayed, at  *)
(* which power, and who counts as a companion of a hotspot.                *)
(***************************************************************************)
EXTENDS Packet

CONSTANTS
  Role,           \* "repeater" or "hotspot"
  Forward,        \* cfg.forward
  Home,           \* names the home list matches: the operator's own devices
  Affinity,       \* names the affinity list matches: the repeaters bridged to
  Belgian,        \* names beginning with ON0
  Blacklist,      \* names blocked by the file or by the hub's policy
  BlockedKey      \* keys blocked by the hub's policy

ASSUME PolicyAssumption ==
  /\ Role \in {"repeater", "hotspot"}
  /\ Forward \in BOOLEAN
  /\ Home \subseteq Name \ {""} /\ Affinity \subseteq Name \ {""}
  /\ Belgian \subseteq Name \ {""} /\ Blacklist \subseteq Name \ {""}
  /\ BlockedKey \subseteq Key

Source == {"rf", "hub", "own"}

Group == {"grp_txt", "grp_data"}

\* A policy that takes a channel's hash for its proof (the MAC is not checked).
ClassifyNoMac(f) ==
  CASE f.msg.type \in {"advert", "trace"} -> "public"
    [] f.msg.type \in Group /\ f.msg.chan # "unknown" -> "grp_public"
    [] f.msg.type \in Group /\ f.msg.chan = "unknown" /\ f.route = "tflood" /\ f.msg.region
         -> "region"
    [] OTHER -> "drop"

\* classify_forward: the strict allow-list. A group message passes when a
\* configured public channel's MAC proves it, or when it is a transport flood
\* tagged for a served #room; an advert's signature has been checked before.
Classify(f) ==
  CASE f.msg.type \in {"advert", "trace"} -> "public"
    [] f.msg.type \in Group /\ f.msg.chan \in Channel -> "grp_public"
    [] f.msg.type \in Group /\ f.msg.chan \notin Channel /\ f.route = "tflood" /\ f.msg.region
         -> "region"
    [] OTHER -> "drop"

\* An advert that is forged or from a blocked advertiser.
AdvertRefused(f) ==
  /\ f.msg.type = "advert"
  /\ ~f.msg.sig \/ f.msg.sender \in Blacklist \/ f.msg.key \in BlockedKey

\* The sender a public text shows; data has none that can be read.
GroupSender(f) ==
  IF f.msg.type = "grp_txt" /\ Classify(f) = "grp_public" THEN f.msg.sender ELSE ""

\* path_has_affinity: the packet came through a repeater we know.
PathHasAffinity(f, learned) == \E i \in 1..Len(f.path) : f.path[i] \in learned

\* From the mesh towards the household: adverts of an affinity repeater, what
\* comes through one, and what one says.
Downlink(f, learned) ==
  IF f.msg.type = "advert"
  THEN f.msg.sender \in Affinity
  ELSE PathHasAffinity(f, learned) \/ GroupSender(f) \in Affinity

\* From the household towards the repeater: what one of our devices says.
Uplink(f) ==
  IF f.msg.type = "advert" THEN f.msg.sender \in Home ELSE GroupSender(f) \in Home

\* hotspot_decide, its answer: is the frame within the personal bridge?
InScope(f, src, learned) ==
  IF src = "hub"
  THEN f.msg.type # "advert" \/ f.msg.sender \in Affinity
  ELSE Downlink(f, learned) \/ Uplink(f)

\* A hotspot that treats the hub's frames like frames heard on the air.
RelayPowerAnySource(f, src, learned) ==
  IF Role = "repeater" THEN "normal"
  ELSE IF Downlink(f, learned) THEN "low" ELSE "high"

\* hotspot_decide, the power it sets for a frame in scope: low towards the
\* household, high towards the repeater. A repeater has one power.
RelayPower(f, src, learned) ==
  IF Role = "repeater" THEN "normal"
  ELSE IF src = "hub" \/ Downlink(f, learned) THEN "low" ELSE "high"

\* own_tx_power.
OwnPower == IF Role = "hotspot" THEN "high" ELSE "normal"

\* is_companion_name: one of the operator's devices, and nothing that is, or that
\* the neighbour table knows as, a repeater.
IsCompanion(who, neighbors) ==
  /\ who \in Home \ (Belgian \cup Affinity \cup {SelfName})
  /\ \A i \in 1..Len(neighbors) : neighbors[i].name = who => neighbors[i].type = "chat"
=============================================================================
