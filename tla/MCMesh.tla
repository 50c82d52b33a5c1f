------------------------------- MODULE MCMesh -------------------------------
(***************************************************************************)
(* Small instances of Mesh: a few nodes, the payloads they originate, and  *)
(* the frames that carry them. me is this node, on6a a companion of the    *)
(* operator, on0b the repeater the hotspot bridges to, on9z a stranger.    *)
(***************************************************************************)
EXTENDS Mesh

MCName == {"", "ME", "ON6A", "ON0B", "ON9Z", "SPAM"}
MCKey == {"me", "on6a", "on0b", "on9z"}
MCNode == MCKey
MCPathHash == [k \in MCKey |-> k]
MCChannel == {"#mesh", "#mbox"}
MCCall == {"", "ME", "ON6A", "ON0B", "ON9Z", "SPAM"}
MCBaseCall == [n \in MCName |-> n]
MCMsgId == {<<i>> : i \in
  {"advert A", "advert B", "forged", "text A", "text Z", "spam", "ping", "probe", "time",
   "date", "help", "help 2", "mention", "fetch", "fetch 2", "fetch Z", "routed", "data", "region", "dm", "trace"}}

\* A public text of sender on a channel, and what else can be made of it.
Text(id, sender, chan, body) ==
  [id |-> <<id>>, type |-> "grp_txt", sender |-> sender, to |-> "ON6A", key |-> "on9z", sig |-> FALSE,
   adv |-> "chat", chan |-> chan, region |-> FALSE, body |-> body]
AdvertOf(id, sender, key, adv, sig) ==
  [Text(id, sender, "unknown", "text") EXCEPT !.type = "advert", !.key = key, !.adv = adv,
                                              !.sig = sig]
Opaque(id, type, chan, region) ==
  [Text(id, "", chan, "text") EXCEPT !.type = type, !.region = region]

At(msg, route, path) == [msg |-> msg, route |-> route, hs |-> 1, path |-> path]

AdvertA == AdvertOf("advert A", "ON6A", "on6a", "chat", TRUE)
AdvertB == AdvertOf("advert B", "ON0B", "on0b", "repeater", TRUE)
TextA == Text("text A", "ON6A", "#mesh", "text")
TextZ == Text("text Z", "ON9Z", "#mesh", "text")
Routed == Text("routed", "ON0B", "#mbox", "text")
Ping == Text("ping", "ON6A", "#mesh", "ping")

\* What a repeater relays and answers, heard directly and through on0b.
RelayFrames ==
  {At(TextA, "flood", <<>>), At(TextA, "flood", <<"on0b">>), At(Ping, "flood", <<>>),
   At(Routed, "direct", <<"me", "on6a">>)}
HubFrames == {At(TextA, "flood", <<"on0b">>), At(TextZ, "flood", <<"on9z">>)}

\* One of each kind of content, and one of each command.
ContentFrames ==
  {At(AdvertA, "flood", <<>>),
   At(AdvertOf("forged", "ON6A", "on6a", "chat", FALSE), "flood", <<>>),
   At(Text("spam", "SPAM", "#mesh", "text"), "flood", <<>>),
   At(Text("probe", "ON6A", "#mesh", "probe"), "flood", <<>>),
   At(Text("time", "ON6A", "#mesh", "time"), "flood", <<>>),
   At(Text("date", "ON6A", "#mesh", "date"), "flood", <<>>),
   At(Text("help", "ON6A", "#mesh", "help"), "flood", <<>>),
   At(Text("help 2", "ON9Z", "#mesh", "help"), "flood", <<>>),
   At(Text("mention", "ON9Z", "#mbox", "@mention"), "flood", <<>>),
   At(Text("fetch", "ON6A", "#mbox", "fetch"), "flood", <<"on0b">>),
   At(Text("fetch 2", "ON6A", "#mbox", "fetch"), "flood", <<>>),
   At(Text("fetch Z", "ON9Z", "#mbox", "fetch"), "flood", <<>>),
   At(Opaque("data", "grp_data", "#mesh", FALSE), "flood", <<>>),
   At(Opaque("region", "grp_txt", "unknown", TRUE), "tflood", <<>>),
   At(Opaque("region", "grp_txt", "unknown", TRUE), "flood", <<>>),
   At(Opaque("data", "grp_data", "macfail", FALSE), "flood", <<>>),
   At(Opaque("dm", "dm", "unknown", FALSE), "direct", <<"me">>),
   At(Opaque("trace", "trace", "unknown", FALSE), "flood", <<>>)}

\* What a hotspot hears: its companion nearby and through the mesh, its repeater,
\* a stranger, and a repeater that bears a companion's name.
HotspotFrames ==
  {At(AdvertA, "flood", <<>>), At(TextA, "flood", <<>>), At(TextA, "flood", <<"on0b">>),
   At(AdvertB, "flood", <<>>), At(TextZ, "flood", <<>>), At(TextZ, "flood", <<"on0b">>)}

\* A routed packet overheard on its way to the hop before us, and then on its way
\* to us; a flood whose path has room for one hash more.
RoutedFrames ==
  {At(Routed, "direct", <<"on0b", "me">>), At(Routed, "direct", <<"me">>)}
LongFrames == {At(TextA, "flood", <<"on0b", "on9z", "on6a">>)}

Home1 == {"ON6A"}
Affinity1 == {"ON0B"}
ON0Names == {"ON0B"}
Spammers == {"SPAM"}
=============================================================================
