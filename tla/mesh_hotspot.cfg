CONSTANTS
  NoHash = NoHash
  NoEntry = NoEntry
  MsgId <- MCMsgId
  Name <- MCName
  Key <- MCKey
  Channel <- MCChannel
  Node <- MCNode
  PathHash <- MCPathHash
  SelfName = "ME"
  SelfKey = "me"
  MaxPathSize = 4
  PathCountMod = 4
  Forward = TRUE
  Home <- Home1
  Affinity <- Affinity1
  Belgian <- ON0Names
  Blacklist <- Spammers
  BlockedKey = {}
  Call <- MCCall
  MboxMax = 2
  GateMax = 2
  MboxCooldown = 2
  NeighborMax = 2
  AffinityMax = 2
  PingPong = TRUE
  TimeOfDay = TRUE
  MboxEnable = TRUE
  ProbeAllow <- Home1
  ProbeCount = 2
  ProbeInterval = 1
  PingChannel = "#mesh"
  MboxChannel = "#mbox"
  BaseCall <- MCBaseCall
  HelpCooldown = 2
  MinuteTicks = 2
  Repeater = "on9z"
  Role = "hotspot"
  SeenSize = 4
  TxqSize = 3
  Headroom = 2
  Awake = 2
  UseCad = TRUE
  AdvertInterval = 2
  LinkTx = TRUE
  FloodDelay = {0, 1}
  ReplyDelay = {1}
  JitterDelay = {1}
  CadDelay = {1}
  RfFrame <- HotspotFrames
  HubFrame <- HubFrames
  ReinitFails = FALSE
  MaxClock = 4
  MaxRx = 3
  MaxBusy = 1
  MaxFail = 0
  MaxCli = 0
  LastInput = 3
SPECIFICATION Spec
INVARIANT OnAirAttended
INVARIANT UplinkScope
INVARIANT SilentQueueEmpty
INVARIANT HubInformed
