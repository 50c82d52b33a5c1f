CONSTANTS
  NoHash = NoHash
  NoEntry = NoEntry
  MsgId <- MCMsgId
  Name <- MCName
  Key <- MCKey
  Channel <- MCChannel
  Node <- MCNode
  PathHash <- MCPathHash
  SelfName = "ME"
  SelfKey = "me"
  MaxPathSize = 4
  PathCountMod = 4
  Forward = TRUE
  Home <- Home1
  Affinity <- Affinity1
  Belgian <- ON0Names
  Blacklist <- Spammers
  BlockedKey = {}
  Call <- MCCall
  MboxMax = 2
  GateMax = 2
  MboxCooldown = 2
  NeighborMax = 2
  AffinityMax = 2
  PingPong = TRUE
  TimeOfDay = TRUE
  MboxEnable = TRUE
  ProbeAllow <- Home1
  ProbeCount = 2
  ProbeInterval = 1
  PingChannel = "#mesh"
  MboxChannel = "#mbox"
  BaseCall <- MCBaseCall
  HelpCooldown = 2
  MinuteTicks = 2
  Repeater = "on9z"
  Role = "hotspot"
  SeenSize = 4
  TxqSize = 3
  Headroom = 2
  Awake = 2
  UseCad = TRUE
  AdvertInterval = 2
  LinkTx = FALSE
  FloodDelay = {0, 1}
  ReplyDelay = {1}
  JitterDelay = {0}
  CadDelay = {1}
  RfFrame <- HotspotFrames
  HubFrame = {}
  ReinitFails = FALSE
  MaxClock = 4
  MaxRx = 2
  MaxBusy = 1
  MaxFail = 0
  MaxCli = 0
  LastInput = 1
SPECIFICATION FairSpec
PROPERTY RadioReturns
