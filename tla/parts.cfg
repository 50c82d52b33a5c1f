CONSTANTS
  SeenSize = 2
  Hash = {h1, h2, h3}
  NoHash = NoHash
  Source = {air}
  MaxLog = 6
  Garbled = Garbled
  TsWindow = 1
  Skew = {0, 1}
  Minute = 3
  Rates = {1, 6}
  Top = 6
  MaxTime = 4
  MaxSent = 1
  MaxSock = 1
  MaxAdmitted = 4
  Packet = {p1, p2}
  Junk = junk
  Payload = {1}
  Power = {1, 2}
  MaxRx = 2
  MaxFault = 1
  MaxRetune = 1
  Client = {c1, c2, c3}
  Target <- MCTarget
  Event <- MCEvent
  MaxMonitors = 2
  Watched = {c1}
  Banned = {"n1"}
  MaxBlacklist = 2
  MaxSets = 2
  MaxSaves = 1
  MaxStarts = 2
SPECIFICATION PartsSpec
INVARIANT PartsTypeOK
INVARIANT HubRate
INVARIANT ReplayBounded
INVARIANT SettingsSurvive
INVARIANT RxNeverTransmits
INVARIANT IdentityKept
PROPERTY ImplementsWindow
PROPERTY ImplementsRadio
PROPERTY SwitchSafe
PROPERTY SentAsAsked
PROPERTY ImplementsSubscribers
CHECK_DEADLOCK FALSE
