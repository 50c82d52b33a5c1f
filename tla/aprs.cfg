\* Two places in the table and three stations, a buffer of two lines, a
\* connection that fails twice in any way.
SPECIFICATION FairSpec
CONSTANTS
  Call = {"c1", "c2", "c3"}
  Place = {"p1", "p2"}
  MaxNodes = 2
  NodeRate = 2
  BeaconEvery = 2
  TxSize = 4
  Timeout = 1
  FirstWait = 1
  LastWait = 3
  MaxFaults = 2
INVARIANT TypeOK
INVARIANT StreamWhole
PROPERTY GateSpaced
PROPERTY BacksOff
PROPERTY Connects
