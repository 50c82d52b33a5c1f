CONSTANTS
  Width = 2
  HelloTries = 2
  WelcomeWait = 1
  BackoffMin = 1
  BackoffMax = 2
  KeepaliveEvery = 1
  StatusEvery = 4
  NeighboursEvery = 5
  Grace = 1
  ResetPause = 1
  ResetWindow = 2
  SeqLimit = 9
  Observe = TRUE
  Bridge = TRUE
  MaxFaults = 2
  MaxTraffic = 1
  MaxCalm = 7
  LastFault = 2
SPECIFICATION FairSpec
INVARIANT TypeOK
INVARIANT KeysAgree
INVARIANT NumbersFresh
PROPERTY ResetJustified
PROPERTY ImplementsChannel
PROPERTY Settles
