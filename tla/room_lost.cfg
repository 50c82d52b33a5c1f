CONSTANTS
  Room <- MCRoom
  Block <- MCBlock
  Itself = "self"
  Sets <- MCSets
  FileRooms <- MCFileRooms
  Ping = "#mesh"
  MaxRooms = 3
  MaxChannels = 3
  MaxFaults = 2
  MaxCli = 2
  MaxSeq = 8
SPECIFICATION Spec
INVARIANT AskedRoomsServed
