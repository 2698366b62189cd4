SPECIFICATION LinesSpec
CONSTANTS
  Commands <- LeftAndStop
  Full = 1
  SteerLimit = 1
  BufferSize = 5
  Room = 9
INVARIANTS HealsWithTheNextPair CutsOnlyShorten
