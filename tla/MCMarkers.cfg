SPECIFICATION FairSpec
CONSTANTS
  Contents <- SmallFiles
  Bytes <- ThreeMarkers
  BlockSize = 2
  MinChunkSize = 1
  MaxThreads = 3
INVARIANTS NobodyOutlivesMain
PROPERTIES ImplementsSearch SearchEnds
