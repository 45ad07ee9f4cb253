SPECIFICATION Spec
CONSTANTS
  RegionSize = 4
  AddrLimit = 5
  Bytes <- MCBytes
  Remote = {n1, n2}
  WriteRanges <- MCOverlapRanges
  SIThreshold = 2
  AdaptiveThreshold = 1
  EnableBatching = {TRUE, FALSE}
  MaxWrites = 3
SYMMETRY MCSymmetry
INVARIANTS TypeOK ProgramOrder FenceReleases NoFabricatedByte QueueBelowThreshold StatsBalance WriteThroughReleased
PROPERTIES ImplementsStoreBuffer
