SPECIFICATION Spec
CONSTANTS
  RegionSize = 4
  AddrLimit = 5
  Bytes <- MCBytes
  Remote = {n1}
  WriteRanges <- MCEdgeRanges
  SIThreshold = 2
  AdaptiveThreshold = 1
  EnableBatching = {TRUE}
  MaxWrites = 4
INVARIANTS AcceptedWritesReleased
