SPECIFICATION Spec
CONSTANTS
  RegionSize = 4
  AddrLimit = 5
  Bytes <- MCBytes
  Remote = {n1}
  WriteRanges <- MCCellRanges
  SIThreshold = 3
  AdaptiveThreshold = 1
  EnableBatching = {TRUE}
  MaxWrites = 5
INVARIANTS ProgramOrder
