SPECIFICATION Spec
CONSTANTS
  RegionSize = 2
  AddrLimit = 2
  Bytes <- MCBytes
  Nodes = {0, 1}
  NoNode = 99
  BlockSize = 1
  Configs <- MCFixedSI
  MaxWrites = 2
INVARIANTS ReleaseVisible
