SPECIFICATION Spec
CONSTANTS
  RegionSize = 2
  AddrLimit = 2
  Bytes <- MCBytes
  Nodes = {0, 1, 2}
  NoNode = 99
  BlockSize = 1
  Configs <- MCFixedWI
  MaxWrites = 2
INVARIANTS ReleaseVisible
