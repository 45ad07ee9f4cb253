SPECIFICATION Spec
CONSTANTS
  RegionSize = 3
  AddrLimit = 3
  Bytes <- MCBytes
  Nodes = {0, 1, 2}
  NoNode = 99
  BlockSize = 1
  Configs <- MCConfigs
  MaxWrites = 3
INVARIANTS TypeOK AtomicReads ReadsOwnCells StubAcksAtOnce
PROPERTIES SessionOrder
VIEW MCView
