SPECIFICATION Spec
CONSTANTS
  Word = 64
  BlockSize = 4
  RegionSize = 18
  Sizes <- MCSizes
INVARIANTS TypeOK AllocationsDisjoint BlocksPrivate ValidationExact
PROPERTIES FittingIsGranted
VIEW MCView
