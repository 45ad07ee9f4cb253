SPECIFICATION Spec
CONSTANTS
  Blocks = {b1, b2}
  WindowSize = 3
  Override = "none"
  WriteDominantRatio <- MCWriteDominantRatio
  PhaseChangeRatio <- MCPhaseChangeRatio
  SharerThreshold = 2
  InvalidationThreshold = 2
  Policy = 0
  MinReads = 2
  MaxBlockWrites = 1
  MaxSharers = 2
  MaxReuse = 2
  MinReadRatio <- MCMinReadRatio
  MaxPhaseChangeRatio <- MCMaxPhaseChangeRatio
  MaxAccesses = 5
INVARIANTS TypeOK WindowProfileExact ReuseDistanceExact
PROPERTY DecidedByAccesses
SYMMETRY MCSymmetry
