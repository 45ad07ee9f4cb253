SPECIFICATION Spec
CONSTANTS
  DrainLimit = 64
  Nodes = {0, 1, 2}
  Home = 0
  TimeoutPolls = 4
  MaxRetries = 2
  StartSeq = 0
  MaxWrites = 2
  MaxErrors = 0
  MaxRestarts = 0
PROPERTIES VersionProgress
