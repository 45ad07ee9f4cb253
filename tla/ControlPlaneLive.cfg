SPECIFICATION FairSpec
CONSTANTS
  DrainLimit = 64
  Nodes = {0, 1}
  Home = 0
  TimeoutPolls = 1
  MaxRetries = 1
  StartSeq = 0
  MaxWrites = 1
  MaxErrors = 0
  MaxRestarts = 1
PROPERTIES RequestsSettle
INVARIANTS TimeoutNotEarly
