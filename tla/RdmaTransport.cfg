SPECIFICATION Spec
CONSTANTS
  Nodes = {0, 1, 2}
  Clients = {0}
  MaxBatch = 2
  MaxPosts = 3
  MaxRestarts = 1
CHECK_DEADLOCK FALSE
INVARIANTS TypeOK CountCovers OkMeansDone
PROPERTIES CallReturns BringUpSettles
