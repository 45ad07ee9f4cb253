SPECIFICATION Spec
CONSTANTS
  DrainLimit = 1
  Nodes = {0, 1}
  Home = 0
  TimeoutPolls = 0
  MaxRetries = 1
  StartSeq = 8
  MaxWrites = 2
  MaxErrors = 1
  MaxRestarts = 0
INVARIANTS TypeOK AckedWasHandled PostsWithinBudget HandledAtMostPosted TimeoutNotEarly
