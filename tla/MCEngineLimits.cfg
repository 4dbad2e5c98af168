SPECIFICATION FairSpec
CONSTANTS
  Threads = {t1, t2}
  States = {0, 1, 2, 3, 4, 5, 6, 7, 8, 9}
  Initial = 0
  NoState = NoState
  Inputs = {1, 2, 3}
  Keys = {0, 1}
  Game <- CandidateGame
  MaxStates = 3
  MaxStoreCount = 1
  MaxStoreEntries = 4
  HashStepTolerance = 1
  MaxSteps = 4
INVARIANTS TypeOK CheckpointPrunes NoDuplicates
PROPERTIES SearchEnds
CHECK_DEADLOCK FALSE
