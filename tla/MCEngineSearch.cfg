SPECIFICATION SearchSpec
CONSTANTS
  Threads = {t1, t2, t3}
  States = {0, 1, 2, 3, 4, 5, 6, 7, 8, 9}
  Initial = 0
  NoState = NoState
  Inputs = {1, 2}
  Keys = {0}
  Game <- GraphGame
  MaxStates = 26
  MaxStoreCount = 2
  MaxStoreEntries = 20
  HashStepTolerance = 0
  MaxSteps = 4
INVARIANTS BestWinIsBest NoDuplicates FindsShortestWins
PROPERTIES ImplementsLevelSearch
CHECK_DEADLOCK FALSE
