SPECIFICATION Spec
CONSTANTS
  Threads = {t1, t2}
  States = {0, 1, 2, 3, 4, 5, 6, 7, 8, 9}
  Initial = 0
  NoState = NoState
  Inputs = {1, 2, 3}
  Keys = {0, 1}
  Game <- LargeWinGame
  MaxStates = 3
  MaxStoreCount = 1
  MaxStoreEntries = 4
  HashStepTolerance = 1
  MaxSteps = 5
PROPERTIES StoresBestWin
CHECK_DEADLOCK FALSE
