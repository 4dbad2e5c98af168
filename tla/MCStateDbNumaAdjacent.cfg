SPECIFICATION Spec
CONSTANTS
  t1 = t1
  t2 = t2
  Threads = {t1, t2}
  Slots = {5, 6, 7, 8}
  Null = Null
  Garbage = Garbage
  Rewards = {1, 2}
  MaxInputs = 2
  NumaCount = 2
  Start <- AdjacentStart
  MaxStates <- MCMaxStates
  Preferred <- MCPreferred
  ScavengingDepth = 2
INVARIANT SlotsAtHome
