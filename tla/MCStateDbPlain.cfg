SPECIFICATION FairSpec
CONSTANTS
  Threads = {t1, t2}
  Slots = {s1, s2, s3, s4}
  Null = Null
  Garbage = Garbage
  Rewards = {1, 2}
  MaxInputs = 2
INVARIANTS TypeOK SlotsConserved CurrentSorted BaseDecodable
PROPERTIES EvictsWorst StepEnds ImplementsStatePool
