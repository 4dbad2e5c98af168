CONSTANTS
    Rewards = {1, 2}
    MaxSteps = 3
    Configs <- SafeConfigs
    NoReward <- MinusInfinity
    NoState = NoState
    Garbage = Garbage
SPECIFICATION FairSpec
INVARIANT TypeOK
INVARIANT FilesMatch
INVARIANT SolutionMatches
INVARIANT ReportsBestWin
INVARIANT CodeTellsWin
PROPERTY RunEnds
CHECK_DEADLOCK FALSE
