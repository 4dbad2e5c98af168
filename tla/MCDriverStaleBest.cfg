CONSTANTS
    Rewards = {1, 2}
    MaxSteps = 2
    Configs <- StaleConfigs
    NoReward <- MinusInfinity
    NoState = NoState
    Garbage = Garbage
SPECIFICATION Spec
INVARIANT SolutionMatches
CHECK_DEADLOCK FALSE
