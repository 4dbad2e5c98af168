SPECIFICATION FairSpec
CONSTANTS
  Cores <- MCCores
  AdvanceCore <- MCAdvanceCore
  Memory <- MCMemory
  PoweredOnCore = PoweredOnCore
  NoPicture = NoPicture
  Scripts <- MCConfigurations
  Datatypes <- MCDatatypes
  ActionTypes <- MCActionTypes
  LastInputReward <- MCLastInputReward
  Uninitialized <- MCUninitialized
  MaxSteps = 3
  NoState = NoState
INVARIANT TypeOK
INVARIANT StoredIsPath
INVARIANT InputsAllowed
INVARIANT RulesOfPath
INVARIANT SolutionReplays
INVARIANT ShowsStep
INVARIANT ShowsPath
PROPERTY PlaysToTheEnd
CHECK_DEADLOCK FALSE
