SPECIFICATION Spec
CONSTANTS
  Programs <- MCPrograms
  Launches = 2
  Policies = {FALSE, TRUE}
  Launched <- ProgramLaunched
  Memory <- ProgramMemory
  Construct <- ProgramConstruct
  Fire <- ProgramFire
  Result <- ProgramResult
  CutoffSort = 2
  CutoffMerge = 3
  Modulus = 193
  Generator = 5
  LeafSize = 4
ACTION_CONSTRAINT Scheduled
INVARIANTS Inv RaceFree ExactResult Quiet
PROPERTY Finishes
CHECK_DEADLOCK FALSE
