SPECIFICATION Spec
CONSTANTS
  Programs <- RemainderPrograms
  Launches = 2
  Policies = {FALSE}
  Launched <- ProgramLaunched
  Memory <- ProgramMemory
  Construct <- ProgramConstruct
  Fire <- ProgramFire
  Result <- ProgramResult
  CutoffSort = 2
  CutoffMerge = 3
  Modulus = 193
  Generator = 5
  LeafSize = 4
ACTION_CONSTRAINT Scheduled
INVARIANT ExactResult
CHECK_DEADLOCK FALSE
