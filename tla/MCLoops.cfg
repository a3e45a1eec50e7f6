SPECIFICATION Spec
CONSTANTS
  Threads = {1, 2, 3}
  TPThreads = {1, 2}
  Programs <- MCPrograms
INVARIANTS Inv OuterExact DeletedLast
PROPERTIES ImplementsRounds Deleted
CHECK_DEADLOCK FALSE
