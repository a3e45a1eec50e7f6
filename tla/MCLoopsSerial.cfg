SPECIFICATION Spec
CONSTANTS
  Threads = {1, 2}
  TPThreads = {1, 2}
  Programs <- Serial
INVARIANTS NotPremature
CHECK_DEADLOCK FALSE
