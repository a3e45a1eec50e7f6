SPECIFICATION Spec
CONSTANTS
  tp0 = tp0
  tp1 = tp1
  mc0 = mc0
  mc1 = mc1
  TPThreads = {tp0, tp1}
  MCThreads = {mc0, mc1}
  Main = tp0
  Home <- MCHome
  MaxLives = 2
  MaxRuns = 3
INVARIANTS IInv PolicyReady SignalReady
PROPERTIES RunsToCompletion CallsReturn
CHECK_DEADLOCK FALSE
