SPECIFICATION Spec
CONSTANTS
  root = root
  kid = kid
  sub = sub
  twin = twin
  rootStart = rootStart
  kidSync = kidSync
  subStart = subStart
  kidStart = kidStart
  tp1 = tp1
  tp2 = tp2
  mc1 = mc1
  NoTP = NoTP
  NoCodelet = NoCodelet
  TPs <- MCTPs
  Codelets <- MCCodelets
  Threads <- MCThreads
  TPThreads <- MCTPThreads
  Parent <- MCParent
  Ancestors <- MCAncestors
  Owner <- MCOwner
  Dep <- MCDep
  Res <- MCRes
SYMMETRY Symmetry
INVARIANTS IInv NoUseAfterDelete RefExact NoLeak
PROPERTY ImplementsFrames
CHECK_DEADLOCK FALSE
