SPECIFICATION Spec
CONSTANTS
  root = root
  sub = sub
  ca = ca
  cb = cb
  cc = cc
  cd = cd
  ce = ce
  Threshold = 1
  Codelets = {ca, cb, cc, cd, ce}
  Procs = {root, sub}
  None = None
  Root = root
  Deps <- MCDeps
  Body <- MCBody
  Hint <- MCHint
  Settings <- HintOnly
PROPERTIES HintReached
