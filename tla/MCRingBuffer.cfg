SPECIFICATION Spec
CONSTANTS
  a = a
  b = b
  Values = {a, b}
  None = None
  Num = 4
  Wrap = 8
INVARIANTS RingInv NoOverrun
PROPERTIES ImplementsFifo Drained
