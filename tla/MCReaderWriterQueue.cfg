SPECIFICATION Spec
CONSTANTS
  Enqueues = 6
  Sizes = {1, 2, 4}
  MaxBlockSize = 2
  None = None
INVARIANTS InOrder Asserted PeekedStays Counted
PROPERTIES ImplementsFifo Delivered
CHECK_DEADLOCK FALSE
