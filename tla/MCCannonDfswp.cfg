SPECIFICATION Spec
CONSTANTS
  Sizes = {2, 3}
  Workers = 9
  None = None
CONSTRAINT Turns
INVARIANTS Inv Correct OneProducer
PROPERTIES Completes
CHECK_DEADLOCK FALSE
