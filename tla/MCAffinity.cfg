SPECIFICATION Spec
CONSTANT Requests <- SmallRequests
INVARIANTS Exclusive KeepsMode
CHECK_DEADLOCK FALSE
