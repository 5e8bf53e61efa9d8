SPECIFICATION Spec
CONSTANTS
  Places = {checkout, wheel}
  None = None
INVARIANT MixedRejected
CHECK_DEADLOCK FALSE
