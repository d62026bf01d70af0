CONSTANT
  MaxDelay = 1
SPECIFICATION Spec
INVARIANT
  OpensOnCode
CHECK_DEADLOCK FALSE
