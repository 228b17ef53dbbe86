CONSTANTS
  NULL = NULL
  Pipelines <- Odd
SPECIFICATION Spec
CHECK_DEADLOCK FALSE
INVARIANT OperandsRight
