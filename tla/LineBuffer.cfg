CONSTANTS
  NULL = NULL
  Pipelines <- Small
SPECIFICATION FairSpec
CHECK_DEADLOCK FALSE
INVARIANTS OperandsRight AsReference OutputRight
PROPERTY Finishes
