CONSTANT Configuration <- MCConfiguration
SPECIFICATION Spec
INVARIANTS TypeOK OrderlyEnd FailureReported StopIsOrderly
PROPERTIES EndsAsAWhole
CHECK_DEADLOCK FALSE
