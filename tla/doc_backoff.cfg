SPECIFICATION Spec
CONSTANT StartDurations <- Slow
CHECK_DEADLOCK FALSE
PROPERTY BackoffGrows
