\* Commands just over the threshold with a multi-byte character around
\* byte 100, where truncate cuts the head.
CONSTANT Inputs <- MCCutInputs
SPECIFICATION Spec
INVARIANT TruncateNeverPanics
\* truncate is called once and returns: every behaviour stops.
CHECK_DEADLOCK FALSE
