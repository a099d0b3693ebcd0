CONSTANTS Streams <- MCStreams
SPECIFICATION Spec
INVARIANT NoPanic
CHECK_DEADLOCK FALSE
