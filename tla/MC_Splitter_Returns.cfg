CONSTANTS Streams <- MCObjectStreams
SPECIFICATION Spec
PROPERTY EveryPullReturns
CHECK_DEADLOCK FALSE
