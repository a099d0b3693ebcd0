CONSTANTS t1 = t1  t2 = t2  MaxWrites = 3
CONSTANTS Types <- MCTypes
SPECIFICATION Spec
INVARIANT FrameOutput
