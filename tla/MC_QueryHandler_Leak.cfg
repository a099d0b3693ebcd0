CONSTANTS b1 = b1  b2 = b2  e1 = e1
CONSTANTS Batches <- MCBatches  Ends <- MCEnds  Flows <- MCFlows
SPECIFICATION Spec
PROPERTY ProducerExits
