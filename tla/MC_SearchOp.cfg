CONSTANTS MaxCallbacks = 3
SPECIFICATION Spec
INVARIANT TaskEndLast
