CONSTANTS Routed <- MCAll
SPECIFICATION Spec
INVARIANT EventOnlyOnSuccess
