CONSTANTS Routed <- MCAll
SPECIFICATION Spec
INVARIANT OneResponse
