SPECIFICATION Spec
CONSTANTS
    Misread <- MCMisread
    Requests = {r1}
    Inputs <- DivergenceInputs
    Stores <- WarnStores
    Namespaces = {"prod"}
    Annotations = {"none"}
    MaxChanges = 0
INVARIANTS
    ViolationsAreDetected
CHECK_DEADLOCK FALSE
