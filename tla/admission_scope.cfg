SPECIFICATION Spec
CONSTANTS
    Misread <- MCMisread
    Requests = {r1}
    Inputs <- DivergenceInputs
    Stores <- ScopeStores
    Namespaces = {"prod"}
    Annotations = {"none"}
    MaxChanges = 0
INVARIANTS
    OnlyScopeIsCompared
CHECK_DEADLOCK FALSE
