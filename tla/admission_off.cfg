SPECIFICATION Spec
CONSTANTS
    Misread <- MCMisread
    Requests = {r1}
    Inputs <- DivergenceInputs
    Stores <- OffStores
    Namespaces = {"prod"}
    Annotations = {"none"}
    MaxChanges = 0
INVARIANTS
    OffNeverBlocks
CHECK_DEADLOCK FALSE
