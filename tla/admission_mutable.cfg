SPECIFICATION Spec
CONSTANTS
    Misread <- MCMisread
    Requests = {r1}
    Inputs <- DivergenceInputs
    Stores <- MutableStores
    Namespaces = {"prod"}
    Annotations = {"none"}
    MaxChanges = 0
INVARIANTS
    MutableCoversWhatIsBelow
CHECK_DEADLOCK FALSE
