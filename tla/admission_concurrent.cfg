SPECIFICATION Spec
SYMMETRY RequestSymmetry
CONSTANTS
    Misread <- MCMisread
    Requests = {r1, r2}
    Inputs <- ConcurrentInputs
    Stores <- ConcurrentStores
    Namespaces = {"prod"}
    Annotations = {"none", "warn", "invalid"}
    MaxChanges = 2
INVARIANTS
    TypeOK
    VerdictExplained
    AnswersCountedOnce
CHECK_DEADLOCK FALSE
