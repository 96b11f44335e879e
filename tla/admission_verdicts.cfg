SPECIFICATION Spec
CONSTANTS
    Misread <- MCMisread
    Requests = {r1}
    Inputs <- VerdictInputs
    Stores <- VerdictStores
    Namespaces = {"prod"}
    Annotations = {"none"}
    MaxChanges = 0
INVARIANTS
    EnforceLetsThroughOnlyMutable
    BypassRemovalCarriesNothing
    DeniedPathsAreReal
    ServerFieldsNeverCount
    RollbackJudgedAlike
CHECK_DEADLOCK FALSE
