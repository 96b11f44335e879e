SPECIFICATION Spec
CONSTANTS
    ConfigMaps = {c1}
    Rules = {lax, strict}
    Plain = Plain
    Invalid = Invalid
    Gone = Gone
    Revisions <- MCRevisions
    Denying = {strict}
    Requests = {r1, r2}
    r1 = r1
    r2 = r2
    NamespaceOf <- MCNamespaceOf
    Buckets = 2
INVARIANTS
    HistogramIsCumulative
CHECK_DEADLOCK FALSE
