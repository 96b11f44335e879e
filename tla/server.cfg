SPECIFICATION FairSpec
CONSTANTS
    ConfigMaps = {c1}
    Rules = {lax, strict}
    Plain = Plain
    Invalid = Invalid
    Gone = Gone
    Revisions <- MCRevisions
    Denying = {strict}
    Requests = {r1, r2}
    r1 = r1
    r2 = r2
    NamespaceOf <- MCNamespaceOf
    Buckets = 1
INVARIANTS
    TypeOK
    InitialRulesJudge
    ErrChNeverFull
    ExitStatusIsTrue
    ScrapeAddsUp
PROPERTIES
    RulesNeverGoBack
    SignalStops
CHECK_DEADLOCK FALSE
