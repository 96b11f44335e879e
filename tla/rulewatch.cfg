SPECIFICATION FairSpec
CONSTANTS
    ConfigMaps = {c1, c2}
    Rules = {r1}
    Plain = Plain
    Invalid = Invalid
    Gone = Gone
    MaxRev = 3
    ResyncWindow = 1
    MaxRestarts = 1
INVARIANTS
    TypeOK
    RebuildsNeverOverlap
    ServingHasInitialRules
    StaleOnlyByStartupGap
    GaugeMatchesStore
    EventsAccountForCache
PROPERTIES
    StoreNeverRegresses
    ImplementsRuleCache
    EventuallyServing
    ReloadUnlessStartupGap
CHECK_DEADLOCK FALSE
