SPECIFICATION FairSpec
CONSTANTS
    ConfigMaps = {c1}
    Rules = {r1}
    Plain = Plain
    Invalid = Invalid
    Gone = Gone
    MaxRev = 2
    ResyncWindow = 1
    MaxRestarts = 0
PROPERTIES
    LiveReload
CHECK_DEADLOCK FALSE
