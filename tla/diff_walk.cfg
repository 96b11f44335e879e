SPECIFICATION Spec
CONSTANTS
    Misread <- SmallMisread
    Paths <- SmallPaths
    Nodes <- SmallNodes
    PatternSets <- SmallPatternSets
    Spelling <- SmallSpelling
    Texts <- SmallTexts
INVARIANTS
    WalksAgree
    DiffIsComplete
    StripsCompose
    ReportsReadBack
CHECK_DEADLOCK FALSE
