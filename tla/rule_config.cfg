SPECIFICATION Spec
CONSTANTS
    Words <- MCWords
    Entries <- MCEntries
    Margins = {0, 2}
    Indents = {0, 1, 3, 4}
    MaxEntries = 4
    MaxFlaws = 1
INVARIANTS
    ReadAsWritten
    NeverMisread
CHECK_DEADLOCK FALSE
