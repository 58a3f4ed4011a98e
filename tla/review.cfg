SPECIFICATION Spec
CONSTANTS
    Path <- MCPaths
    Lower <- MCLower
    Bare <- MCBare
    NoKey = NoKey
    NoFilter = NoFilter
    Budget = 3
INVARIANTS ReviewedOnly DefaultsSpareData SelectionDone
CHECK_DEADLOCK FALSE
