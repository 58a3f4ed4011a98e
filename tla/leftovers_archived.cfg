SPECIFICATION Spec
CONSTANTS
    Path <- MCPath
    Lower <- MCLower
    Bare <- MCBare
    Part <- MCPart
    App <- MCApp
    Content = {v1, v2}
    Absent = Absent
    NoPath = NoPath
    Budget = 3
PROPERTY EverythingIsArchivedFirst
CHECK_DEADLOCK FALSE
