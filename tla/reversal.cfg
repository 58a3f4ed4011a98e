SPECIFICATION Spec
CONSTANTS
    svc = svc  svcs = svcs  x = x  y = y
    User = {svc}
    Group = {svcs}
    PrimaryOf <- MCPrimaryOf
    Line = {x, y}
    Absent = Absent
    Unit = {u1}
    Pid = {p1, p2}
    NoCall = NoCall
    Mode = {"Conservative", "Clean"}
    InitialAccounts <- MCAccounts
    Budget = 3
PROPERTIES StableKept AddedAreGone ServicesRestored
CHECK_DEADLOCK FALSE
