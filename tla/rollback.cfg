SPECIFICATION Spec
CONSTANTS
    conf = conf  prog = prog  home = home  data = data
    a = a  b = b  l = l  dir = dir
    Path = {conf, prog, home, data}
    File = {a, b}
    Link = {l}
    Dir = {dir}
    Large = {b}
    Absent = Absent  Torn = Torn  Nothing = Nothing  NoHash = NoHash  PlainMeta = PlainMeta
    Target <- MCTarget
    Category <- MCCategory
    Scanned = {conf}
    Package = {prog}
    GroupKey <- MCGroups
    Origins = {"run", "tracking"}
    InitialDisks <- MCDisks
    Invocations <- MCCalls
    MaxEvents = 2
    MaxEdits = 1
    MaxCrashes = 1
    MaxFaults = 1
INVARIANTS TypeOK TakenIsRecoverable ArchivedReportIsBacked
PROPERTIES RecoverReturnsTaken ReportedOrGone RemovalsAreLicensed DryRunChangesNothing
CHECK_DEADLOCK FALSE
