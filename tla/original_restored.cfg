SPECIFICATION Spec
CONSTANTS
    conf = conf  prog = prog  home = home  data = data
    a = a  b = b  l = l  dir = dir
    Path = {conf, prog, home}
    File = {a, b}
    Link = {l}
    Dir = {dir}
    Large = {}
    Absent = Absent  Torn = Torn  Nothing = Nothing  NoHash = NoHash  PlainMeta = PlainMeta
    Target <- MCTarget
    Category <- MCCategory
    Scanned = {conf}
    Package = {}
    GroupKey <- MCGroups
    Origins = {"run"}
    InitialDisks <- MCDisks
    Invocations <- ConservativeCall
    MaxEvents = 3
    MaxEdits = 0
    MaxCrashes = 0
    MaxFaults = 0
PROPERTIES OriginalRestored
CHECK_DEADLOCK FALSE
