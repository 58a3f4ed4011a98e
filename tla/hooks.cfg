CONSTANTS
    editor = editor
    library = library
    Package <- MCPackage
    Explicit <- MCExplicit
    Detected <- MCDetected
    Plugin = TRUE
    NoFile = NoFile
    NoPackage = NoPackage
    Transactions = 2
    Changes = 2
    Commands = 2
    Faults = 1
SPECIFICATION Spec
CHECK_DEADLOCK FALSE
INVARIANTS TypeOK InstallIsTracked NotAskedAgain RemovalIsReminded
PROPERTIES HooksEnd
