SPECIFICATION FairSpec
CONSTANTS
    p1 = p1  p2 = p2
    app = app  tool = tool
    alice = alice  bob = bob
    fileA = fileA  fileB = fileB
    disk = disk
    Launch = {p1, p2}
    Fs = {disk}
    FsOf <- MCFsOf
    MaxFaults = 1
    Bucket = {app, tool}
    Runs <- MCRuns
    Ancestors <- MCAncestors
    Home = {alice, bob}
    HomeOf <- MCHomeOf
    FsAt <- MCFsAt
    File = {fileA, fileB}
    InHome <- MCInHome
    Nobody = Nobody
    Flush = Flush
    ChannelSize = 1
    PendingMax = 1
    MaxWrites = 1
INVARIANTS CaptureStateOK AttributionSound FirstMatchClaims NoStaleOwner NothingLost UntrackSeesFinished IdlePaysNothing
PROPERTIES CoverageHolds RequestsAnswered CaptureEnds
CHECK_DEADLOCK FALSE
