SPECIFICATION Spec
CONSTANTS
    npm = npm  node = node  npmExe = npmExe  sharedExe = sharedExe
    App = {npm, node}
    Exe = {npmExe, sharedExe}
    Resolutions <- MCResolutions
    Client = {c1, c2}
    Unwatched = Unwatched
    NoClient = NoClient
    MaxTx = 2
    MaxKills = 1
    MaxFaults = 1
INVARIANTS RegistryOrder WatchedIsTracked TrackedIsWatched ReplyIsVisible ClosedOnce
SYMMETRY MCSymmetry
CHECK_DEADLOCK FALSE
