SPECIFICATION FairSpec
CONSTANTS
    prog = prog  conf = conf  log = log  root = root  var = var
    Path = {prog, conf, log}
    Work <- MCWork
    Stays = {conf, log}
    Fs = {root, var}
    FsOf <- MCFsOf
    Root = root
    QueueMax = 2
    ChannelSize = 1
    MaxChanges = 3
INVARIANTS NoGaps CreationsKept
PROPERTIES RunEnds
CHECK_DEADLOCK FALSE
