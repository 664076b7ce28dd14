\* two threads with any two operations, two events
SPECIFICATION FairSpec
CONSTANTS
    Threads = {t1, t2}
    NoThread = NoThread
    Ops = {"read", "query", "write", "sync", "unmount",
           "syncattr", "setxattr", "commit", "rao", "mam", "lockstate",
           "getxattr", "getsync", "logpage", "getdump", "quiet"}
    Events = {"reset", "move"}
    MaxOps = 2
    MaxEvents = 2
PROPERTIES
    RevalidationEnds
    OperationReturns
