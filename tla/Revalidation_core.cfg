\* three operations in parallel and two events, the second one during or after the first revalidation
SPECIFICATION Spec
CONSTANTS
    Threads = {t1, t2, t3}
    NoThread = NoThread
    Ops = {"read", "query", "write", "sync", "setxattr", "syncattr"}
    Events = {"reset", "move"}
    MaxOps = 3
    MaxEvents = 2
INVARIANTS
    NoCommandOnOtherTape
    NoStrayRelease
    RevalidatesAlone
