\* Three threads: two contend, a third passes the gate meanwhile.
\* No symmetry: it is not sound for liveness.
SPECIFICATION FairSpec
CONSTANTS
    Threads = {t1, t2, t3}
    NoThread = NoThread
INVARIANTS
    MutualExclusion
    ReleaseKnowsItsLock
    OwnerUnlocks
    LongLockMeansLongWriter
PROPERTIES
    ImplementsRwLock
    WriterGetsIn
    TryReturns
