\* a reset just before unmount
SPECIFICATION Spec
CONSTANTS
    Threads = {t1, t2}
    NoThread = NoThread
    Ops = {"unmount", "write"}
    Events = {"reset"}
    MaxOps = 2
    MaxEvents = 1
INVARIANTS
    NoCommandOnOtherTape
