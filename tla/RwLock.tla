------------------------------- MODULE RwLock -------------------------------
(***************************************************************************)
(* What a MultiReaderSingleWriter promises its callers, whichever way it   *)
(* is implemented (ltfs_locking_new.h, ltfs_locking_old.h): a thread holds *)
(* it for reading, for writing or not at all; a writer excludes everybody; *)
(* a downgrade turns a writer into a reader with no gap in between in      *)
(* which another thread could write.                                       *)
(***************************************************************************)
CONSTANT Threads

VARIABLE holds      \* what each thread holds the lock for

Modes == {"none", "read", "write"}

Init == holds = [t \in Threads |-> "none"]

AcquireRead(t) ==
    /\ holds[t] = "none"
    /\ \A u \in Threads : holds[u] # "write"
    /\ holds' = [holds EXCEPT ![t] = "read"]

AcquireWrite(t) ==
    /\ \A u \in Threads : holds[u] = "none"
    /\ holds' = [holds EXCEPT ![t] = "write"]

Downgrade(t) ==
    /\ holds[t] = "write"
    /\ holds' = [holds EXCEPT ![t] = "read"]

Release(t) ==
    /\ holds[t] # "none"
    /\ holds' = [holds EXCEPT ![t] = "none"]

Next == \E t \in Threads :
    AcquireRead(t) \/ AcquireWrite(t) \/ Downgrade(t) \/ Release(t)

Spec == Init /\ [][Next]_holds
=============================================================================
