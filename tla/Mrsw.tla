-------------------------------- MODULE Mrsw --------------------------------
(***************************************************************************)
(* The multiple-reader single-writer lock of src/libltfs/ltfs_locking_new.h*)
(* (the one configure.ac selects by default), used for vol->lock, the      *)
(* scheduler lock and the contents_lock and meta_lock of every dentry.     *)
(*                                                                         *)
(* It is built from a mutex that acts as a gate (exclusive_mutex), a       *)
(* pthread rwlock and two plain flags, writer and long_lock.  The flags    *)
(* are read and written without any lock of their own; release_mrsw finds  *)
(* out from the writer flag which kind of lock its caller holds.           *)
(*                                                                         *)
(* A step is one call of a pthread function or one group of flag           *)
(* assignments.  A thread never asks for a lock it already holds: that is  *)
(* how the callers in libltfs use it.                                      *)
(***************************************************************************)
EXTENDS Naturals, FiniteSets

CONSTANTS Threads,      \* the threads that use the lock
          NoThread      \* nobody

ASSUME NoThreadAssumption == NoThread \notin Threads

VARIABLES pc,           \* where each thread is
          long,         \* did the thread ask for the long variant?
          exclusive_mutex,  \* the owner of the gate
          rd,           \* threads that hold rw_lock for reading
          wr,           \* the thread that holds rw_lock for writing
          writer,       \* mrsw->writer
          long_lock     \* mrsw->long_lock

vars == <<pc, long, exclusive_mutex, rd, wr, writer, long_lock>>
locks == <<exclusive_mutex, rd, wr>>
flags == <<writer, long_lock>>

PC == {"idle", "reading", "writing",
       "w_mutex", "w_wrlock", "w_flags",                \* acquirewrite_mrsw
       "t_mutex", "t_wrlock", "t_undo", "t_flags",      \* try_acquirewrite_mrsw
       "rw_flags", "rw_rwlock", "rw_mutex",             \* releasewrite_mrsw
       "r_mutex", "r_flags", "r_rdlock",                \* acquireread_mrsw
       "s_check", "s_mutex", "s_again", "s_unlock",     \* acquireread_mrsw_short
       "rr_rwlock",                                     \* releaseread_mrsw
       "x_check",                                       \* release_mrsw
       "d_flags", "d_unlock", "d_rdlock", "d_mutex"}    \* writetoread_mrsw

Init == (* init_mrsw *)
    /\ pc = [t \in Threads |-> "idle"]
    /\ long = [t \in Threads |-> FALSE]
    /\ exclusive_mutex = NoThread /\ rd = {} /\ wr = NoThread
    /\ writer = FALSE /\ long_lock = FALSE

Goto(t, from, to) == pc[t] = from /\ pc' = [pc EXCEPT ![t] = to]

---------------------------------------------------------------------------
(* The pthread objects.                                                    *)

MutexLock(t)   == exclusive_mutex = NoThread /\ exclusive_mutex' = t
MutexUnlock(t) == exclusive_mutex' = NoThread

RdLock(t) == wr = NoThread /\ rd' = rd \cup {t} /\ UNCHANGED wr
WrLock(t) == wr = NoThread /\ rd = {} /\ wr' = t /\ UNCHANGED rd

(* pthread_rwlock_unlock gives up whatever the caller holds *)
RwUnlock(t) == rd' = rd \ {t} /\ wr' = IF wr = t THEN NoThread ELSE wr

---------------------------------------------------------------------------
(* acquirewrite_mrsw and acquirewrite_mrsw_long                            *)

acquirewrite_mrsw(t) ==
    \/ /\ Goto(t, "idle", "w_mutex")
       /\ \E l \in BOOLEAN : long' = [long EXCEPT ![t] = l]
       /\ UNCHANGED <<locks, flags>>
    \/ /\ Goto(t, "w_mutex", "w_wrlock")
       /\ MutexLock(t)
       /\ UNCHANGED <<long, rd, wr, flags>>
    \/ /\ Goto(t, "w_wrlock", "w_flags")
       /\ WrLock(t)
       /\ UNCHANGED <<long, exclusive_mutex, flags>>
    \/ /\ Goto(t, "w_flags", "writing")
       /\ writer' = TRUE /\ long_lock' = long[t]
       /\ UNCHANGED <<long, locks>>

(* Mutant: a failed trywrlock returns without giving the gate back *)
try_NoUndo(t) ==
    \/ /\ Goto(t, "idle", "t_mutex")
       /\ long' = [long EXCEPT ![t] = FALSE]
       /\ UNCHANGED <<locks, flags>>
    \/ /\ Goto(t, "t_mutex", "t_wrlock")
       /\ MutexLock(t)
       /\ UNCHANGED <<long, rd, wr, flags>>
    \/ /\ exclusive_mutex # NoThread
       /\ Goto(t, "t_mutex", "idle")
       /\ UNCHANGED <<long, locks, flags>>
    \/ /\ Goto(t, "t_wrlock", "t_flags")
       /\ WrLock(t)
       /\ UNCHANGED <<long, exclusive_mutex, flags>>
    \/ /\ wr # NoThread \/ rd # {}
       /\ Goto(t, "t_wrlock", "idle")
       /\ UNCHANGED <<long, locks, flags>>
    \/ /\ Goto(t, "t_flags", "writing")
       /\ writer' = TRUE
       /\ UNCHANGED <<long, locks, long_lock>>

(* Mutant: the result of trywrlock is ignored *)
try_Unchecked(t) ==
    \/ /\ Goto(t, "idle", "t_mutex")
       /\ long' = [long EXCEPT ![t] = FALSE]
       /\ UNCHANGED <<locks, flags>>
    \/ /\ Goto(t, "t_mutex", "t_wrlock")
       /\ MutexLock(t)
       /\ UNCHANGED <<long, rd, wr, flags>>
    \/ /\ exclusive_mutex # NoThread
       /\ Goto(t, "t_mutex", "idle")
       /\ UNCHANGED <<long, locks, flags>>
    \/ /\ Goto(t, "t_wrlock", "writing")
       /\ WrLock(t) \/ ((wr # NoThread \/ rd # {}) /\ UNCHANGED <<rd, wr>>)
       /\ writer' = TRUE
       /\ UNCHANGED <<long, exclusive_mutex, long_lock>>

(* Mutant: the gate is waited for *)
try_Blocking(t) ==
    \/ /\ Goto(t, "idle", "t_mutex")
       /\ long' = [long EXCEPT ![t] = FALSE]
       /\ UNCHANGED <<locks, flags>>
    \/ /\ Goto(t, "t_mutex", "t_wrlock")
       /\ MutexLock(t)
       /\ UNCHANGED <<long, rd, wr, flags>>
    \/ /\ Goto(t, "t_wrlock", "t_flags")
       /\ WrLock(t)
       /\ UNCHANGED <<long, exclusive_mutex, flags>>
    \/ /\ Goto(t, "t_flags", "writing")
       /\ writer' = TRUE
       /\ UNCHANGED <<long, locks, long_lock>>

(* try_acquirewrite_mrsw: never waits, leaves long_lock as it is *)
try_acquirewrite_mrsw(t) ==
    \/ /\ Goto(t, "idle", "t_mutex")
       /\ long' = [long EXCEPT ![t] = FALSE]
       /\ UNCHANGED <<locks, flags>>
    \/ /\ Goto(t, "t_mutex", "t_wrlock")
       /\ MutexLock(t)
       /\ UNCHANGED <<long, rd, wr, flags>>
    \/ /\ exclusive_mutex # NoThread
       /\ Goto(t, "t_mutex", "idle")
       /\ UNCHANGED <<long, locks, flags>>
    \/ /\ Goto(t, "t_wrlock", "t_flags")
       /\ WrLock(t)
       /\ UNCHANGED <<long, exclusive_mutex, flags>>
    \/ /\ wr # NoThread \/ rd # {}
       /\ Goto(t, "t_wrlock", "t_undo")
       /\ UNCHANGED <<long, locks, flags>>
    \/ /\ Goto(t, "t_undo", "idle")
       /\ MutexUnlock(t)
       /\ UNCHANGED <<long, rd, wr, flags>>
    \/ /\ Goto(t, "t_flags", "writing")
       /\ writer' = TRUE
       /\ UNCHANGED <<long, locks, long_lock>>

releasewrite_mrsw(t) ==
    \/ /\ Goto(t, "writing", "rw_flags")
       /\ UNCHANGED <<long, locks, flags>>
    \/ /\ Goto(t, "rw_flags", "rw_rwlock")
       /\ writer' = FALSE /\ long_lock' = FALSE
       /\ UNCHANGED <<long, locks>>
    \/ /\ Goto(t, "rw_rwlock", "rw_mutex")
       /\ RwUnlock(t)
       /\ UNCHANGED <<long, exclusive_mutex, flags>>
    \/ /\ Goto(t, "rw_mutex", "idle")
       /\ MutexUnlock(t)
       /\ UNCHANGED <<long, rd, wr, flags>>

(* Mutant: readers do not pass through the gate *)
acquireread_NoGate(t) ==
    /\ Goto(t, "idle", "r_rdlock")
    /\ UNCHANGED <<long, locks, flags>>

acquireread_mrsw(t) ==
    \/ /\ Goto(t, "idle", "r_mutex")
       /\ UNCHANGED <<long, locks, flags>>
    \/ /\ Goto(t, "r_mutex", "r_flags")
       /\ MutexLock(t)
       /\ UNCHANGED <<long, rd, wr, flags>>
    \/ /\ Goto(t, "r_flags", "s_unlock")
       /\ long_lock' = FALSE
       /\ UNCHANGED <<long, locks, writer>>

(* acquireread_mrsw_short: gives up while a long write is under way; the   *)
(* steps from the unlock of the gate on are those of acquireread_mrsw      *)
acquireread_mrsw_short(t) ==
    \/ /\ Goto(t, "idle", "s_check")
       /\ UNCHANGED <<long, locks, flags>>
    \/ /\ Goto(t, "s_check", IF long_lock THEN "idle" ELSE "s_mutex")
       /\ UNCHANGED <<long, locks, flags>>
    \/ /\ Goto(t, "s_mutex", "s_unlock")
       /\ MutexLock(t)
       /\ UNCHANGED <<long, rd, wr, flags>>
    \/ /\ exclusive_mutex # NoThread
       /\ Goto(t, "s_mutex", "s_again")
       /\ UNCHANGED <<long, locks, flags>>
    \/ /\ Goto(t, "s_again", IF long_lock THEN "idle" ELSE "s_mutex")
       /\ UNCHANGED <<long, locks, flags>>

readlock(t) ==
    \/ /\ Goto(t, "s_unlock", "r_rdlock")
       /\ MutexUnlock(t)
       /\ UNCHANGED <<long, rd, wr, flags>>
    \/ /\ Goto(t, "r_rdlock", "reading")
       /\ RdLock(t)
       /\ UNCHANGED <<long, exclusive_mutex, flags>>

releaseread_mrsw(t) ==
    \/ /\ Goto(t, "reading", "rr_rwlock")
       /\ UNCHANGED <<long, locks, flags>>
    \/ /\ Goto(t, "rr_rwlock", "idle")
       /\ RwUnlock(t)
       /\ UNCHANGED <<long, exclusive_mutex, flags>>

(* Mutant: the wrong flag decides which lock the caller holds *)
release_LongFlag(t) ==
    \/ /\ Goto(t, "writing", "x_check") \/ Goto(t, "reading", "x_check")
       /\ UNCHANGED <<long, locks, flags>>
    \/ /\ Goto(t, "x_check", IF long_lock THEN "rw_flags" ELSE "rr_rwlock")
       /\ UNCHANGED <<long, locks, flags>>

release_mrsw(t) ==
    \/ /\ Goto(t, "writing", "x_check") \/ Goto(t, "reading", "x_check")
       /\ UNCHANGED <<long, locks, flags>>
    \/ /\ Goto(t, "x_check", IF writer THEN "rw_flags" ELSE "rr_rwlock")
       /\ UNCHANGED <<long, locks, flags>>

(* Mutant: the gate is opened between giving up the write lock and taking  *)
(* the read lock                                                           *)
writetoread_EarlyGate(t) ==
    \/ /\ Goto(t, "writing", "d_flags")
       /\ UNCHANGED <<long, locks, flags>>
    \/ /\ Goto(t, "d_flags", "d_unlock")
       /\ writer' = FALSE /\ long_lock' = FALSE
       /\ UNCHANGED <<long, locks>>
    \/ /\ Goto(t, "d_unlock", "d_rdlock")
       /\ RwUnlock(t) /\ MutexUnlock(t)
       /\ UNCHANGED <<long, flags>>
    \/ /\ Goto(t, "d_rdlock", "reading")
       /\ RdLock(t)
       /\ UNCHANGED <<long, exclusive_mutex, flags>>

(* Mutant: the downgrade forgets the flags *)
writetoread_KeepFlags(t) ==
    \/ /\ Goto(t, "writing", "d_unlock")
       /\ UNCHANGED <<long, locks, flags>>
    \/ /\ Goto(t, "d_unlock", "d_rdlock")
       /\ RwUnlock(t)
       /\ UNCHANGED <<long, exclusive_mutex, flags>>
    \/ /\ Goto(t, "d_rdlock", "d_mutex")
       /\ RdLock(t)
       /\ UNCHANGED <<long, exclusive_mutex, flags>>
    \/ /\ Goto(t, "d_mutex", "reading")
       /\ MutexUnlock(t)
       /\ UNCHANGED <<long, rd, wr, flags>>

writetoread_mrsw(t) ==
    \/ /\ Goto(t, "writing", "d_flags")
       /\ UNCHANGED <<long, locks, flags>>
    \/ /\ Goto(t, "d_flags", "d_unlock")
       /\ writer' = FALSE /\ long_lock' = FALSE
       /\ UNCHANGED <<long, locks>>
    \/ /\ Goto(t, "d_unlock", "d_rdlock")
       /\ RwUnlock(t)
       /\ UNCHANGED <<long, exclusive_mutex, flags>>
    \/ /\ Goto(t, "d_rdlock", "d_mutex")
       /\ RdLock(t)
       /\ UNCHANGED <<long, exclusive_mutex, flags>>
    \/ /\ Goto(t, "d_mutex", "reading")
       /\ MutexUnlock(t)
       /\ UNCHANGED <<long, rd, wr, flags>>

Step(t) ==
    \/ acquirewrite_mrsw(t) \/ try_acquirewrite_mrsw(t)
    \/ acquireread_mrsw(t) \/ acquireread_mrsw_short(t) \/ readlock(t)
    \/ releasewrite_mrsw(t) \/ releaseread_mrsw(t) \/ release_mrsw(t)
    \/ writetoread_mrsw(t)

Next == \E t \in Threads : Step(t)

Spec == Init /\ [][Next]_vars

(***************************************************************************)
(* Fairness: a thread inside one of the functions keeps running whenever   *)
(* it can, and a caller that holds the lock releases it, because every     *)
(* critical section of libltfs ends in a release.  Nobody has to ask for   *)
(* the lock, and nothing is assumed about which of several waiting threads *)
(* a mutex is given to.                                                    *)
(***************************************************************************)
Progress(t) == pc[t] # "idle" /\ Step(t)

FairSpec == Spec /\ \A t \in Threads : WF_vars(Progress(t))

---------------------------------------------------------------------------
(* Properties                                                              *)

(* Every variable keeps its type. *)
TypeOK ==
    /\ pc \in [Threads -> PC]
    /\ long \in [Threads -> BOOLEAN]
    /\ exclusive_mutex \in Threads \cup {NoThread}
    /\ rd \subseteq Threads
    /\ wr \in Threads \cup {NoThread}
    /\ writer \in BOOLEAN /\ long_lock \in BOOLEAN

(* What thread t may rely on holding, from the moment a pthread call gave  *)
(* it the lock to the moment it gives it up.  In the middle of a downgrade *)
(* it holds neither half of rw_lock, and still counts as a reader.         *)
Holds(t) ==
    CASE pc[t] \in {"w_flags", "t_flags", "writing", "rw_flags", "rw_rwlock",
                    "d_flags", "d_unlock"} -> "write"
      [] pc[t] = "x_check" -> IF wr = t THEN "write" ELSE "read"
      [] pc[t] \in {"reading", "rr_rwlock", "d_rdlock", "d_mutex"} -> "read"
      [] OTHER -> "none"

holds == [t \in Threads |-> Holds(t)]

(* The lock does what its callers expect of it: seen through `holds', the  *)
(* gate, the rwlock and the flags implement RwLock.  In particular no      *)
(* thread can write between the two halves of writetoread_mrsw, which      *)
(* libltfs relies on when it writes data after checking the index state    *)
(* under the write lock (ltfs_fsraw_write_data).                           *)
Lock == INSTANCE RwLock WITH holds <- holds
ImplementsRwLock == Lock!Spec

(* Two threads are never inside a critical section if one of them writes.  *)
MutualExclusion ==
    \A t, u \in Threads :
        t # u /\ pc[t] = "writing" => pc[u] \notin {"writing", "reading", "x_check"}

(* release_mrsw: "If there is a writer, and we hold a lock, we must be the *)
(* writer."  The unlocked flag leads the caller to the release that        *)
(* belongs to the lock it holds.                                           *)
ReleaseKnowsItsLock ==
    \A t \in Threads :
        /\ pc[t] = "rw_flags" => wr = t /\ t \notin rd
        /\ pc[t] = "rr_rwlock" => t \in rd

(* The reason the header gives for its existence: on no path does a thread *)
(* unlock a mutex it did not lock, and a thread outside of the functions   *)
(* holds the gate exactly when it is a writer.                             *)
OwnerUnlocks ==
    \A t \in Threads :
        /\ pc[t] \in {"t_undo", "rw_mutex", "s_unlock", "d_mutex", "writing"}
             => exclusive_mutex = t
        /\ pc[t] \in {"idle", "reading", "r_rdlock", "s_mutex"}
             => exclusive_mutex # t

(* acquireread_mrsw_short gives up only for a reason: while long_lock is   *)
(* set there is a writer that asked for the long variant.                  *)
LongLockMeansLongWriter == long_lock => wr # NoThread /\ long[wr]

---------------------------------------------------------------------------
(* The inductive invariant the proofs use.                                 *)

AtGate  == {"w_wrlock", "w_flags", "t_wrlock", "t_undo", "t_flags", "writing",
            "rw_flags", "rw_rwlock", "rw_mutex", "r_flags", "s_unlock",
            "d_flags", "d_unlock", "d_rdlock", "d_mutex"}
AtWrite == {"w_flags", "t_flags", "writing", "rw_flags", "rw_rwlock",
            "d_flags", "d_unlock"}
AtRead  == {"reading", "rr_rwlock", "d_mutex"}
Flagged == {"writing", "rw_flags", "d_flags"}

GateInv ==      \* who owns exclusive_mutex
    \A t \in Threads :
        exclusive_mutex = t <=>
            pc[t] \in AtGate \/ (pc[t] = "x_check" /\ wr = t)

RwInv ==        \* who owns rw_lock
    /\ wr # NoThread => rd = {}
    /\ \A t \in Threads :
        /\ pc[t] \in AtWrite => wr = t
        /\ pc[t] \in AtRead => t \in rd
        /\ pc[t] = "x_check" => wr = t \/ t \in rd
        /\ wr = t => pc[t] \in AtWrite \cup {"x_check"}
        /\ t \in rd => pc[t] \in AtRead \cup {"x_check"}

FlagInv ==      \* what the unlocked flags say
    /\ writer => wr # NoThread
    /\ \A t \in Threads :
        wr = t => (writer <=> pc[t] \in Flagged \cup {"x_check"})
    /\ long_lock => writer /\ long[wr]

(* Who owns the gate and the rwlock, and what the flags say, is a function *)
(* of where the threads are.                                               *)
Inductive == TypeOK /\ GateInv /\ RwInv /\ FlagInv

---------------------------------------------------------------------------
(* A writer that has passed the gate gets the lock: the readers before it  *)
(* drain, and the gate keeps new ones out.                                 *)
WriterGetsIn == \A t \in Threads : pc[t] = "w_wrlock" ~> pc[t] = "writing"

(* A thread that tries never waits: it gets the lock or is told to come    *)
(* back.                                                                   *)
TryReturns == \A t \in Threads : pc[t] = "t_mutex" ~> pc[t] \in {"idle", "writing"}
=============================================================================
