----------------------------- MODULE MrswProofs -----------------------------
(***************************************************************************)
(* Proofs about the lock of ltfs_locking_new.h, for any set of threads.    *)
(*                                                                         *)
(* One lemma per function of the header shows that its steps preserve the  *)
(* inductive invariant of Mrsw; the safety properties follow from it.  A   *)
(* second lemma per function shows that its steps are steps of RwLock.     *)
(***************************************************************************)
EXTENDS Mrsw, TLAPS

(* The initialised lock satisfies the invariant. *)
LEMMA InitInductive == Init => Inductive
BY NoThreadAssumption
   DEF Init, Inductive, TypeOK, GateInv, RwInv, FlagInv, PC,
       AtGate, AtWrite, AtRead, Flagged

---------------------------------------------------------------------------
(* Every function preserves the invariant.                                 *)

(* acquirewrite_mrsw takes the gate, then rw_lock, then sets the flags. *)
LEMMA AcquireWriteStep ==
    ASSUME NEW t \in Threads, Inductive, acquirewrite_mrsw(t)
    PROVE  Inductive'
<1> USE NoThreadAssumption DEF Inductive, TypeOK, GateInv, RwInv, FlagInv, PC,
    AtGate, AtWrite, AtRead, Flagged, Goto, locks, flags, MutexLock, WrLock
<1>1. CASE Goto(t, "idle", "w_mutex")
  BY <1>1 DEF acquirewrite_mrsw
<1>2. CASE Goto(t, "w_mutex", "w_wrlock")
  BY <1>2 DEF acquirewrite_mrsw
<1>3. CASE Goto(t, "w_wrlock", "w_flags")
  BY <1>3 DEF acquirewrite_mrsw
<1>4. CASE Goto(t, "w_flags", "writing")
  BY <1>4 DEF acquirewrite_mrsw
<1>5. QED
  BY <1>1, <1>2, <1>3, <1>4 DEF acquirewrite_mrsw

(* try_acquirewrite_mrsw gives the gate back when rw_lock is taken. *)
LEMMA TryAcquireWriteStep ==
    ASSUME NEW t \in Threads, Inductive, try_acquirewrite_mrsw(t)
    PROVE  Inductive'
<1> USE NoThreadAssumption DEF Inductive, TypeOK, GateInv, RwInv, FlagInv, PC,
    AtGate, AtWrite, AtRead, Flagged, Goto, locks, flags, MutexLock, WrLock, MutexUnlock
<1>1. CASE Goto(t, "idle", "t_mutex")
  <2>1. /\ long' = [long EXCEPT ![t] = FALSE]
        /\ UNCHANGED <<exclusive_mutex, rd, wr, writer, long_lock>>
    BY <1>1 DEF try_acquirewrite_mrsw
  <2>2. TypeOK' /\ GateInv' /\ RwInv'
    BY <1>1, <2>1
  <2>3. wr # t
    BY <1>1
  <2>4. FlagInv'
    BY <1>1, <2>1, <2>3
  <2>5. QED
    BY <2>2, <2>4
<1>2. CASE Goto(t, "t_mutex", "t_wrlock")
  BY <1>2 DEF try_acquirewrite_mrsw
<1>3. CASE Goto(t, "t_mutex", "idle")
  BY <1>3 DEF try_acquirewrite_mrsw
<1>4. CASE Goto(t, "t_wrlock", "t_flags")
  BY <1>4 DEF try_acquirewrite_mrsw
<1>5. CASE Goto(t, "t_wrlock", "t_undo")
  BY <1>5 DEF try_acquirewrite_mrsw
<1>6. CASE Goto(t, "t_undo", "idle")
  BY <1>6 DEF try_acquirewrite_mrsw
<1>7. CASE Goto(t, "t_flags", "writing")
  BY <1>7 DEF try_acquirewrite_mrsw
<1>8. QED
  BY <1>1, <1>2, <1>3, <1>4, <1>5, <1>6, <1>7 DEF try_acquirewrite_mrsw

(* releasewrite_mrsw clears the flags while nobody else can be inside. *)
LEMMA ReleaseWriteStep ==
    ASSUME NEW t \in Threads, Inductive, releasewrite_mrsw(t)
    PROVE  Inductive'
<1> USE NoThreadAssumption DEF Inductive, TypeOK, GateInv, RwInv, FlagInv, PC,
    AtGate, AtWrite, AtRead, Flagged, Goto, locks, flags, RwUnlock, MutexUnlock
<1>1. CASE Goto(t, "writing", "rw_flags")
  BY <1>1 DEF releasewrite_mrsw
<1>2. CASE Goto(t, "rw_flags", "rw_rwlock")
  BY <1>2 DEF releasewrite_mrsw
<1>3. CASE Goto(t, "rw_rwlock", "rw_mutex")
  BY <1>3 DEF releasewrite_mrsw
<1>4. CASE Goto(t, "rw_mutex", "idle")
  BY <1>4 DEF releasewrite_mrsw
<1>5. QED
  BY <1>1, <1>2, <1>3, <1>4 DEF releasewrite_mrsw

(* acquireread_mrsw holds the gate while it clears long_lock. *)
LEMMA AcquireReadStep ==
    ASSUME NEW t \in Threads, Inductive, acquireread_mrsw(t)
    PROVE  Inductive'
<1> USE NoThreadAssumption DEF Inductive, TypeOK, GateInv, RwInv, FlagInv, PC,
    AtGate, AtWrite, AtRead, Flagged, Goto, locks, flags, MutexLock
<1>1. CASE Goto(t, "idle", "r_mutex")
  BY <1>1 DEF acquireread_mrsw
<1>2. CASE Goto(t, "r_mutex", "r_flags")
  BY <1>2 DEF acquireread_mrsw
<1>3. CASE Goto(t, "r_flags", "s_unlock")
  <2>1. long_lock' = FALSE /\ UNCHANGED <<long, exclusive_mutex, rd, wr, writer>>
    BY <1>3 DEF acquireread_mrsw
  <2>2. TypeOK'
    BY <1>3, <2>1
  <2>3. GateInv'
    BY <1>3, <2>1
  <2>4. RwInv'
    BY <1>3, <2>1
  <2>5. FlagInv'
    BY <1>3, <2>1
  <2>6. QED
    BY <2>2, <2>3, <2>4, <2>5
<1>4. QED
  BY <1>1, <1>2, <1>3 DEF acquireread_mrsw

(* acquireread_mrsw_short reads long_lock without holding anything. *)
LEMMA AcquireReadShortStep ==
    ASSUME NEW t \in Threads, Inductive, acquireread_mrsw_short(t)
    PROVE  Inductive'
<1> USE NoThreadAssumption DEF Inductive, TypeOK, GateInv, RwInv, FlagInv, PC,
    AtGate, AtWrite, AtRead, Flagged, Goto, locks, flags, MutexLock
<1>1. CASE Goto(t, "idle", "s_check")
  BY <1>1 DEF acquireread_mrsw_short
<1>2. CASE Goto(t, "s_check", IF long_lock THEN "idle" ELSE "s_mutex")
  BY <1>2 DEF acquireread_mrsw_short
<1>3. CASE Goto(t, "s_mutex", "s_unlock")
  BY <1>3 DEF acquireread_mrsw_short
<1>4. CASE Goto(t, "s_mutex", "s_again")
  BY <1>4 DEF acquireread_mrsw_short
<1>5. CASE Goto(t, "s_again", IF long_lock THEN "idle" ELSE "s_mutex")
  BY <1>5 DEF acquireread_mrsw_short
<1>6. QED
  BY <1>1, <1>2, <1>3, <1>4, <1>5 DEF acquireread_mrsw_short

(* A reader gives up the gate and waits for rw_lock. *)
LEMMA ReadLockStep ==
    ASSUME NEW t \in Threads, Inductive, readlock(t)
    PROVE  Inductive'
<1> USE NoThreadAssumption DEF Inductive, TypeOK, GateInv, RwInv, FlagInv, PC,
    AtGate, AtWrite, AtRead, Flagged, Goto, locks, flags, MutexUnlock, RdLock
<1>1. CASE Goto(t, "s_unlock", "r_rdlock")
  BY <1>1 DEF readlock
<1>2. CASE Goto(t, "r_rdlock", "reading")
  BY <1>2 DEF readlock
<1>3. QED
  BY <1>1, <1>2 DEF readlock

(* releaseread_mrsw touches rw_lock only. *)
LEMMA ReleaseReadStep ==
    ASSUME NEW t \in Threads, Inductive, releaseread_mrsw(t)
    PROVE  Inductive'
<1> USE NoThreadAssumption DEF Inductive, TypeOK, GateInv, RwInv, FlagInv, PC,
    AtGate, AtWrite, AtRead, Flagged, Goto, locks, flags, RwUnlock
<1>1. CASE Goto(t, "reading", "rr_rwlock")
  BY <1>1 DEF releaseread_mrsw
<1>2. CASE Goto(t, "rr_rwlock", "idle")
  BY <1>2 DEF releaseread_mrsw
<1>3. QED
  BY <1>1, <1>2 DEF releaseread_mrsw

(* release_mrsw finds out from the writer flag what its caller holds. *)
LEMMA ReleaseStep ==
    ASSUME NEW t \in Threads, Inductive, release_mrsw(t)
    PROVE  Inductive'
<1> USE NoThreadAssumption DEF Inductive, TypeOK, GateInv, RwInv, FlagInv, PC,
    AtGate, AtWrite, AtRead, Flagged, Goto, locks, flags
<1>1. CASE Goto(t, "writing", "x_check")
  BY <1>1 DEF release_mrsw
<1>2. CASE Goto(t, "reading", "x_check")
  BY <1>2 DEF release_mrsw
<1>3. CASE Goto(t, "x_check", IF writer THEN "rw_flags" ELSE "rr_rwlock")
  BY <1>3 DEF release_mrsw
<1>4. QED
  BY <1>1, <1>2, <1>3 DEF release_mrsw

(* writetoread_mrsw keeps the gate while it exchanges its locks. *)
LEMMA WriteToReadStep ==
    ASSUME NEW t \in Threads, Inductive, writetoread_mrsw(t)
    PROVE  Inductive'
<1> USE NoThreadAssumption DEF Inductive, TypeOK, GateInv, RwInv, FlagInv, PC,
    AtGate, AtWrite, AtRead, Flagged, Goto, locks, flags, RwUnlock, RdLock, MutexUnlock
<1>1. CASE Goto(t, "writing", "d_flags")
  BY <1>1 DEF writetoread_mrsw
<1>2. CASE Goto(t, "d_flags", "d_unlock")
  BY <1>2 DEF writetoread_mrsw
<1>3. CASE Goto(t, "d_unlock", "d_rdlock")
  BY <1>3 DEF writetoread_mrsw
<1>4. CASE Goto(t, "d_rdlock", "d_mutex")
  BY <1>4 DEF writetoread_mrsw
<1>5. CASE Goto(t, "d_mutex", "reading")
  BY <1>5 DEF writetoread_mrsw
<1>6. QED
  BY <1>1, <1>2, <1>3, <1>4, <1>5 DEF writetoread_mrsw

(* One step of any thread, or a stutter, preserves the invariant. *)
LEMMA NextInductive == Inductive /\ [Next]_vars => Inductive'
<1> SUFFICES ASSUME Inductive, [Next]_vars PROVE Inductive'
  OBVIOUS
<1>1. CASE UNCHANGED vars
  BY <1>1 DEF Inductive, TypeOK, GateInv, RwInv, FlagInv, vars
<1>2. ASSUME NEW t \in Threads, Step(t) PROVE Inductive'
  BY <1>2, AcquireWriteStep, TryAcquireWriteStep, ReleaseWriteStep,
     AcquireReadStep, AcquireReadShortStep, ReadLockStep, ReleaseReadStep,
     ReleaseStep, WriteToReadStep DEF Step
<1>3. QED
  BY <1>1, <1>2 DEF Next

(* Who owns the gate and the rwlock and what the flags say is determined   *)
(* by where the threads are, for every number of threads.                  *)
THEOREM InductiveHolds == Spec => []Inductive
BY InitInductive, NextInductive, PTL DEF Spec

(* The type invariant of the lock. *)
THEOREM TypeCorrect == Spec => []TypeOK
<1>1. Inductive => TypeOK
  BY DEF Inductive
<1>2. QED
  BY <1>1, InductiveHolds, PTL

(* A writer is alone: no other thread is inside a critical section. *)
THEOREM Exclusion == Spec => []MutualExclusion
<1>1. Inductive => MutualExclusion
  <2> SUFFICES ASSUME Inductive, NEW t \in Threads, NEW u \in Threads,
                      t # u, pc[t] = "writing"
               PROVE  pc[u] \notin {"writing", "reading", "x_check"}
    BY DEF MutualExclusion
  <2>1. wr = t /\ wr # NoThread /\ rd = {}
    BY NoThreadAssumption DEF Inductive, RwInv, AtWrite
  <2>2. QED
    BY <2>1 DEF Inductive, RwInv, AtWrite, AtRead
<1>2. QED
  BY <1>1, InductiveHolds, PTL

(* release_mrsw calls the release that belongs to the lock its caller      *)
(* holds, although it reads the writer flag without a lock.                *)
THEOREM ReleaseCorrect == Spec => []ReleaseKnowsItsLock
<1>1. Inductive => ReleaseKnowsItsLock
  BY NoThreadAssumption
     DEF Inductive, RwInv, AtWrite, AtRead, ReleaseKnowsItsLock
<1>2. QED
  BY <1>1, InductiveHolds, PTL

(* No thread unlocks a mutex that it did not lock. *)
THEOREM OwnersUnlock == Spec => []OwnerUnlocks
<1>1. Inductive => OwnerUnlocks
  BY DEF Inductive, GateInv, AtGate, OwnerUnlocks
<1>2. QED
  BY <1>1, InductiveHolds, PTL

(* A short reader is refused only while a long writer holds the lock. *)
THEOREM LongLockTruthful == Spec => []LongLockMeansLongWriter
<1>1. Inductive => LongLockMeansLongWriter
  BY DEF Inductive, FlagInv, LongLockMeansLongWriter
<1>2. QED
  BY <1>1, InductiveHolds, PTL

---------------------------------------------------------------------------
(* Every function implements RwLock.                                       *)

(* What one thread does changes only its own entry of holds. *)
LEMMA OneThreadChanges ==
    ASSUME NEW t \in Threads, NEW m, Holds(t)' = m,
           \A u \in Threads : u # t => Holds(u)' = Holds(u)
    PROVE  holds' = [holds EXCEPT ![t] = m]
BY DEF holds

(* acquirewrite_mrsw takes the gate, then rw_lock, then sets the flags. *)
LEMMA AcquireWriteStepRef ==
    ASSUME NEW t \in Threads, Inductive, acquirewrite_mrsw(t)
    PROVE  [Lock!Next]_holds
<1> USE NoThreadAssumption DEF Inductive, TypeOK, GateInv, RwInv, FlagInv, PC,
    AtGate, AtWrite, AtRead, Flagged, Goto, locks, flags, Holds, MutexLock, WrLock
<1>1. CASE Goto(t, "idle", "w_mutex")
  BY <1>1 DEF acquirewrite_mrsw, holds
<1>2. CASE Goto(t, "w_mutex", "w_wrlock")
  BY <1>2 DEF acquirewrite_mrsw, holds
<1>3. CASE Goto(t, "w_wrlock", "w_flags")
  <2>1. WrLock(t)
    BY <1>3 DEF acquirewrite_mrsw
  <2>2. ASSUME NEW u \in Threads, u # t PROVE Holds(u)' = Holds(u)
    BY <1>3, <2>1, <2>2
  <2>3. Holds(t) = "none" /\ Holds(t)' = "write"
    BY <1>3, <2>1
  <2>4. holds' = [holds EXCEPT ![t] = "write"]
    BY <2>2, <2>3, OneThreadChanges
  <2>5. ASSUME NEW u \in Threads PROVE Holds(u) = "none"
    BY <1>3, <2>1, <2>5
  <2>6. QED
    BY <2>3, <2>4, <2>5 DEF Lock!AcquireWrite, holds, Lock!Next
<1>4. CASE Goto(t, "w_flags", "writing")
  BY <1>4 DEF acquirewrite_mrsw, holds
<1>5. QED
  BY <1>1, <1>2, <1>3, <1>4 DEF acquirewrite_mrsw

(* try_acquirewrite_mrsw gives the gate back when rw_lock is taken. *)
LEMMA TryAcquireWriteStepRef ==
    ASSUME NEW t \in Threads, Inductive, try_acquirewrite_mrsw(t)
    PROVE  [Lock!Next]_holds
<1> USE NoThreadAssumption DEF Inductive, TypeOK, GateInv, RwInv, FlagInv, PC,
    AtGate, AtWrite, AtRead, Flagged, Goto, locks, flags, Holds, MutexLock, WrLock, MutexUnlock
<1>1. CASE Goto(t, "idle", "t_mutex")
  BY <1>1 DEF try_acquirewrite_mrsw, holds
<1>2. CASE Goto(t, "t_mutex", "t_wrlock")
  BY <1>2 DEF try_acquirewrite_mrsw, holds
<1>3. CASE Goto(t, "t_mutex", "idle")
  BY <1>3 DEF try_acquirewrite_mrsw, holds
<1>4. CASE Goto(t, "t_wrlock", "t_flags")
  <2>1. WrLock(t)
    BY <1>4 DEF try_acquirewrite_mrsw
  <2>2. ASSUME NEW u \in Threads, u # t PROVE Holds(u)' = Holds(u)
    BY <1>4, <2>1, <2>2
  <2>3. Holds(t) = "none" /\ Holds(t)' = "write"
    BY <1>4, <2>1
  <2>4. holds' = [holds EXCEPT ![t] = "write"]
    BY <2>2, <2>3, OneThreadChanges
  <2>5. ASSUME NEW u \in Threads PROVE Holds(u) = "none"
    BY <1>4, <2>1, <2>5
  <2>6. QED
    BY <2>3, <2>4, <2>5 DEF Lock!AcquireWrite, holds, Lock!Next
<1>5. CASE Goto(t, "t_wrlock", "t_undo")
  BY <1>5 DEF try_acquirewrite_mrsw, holds
<1>6. CASE Goto(t, "t_undo", "idle")
  BY <1>6 DEF try_acquirewrite_mrsw, holds
<1>7. CASE Goto(t, "t_flags", "writing")
  BY <1>7 DEF try_acquirewrite_mrsw, holds
<1>8. QED
  BY <1>1, <1>2, <1>3, <1>4, <1>5, <1>6, <1>7 DEF try_acquirewrite_mrsw

(* releasewrite_mrsw clears the flags while nobody else can be inside. *)
LEMMA ReleaseWriteStepRef ==
    ASSUME NEW t \in Threads, Inductive, releasewrite_mrsw(t)
    PROVE  [Lock!Next]_holds
<1> USE NoThreadAssumption DEF Inductive, TypeOK, GateInv, RwInv, FlagInv, PC,
    AtGate, AtWrite, AtRead, Flagged, Goto, locks, flags, Holds, RwUnlock, MutexUnlock
<1>1. CASE Goto(t, "writing", "rw_flags")
  BY <1>1 DEF releasewrite_mrsw, holds
<1>2. CASE Goto(t, "rw_flags", "rw_rwlock")
  BY <1>2 DEF releasewrite_mrsw, holds
<1>3. CASE Goto(t, "rw_rwlock", "rw_mutex")
  <2>1. RwUnlock(t)
    BY <1>3 DEF releasewrite_mrsw
  <2>2. ASSUME NEW u \in Threads, u # t PROVE Holds(u)' = Holds(u)
    BY <1>3, <2>1, <2>2
  <2>3. Holds(t) = "write" /\ Holds(t)' = "none"
    BY <1>3, <2>1
  <2>4. holds' = [holds EXCEPT ![t] = "none"]
    BY <2>2, <2>3, OneThreadChanges
  <2>5. QED
    BY <2>3, <2>4 DEF Lock!Release, holds, Lock!Next
<1>4. CASE Goto(t, "rw_mutex", "idle")
  BY <1>4 DEF releasewrite_mrsw, holds
<1>5. QED
  BY <1>1, <1>2, <1>3, <1>4 DEF releasewrite_mrsw

(* acquireread_mrsw holds the gate while it clears long_lock. *)
LEMMA AcquireReadStepRef ==
    ASSUME NEW t \in Threads, Inductive, acquireread_mrsw(t)
    PROVE  [Lock!Next]_holds
<1> USE NoThreadAssumption DEF Inductive, TypeOK, GateInv, RwInv, FlagInv, PC,
    AtGate, AtWrite, AtRead, Flagged, Goto, locks, flags, Holds, MutexLock
<1>1. CASE Goto(t, "idle", "r_mutex")
  BY <1>1 DEF acquireread_mrsw, holds
<1>2. CASE Goto(t, "r_mutex", "r_flags")
  BY <1>2 DEF acquireread_mrsw, holds
<1>3. CASE Goto(t, "r_flags", "s_unlock")
  BY <1>3 DEF acquireread_mrsw, holds
<1>4. QED
  BY <1>1, <1>2, <1>3 DEF acquireread_mrsw

(* acquireread_mrsw_short reads long_lock without holding anything. *)
LEMMA AcquireReadShortStepRef ==
    ASSUME NEW t \in Threads, Inductive, acquireread_mrsw_short(t)
    PROVE  [Lock!Next]_holds
<1> USE NoThreadAssumption DEF Inductive, TypeOK, GateInv, RwInv, FlagInv, PC,
    AtGate, AtWrite, AtRead, Flagged, Goto, locks, flags, Holds, MutexLock
<1>1. CASE Goto(t, "idle", "s_check")
  BY <1>1 DEF acquireread_mrsw_short, holds
<1>2. CASE Goto(t, "s_check", IF long_lock THEN "idle" ELSE "s_mutex")
  BY <1>2 DEF acquireread_mrsw_short, holds
<1>3. CASE Goto(t, "s_mutex", "s_unlock")
  BY <1>3 DEF acquireread_mrsw_short, holds
<1>4. CASE Goto(t, "s_mutex", "s_again")
  BY <1>4 DEF acquireread_mrsw_short, holds
<1>5. CASE Goto(t, "s_again", IF long_lock THEN "idle" ELSE "s_mutex")
  BY <1>5 DEF acquireread_mrsw_short, holds
<1>6. QED
  BY <1>1, <1>2, <1>3, <1>4, <1>5 DEF acquireread_mrsw_short

(* A reader gives up the gate and waits for rw_lock. *)
LEMMA ReadLockStepRef ==
    ASSUME NEW t \in Threads, Inductive, readlock(t)
    PROVE  [Lock!Next]_holds
<1> USE NoThreadAssumption DEF Inductive, TypeOK, GateInv, RwInv, FlagInv, PC,
    AtGate, AtWrite, AtRead, Flagged, Goto, locks, flags, Holds, MutexUnlock, RdLock
<1>1. CASE Goto(t, "s_unlock", "r_rdlock")
  BY <1>1 DEF readlock, holds
<1>2. CASE Goto(t, "r_rdlock", "reading")
  <2>1. RdLock(t)
    BY <1>2 DEF readlock
  <2>2. ASSUME NEW u \in Threads, u # t PROVE Holds(u)' = Holds(u)
    BY <1>2, <2>1, <2>2
  <2>3. Holds(t) = "none" /\ Holds(t)' = "read"
    BY <1>2, <2>1
  <2>4. holds' = [holds EXCEPT ![t] = "read"]
    BY <2>2, <2>3, OneThreadChanges
  <2>5. ASSUME NEW u \in Threads PROVE Holds(u) # "write"
    BY <1>2, <2>1, <2>5
  <2>6. QED
    BY <2>3, <2>4, <2>5 DEF Lock!AcquireRead, holds, Lock!Next
<1>3. QED
  BY <1>1, <1>2 DEF readlock

(* releaseread_mrsw touches rw_lock only. *)
LEMMA ReleaseReadStepRef ==
    ASSUME NEW t \in Threads, Inductive, releaseread_mrsw(t)
    PROVE  [Lock!Next]_holds
<1> USE NoThreadAssumption DEF Inductive, TypeOK, GateInv, RwInv, FlagInv, PC,
    AtGate, AtWrite, AtRead, Flagged, Goto, locks, flags, Holds, RwUnlock
<1>1. CASE Goto(t, "reading", "rr_rwlock")
  BY <1>1 DEF releaseread_mrsw, holds
<1>2. CASE Goto(t, "rr_rwlock", "idle")
  <2>1. RwUnlock(t)
    BY <1>2 DEF releaseread_mrsw
  <2>2. ASSUME NEW u \in Threads, u # t PROVE Holds(u)' = Holds(u)
    BY <1>2, <2>1, <2>2
  <2>3. Holds(t) = "read" /\ Holds(t)' = "none"
    BY <1>2, <2>1
  <2>4. holds' = [holds EXCEPT ![t] = "none"]
    BY <2>2, <2>3, OneThreadChanges
  <2>5. QED
    BY <2>3, <2>4 DEF Lock!Release, holds, Lock!Next
<1>3. QED
  BY <1>1, <1>2 DEF releaseread_mrsw

(* release_mrsw finds out from the writer flag what its caller holds. *)
LEMMA ReleaseStepRef ==
    ASSUME NEW t \in Threads, Inductive, release_mrsw(t)
    PROVE  [Lock!Next]_holds
<1> USE NoThreadAssumption DEF Inductive, TypeOK, GateInv, RwInv, FlagInv, PC,
    AtGate, AtWrite, AtRead, Flagged, Goto, locks, flags, Holds
<1>1. CASE Goto(t, "writing", "x_check")
  BY <1>1 DEF release_mrsw, holds
<1>2. CASE Goto(t, "reading", "x_check")
  BY <1>2 DEF release_mrsw, holds
<1>3. CASE Goto(t, "x_check", IF writer THEN "rw_flags" ELSE "rr_rwlock")
  BY <1>3 DEF release_mrsw, holds
<1>4. QED
  BY <1>1, <1>2, <1>3 DEF release_mrsw

(* writetoread_mrsw keeps the gate while it exchanges its locks. *)
LEMMA WriteToReadStepRef ==
    ASSUME NEW t \in Threads, Inductive, writetoread_mrsw(t)
    PROVE  [Lock!Next]_holds
<1> USE NoThreadAssumption DEF Inductive, TypeOK, GateInv, RwInv, FlagInv, PC,
    AtGate, AtWrite, AtRead, Flagged, Goto, locks, flags, Holds, RwUnlock, RdLock, MutexUnlock
<1>1. CASE Goto(t, "writing", "d_flags")
  BY <1>1 DEF writetoread_mrsw, holds
<1>2. CASE Goto(t, "d_flags", "d_unlock")
  BY <1>2 DEF writetoread_mrsw, holds
<1>3. CASE Goto(t, "d_unlock", "d_rdlock")
  <2>1. RwUnlock(t)
    BY <1>3 DEF writetoread_mrsw
  <2>2. ASSUME NEW u \in Threads, u # t PROVE Holds(u)' = Holds(u)
    BY <1>3, <2>1, <2>2
  <2>3. Holds(t) = "write" /\ Holds(t)' = "read"
    BY <1>3, <2>1
  <2>4. holds' = [holds EXCEPT ![t] = "read"]
    BY <2>2, <2>3, OneThreadChanges
  <2>5. QED
    BY <2>3, <2>4 DEF Lock!Downgrade, holds, Lock!Next
<1>4. CASE Goto(t, "d_rdlock", "d_mutex")
  BY <1>4 DEF writetoread_mrsw, holds
<1>5. CASE Goto(t, "d_mutex", "reading")
  BY <1>5 DEF writetoread_mrsw, holds
<1>6. QED
  BY <1>1, <1>2, <1>3, <1>4, <1>5 DEF writetoread_mrsw

(* A step of the lock is a step of RwLock or changes nobody's holding. *)
LEMMA NextRefines == Inductive /\ [Next]_vars => [Lock!Next]_holds
<1> SUFFICES ASSUME Inductive, [Next]_vars PROVE [Lock!Next]_holds
  OBVIOUS
<1>1. CASE UNCHANGED vars
  BY <1>1 DEF vars, holds, Holds
<1>2. ASSUME NEW t \in Threads, Step(t) PROVE [Lock!Next]_holds
  BY <1>2, AcquireWriteStepRef, TryAcquireWriteStepRef, ReleaseWriteStepRef,
     AcquireReadStepRef, AcquireReadShortStepRef, ReadLockStepRef,
     ReleaseReadStepRef, ReleaseStepRef, WriteToReadStepRef DEF Step
<1>3. QED
  BY <1>1, <1>2 DEF Next

(* The lock of ltfs_locking_new.h implements a readers-writer lock with an *)
(* atomic downgrade, for every number of threads.                          *)
THEOREM Refinement == Spec => ImplementsRwLock
<1>1. Init => Lock!Init
  BY DEF Init, Lock!Init, holds, Holds
<1>2. QED
  BY <1>1, InductiveHolds, NextRefines, PTL DEF Spec, ImplementsRwLock, Lock!Spec
=============================================================================
