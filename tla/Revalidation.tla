--------------------------- MODULE Revalidation ---------------------------
(***************************************************************************)
(* How the operations of a mounted volume share the drive, and what they   *)
(* do when the drive says that the cartridge may have changed (a power-on  *)
(* or bus reset, a preempted reservation: NEED_REVAL) or that somebody     *)
(* asked for the cartridge (IS_UNEXPECTED_MOVE).  The thread that is told  *)
(* so first fences the device, gives up its volume lock and checks the     *)
(* cartridge (ltfs_revalidate); all others wait for the outcome            *)
(* (ltfs_wait_revalidation, ltfs_get_volume_lock).                         *)
(*                                                                         *)
(* vol->lock is a lock that behaves like RwLock, which is what MrswProofs  *)
(* shows of its implementation.  One thread runs one operation at a time:  *)
(*                                                                         *)
(*   read      ltfs_fsraw_read, ltfs_test_unit_ready                       *)
(*   query     ltfs_capacity_data, ltfs_get_tape_alert                     *)
(*   write     ltfs_fsraw_write, ltfs_fsraw_write_data                     *)
(*   sync      ltfs_sync_index with index_locking (sync_w: second half)    *)
(*   unmount   ltfs_unmount                                                *)
(*                                                                         *)
(* and ltfs_fsops_setxattr, under a read lock but for ltfs.sync:           *)
(*   syncattr  ltfs.sync, with the write lock                              *)
(*   setxattr  ltfs.mediaStorageAlert, vendor-unique attributes            *)
(*   commit    ltfs.commitMessage, FullSync, IncrementalSync               *)
(*   rao       ltfs.vendor.IBM.rao                                         *)
(*   mam       ltfs.volumeName, mamBarcode, mediaPool.*, driveCaptureDump  *)
(*   lockstate ltfs.volumeLockState (lockstate_ip: its second index)       *)
(*                                                                         *)
(* and ltfs_fsops_getxattr, under a read lock:                             *)
(*   getxattr  health, capacity and tape alert, vendor-unique attributes   *)
(*   getsync   ltfs.sync                                                   *)
(*   logpage   ltfs.vendor.IBM.logPage.* and mediaMAM.*                    *)
(*   getdump   ltfs.driveCaptureDump                                       *)
(*   quiet     ltfs.mediaEncrypted, driveEncryption*, and                  *)
(*             ltfs_fsops_removexattr of ltfs.volumeName                   *)
(***************************************************************************)
EXTENDS Naturals, FiniteSets

CONSTANTS Threads, NoThread,
          Ops,          \* the operations that threads begin
          Events,       \* what can happen to the drive: "reset", "move"
          MaxOps,       \* bound: operations begun
          MaxEvents     \* bound: events of the drive

ASSUME ThreadsAssumption == NoThread \notin Threads

AllOps == {"read", "query", "write", "sync", "unmount",
           "syncattr", "setxattr", "commit", "rao", "mam", "lockstate",
           "getxattr", "getsync", "logpage", "getdump", "quiet"}

ASSUME OpsAssumption == Ops \subseteq AllOps

ASSUME EventsAssumption == Events \subseteq {"reset", "move"}

VARIABLES reval,        \* vol->reval: "ok", "running" or "failed"
          fence,        \* dev->fence
          dev,          \* owner of dev->backend_mutex
          vlock,        \* vol->lock: what each thread holds it for
          pc, op, ret,  \* per thread: position, operation, result so far
          mounted,
          attention,    \* what the drive will report to the next command
          tape,         \* is the cartridge the one that was mounted?
          unverified,   \* a command was carried out on another cartridge
          stray,        \* operations that released a lock they did not hold
          begun, happened   \* counters for the bounds

vars == <<reval, fence, dev, vlock, pc, op, ret, mounted, attention, tape,
          unverified, stray, begun, happened>>
drive == <<attention, tape, unverified, happened>>

V == INSTANCE RwLock WITH holds <- vlock

Init ==
    /\ reval = "ok" /\ fence = FALSE /\ dev = NoThread
    /\ vlock = [t \in Threads |-> "none"]
    /\ pc = [t \in Threads |-> "idle"]
    /\ op = [t \in Threads |-> "none"]
    /\ ret = [t \in Threads |-> "ok"]
    /\ mounted = TRUE
    /\ attention = "none" /\ tape = "same" /\ unverified = FALSE
    /\ stray = {} /\ begun = 0 /\ happened = 0

---------------------------------------------------------------------------
(* What distinguishes the operations.                                      *)

Exclusive(o) == o \in {"write", "sync_w", "syncattr", "unmount"}

\* operations that send commands without the device lock
Bare(o) == o \in {"mam", "lockstate", "getdump", "quiet"}

\* operations whose code starts the fence when a command reports a reset
Fences(o) == o \in {"read", "query", "write", "getxattr", "setxattr"}

\* operations that wait when they find the device fenced
Waits(o) == o \in {"read", "query", "write", "getxattr", "getsync"}

\* attributes that xattr_get serves
Getting == {"getxattr", "getsync", "logpage", "getdump"}

\* attributes that are synchronised by ltfs_sync_index without index_locking
SyncAttrs == {"syncattr", "commit", "getsync"}

(* Mutant: a reader says that it has the write lock *)
HaveWrite_Read(o) == o \in {"read", "sync_w", "syncattr", "unmount"}

\* the have_write_lock argument of ltfs_revalidate
HaveWrite(o) == o \in {"sync_w", "syncattr", "unmount"}

\* operations that write an index
Indexes(o) == o \in SyncAttrs \cup {"write", "sync_w", "lockstate", "lockstate_ip", "unmount"}

\* where an operation goes once it has the volume
First(o) ==
    CASE o = "unmount" -> "um_status"
      [] o \in SyncAttrs \cup {"sync"} -> "peek"
      [] Bare(o) -> "bare"
      [] OTHER -> "dev"

---------------------------------------------------------------------------
Goto(t, from, to) == pc[t] = from /\ pc' = [pc EXCEPT ![t] = to]

Return(t, r) == ret' = [ret EXCEPT ![t] = r]

\* release of vol->lock, by a thread that may not hold it
Release(t) ==
    IF vlock[t] = "none"
    THEN stray' = stray \cup {op[t]} /\ UNCHANGED vlock
    ELSE V!Release(t) /\ UNCHANGED stray

Begin(t) ==
    /\ pc[t] = "idle" /\ mounted /\ begun < MaxOps
    /\ \E o \in Ops :
        /\ o = "unmount" => \A u \in Threads : pc[u] = "idle"
        /\ op' = [op EXCEPT ![t] = o]
        /\ mounted' = (o # "unmount")
    /\ pc' = [pc EXCEPT ![t] = "gl_wait"]
    /\ Return(t, "ok")
    /\ begun' = begun + 1
    /\ UNCHANGED <<reval, fence, dev, vlock, drive, stray>>

---------------------------------------------------------------------------
(* ltfs_get_volume_lock                                                    *)

(* Mutant: vol->reval is looked at before the lock is taken, not after *)
get_volume_lock_Early(t) ==
    \/ /\ Goto(t, "gl_wait", IF reval = "failed" THEN "idle" ELSE "gl_lock")
       /\ reval # "running"
       /\ Return(t, reval)
       /\ UNCHANGED <<reval, vlock, op>>
    \/ /\ Goto(t, "gl_lock", First(op[t]))
       /\ IF Exclusive(op[t]) THEN V!AcquireWrite(t) ELSE V!AcquireRead(t)
       /\ UNCHANGED <<reval, op, ret>>

ltfs_get_volume_lock(t) ==
    \/ /\ Goto(t, "gl_wait", "gl_lock")
       /\ reval # "running"
       /\ UNCHANGED <<reval, vlock, op, ret>>
    \/ /\ Goto(t, "gl_lock", "gl_check")
       /\ IF Exclusive(op[t]) THEN V!AcquireWrite(t) ELSE V!AcquireRead(t)
       /\ UNCHANGED <<reval, op, ret>>
    \/ /\ reval # "ok"
       /\ Goto(t, "gl_check", IF reval = "running" THEN "gl_wait" ELSE "idle")
       /\ V!Release(t)
       /\ Return(t, IF reval = "running" THEN "ok" ELSE "failed")
       /\ UNCHANGED <<reval, op>>
    \/ /\ reval = "ok"
       /\ Goto(t, "gl_check", First(op[t]))
       /\ UNCHANGED <<reval, vlock, op, ret>>

(* ltfs_sync_index looks at the dirty flag.  With index_locking it does so *)
(* under a read lock, which it gives up before it asks for the write lock; *)
(* without, it goes on with the lock its caller has.                       *)
SyncPeek(t) ==
    /\ \/ /\ op[t] = "sync"
          /\ V!Release(t)
          /\ \/ Goto(t, "peek", "idle") /\ UNCHANGED op
             \/ Goto(t, "peek", "gl_wait") /\ op' = [op EXCEPT ![t] = "sync_w"]
       \/ /\ op[t] # "sync"
          /\ Goto(t, "peek", "release") \/ Goto(t, "peek", "dev")
          /\ UNCHANGED <<vlock, op>>
    /\ UNCHANGED <<reval, fence, dev, ret, mounted, drive, stray, begun>>

---------------------------------------------------------------------------
(* The drive.  An event is reported to the next command and only to that.  *)

Event ==
    /\ happened < MaxEvents
    /\ mounted \/ \E t \in Threads : pc[t] # "idle"
    /\ happened' = happened + 1
    /\ \E e \in Events :
        /\ e = "move" => attention = "none"
        /\ attention' = e
        /\ tape' \in (IF e = "reset" THEN {"same", "other"} ELSE {tape})
    /\ UNCHANGED <<reval, fence, dev, vlock, pc, op, ret, mounted, unverified, stray, begun>>

Command(t) ==
    /\ attention' = "none"
    /\ Return(t, IF attention = "none" THEN "ok" ELSE attention)
    /\ unverified' = (unverified \/ (attention = "none" /\ tape = "other"))
    /\ UNCHANGED <<tape, happened>>

(* Setting ltfs.volumeLockState: whatever became of the first index, a     *)
(* second one is written to the index partition                            *)
SecondIndex(t) == op' = [op EXCEPT ![t] = IF @ = "lockstate" THEN "lockstate_ip" ELSE @]

(* tape_device_lock.  A fenced device is unlocked again; the callers       *)
(* differ in what they do then: ltfs_logpage and ltfs_mam do not look.     *)
tape_device_lock(t) ==
    /\ dev = NoThread
    /\ \/ /\ ~fence
          /\ Goto(t, "dev", IF op[t] = "write" THEN "index" ELSE "cmd")
          /\ dev' = t
          /\ UNCHANGED <<vlock, ret, op>>
       \/ /\ fence
          /\ Goto(t, "dev", CASE Waits(op[t]) -> "wv_release"
                              [] op[t] = "lockstate" -> "dev"
                              [] op[t] = "logpage" -> "bare"
                              [] OTHER -> "release")
          /\ Return(t, "fenced")
          /\ IF op[t] = "write" THEN V!Downgrade(t) ELSE UNCHANGED vlock
          /\ SecondIndex(t)
          /\ UNCHANGED dev
    /\ UNCHANGED <<reval, fence, mounted, drive, stray, begun>>

(* _ltfs_fsraw_write_data_unlocked: an index may have to be written to the *)
(* other partition before the volume lock is downgraded; a read-only       *)
(* partition, or an index that cannot be written, ends the operation       *)
WriteIndexConditional(t) ==
    /\ pc[t] = "index"
    /\ \/ Command(t)
       \/ Return(t, "ok") /\ UNCHANGED drive
    /\ V!Downgrade(t)
    /\ fence' = (fence \/ ret'[t] = "reset")
    /\ reval' = IF ret'[t] = "move" THEN "failed" ELSE reval
    /\ \/ pc' = [pc EXCEPT ![t] = "undev"]
       \/ ret'[t] = "ok" /\ pc' = [pc EXCEPT ![t] = "cmd"]
    /\ UNCHANGED <<dev, op, mounted, stray, begun>>

(* The commands of the operation, under the device lock *)
Commands(t) ==
    /\ Goto(t, "cmd", "undev")
    /\ Command(t)
    /\ fence' = (fence \/ (ret'[t] = "reset" /\ Fences(op[t])))
    /\ reval' = IF ret'[t] = "move" /\ Fences(op[t]) THEN "failed" ELSE reval
    /\ UNCHANGED <<dev, vlock, op, mounted, stray, begun>>

\* what an operation does with the report of a command
Reported(o, r) ==
    CASE r = "reset" -> "rv_start"
      [] r = "move" /\ o # "read" -> "late"
      [] OTHER -> "release"

(* A command without the device lock, or past a fence *)
BareCommand(t) ==
    /\ Command(t)
    /\ Goto(t, "bare", CASE op[t] = "quiet" -> "release"
                         [] op[t] = "logpage" -> "bare_undev"
                         [] op[t] = "lockstate" /\ ret'[t] = "ok" -> "dev"
                         [] OTHER -> Reported(op[t], ret'[t]))
    /\ UNCHANGED <<reval, fence, dev, vlock, op, mounted, stray, begun>>

(* tape_device_unlock and what the operation does with the result *)
tape_device_unlock(t) ==
    /\ \/ /\ op[t] # "lockstate"
          /\ Goto(t, "undev", Reported(op[t], ret[t]))
          /\ UNCHANGED op
       \/ /\ op[t] = "lockstate" /\ ret[t] # "move"  \* the result is not looked at
          /\ Goto(t, "undev", "dev")
          /\ SecondIndex(t)
       \/ /\ op[t] = "lockstate" /\ ret[t] = "move"
          /\ Goto(t, "undev", "sync_late")
          /\ UNCHANGED op
    /\ dev' = NoThread
    /\ UNCHANGED <<reval, fence, vlock, ret, mounted, drive, stray, begun>>

(* tape_device_unlock of a device that the thread has not locked: a plain  *)
(* mutex is free afterwards, an error-checking one stays as it is          *)
StrayDeviceUnlock(t) ==
    /\ Goto(t, "bare_undev", Reported(op[t], ret[t]))
    /\ dev' \in {dev, NoThread}
    /\ stray' = stray \cup {op[t]}
    /\ UNCHANGED <<reval, fence, vlock, op, ret, mounted, drive, begun>>

(* Most operations set vol->reval after the device is unlocked: the ones   *)
(* that have already set it under the device lock once more                *)
LateFailure(t) ==
    /\ \/ Goto(t, "late", "release") /\ UNCHANGED op
       \/ Goto(t, "sync_late", "dev") /\ SecondIndex(t)
    /\ reval' = "failed"
    /\ UNCHANGED <<fence, dev, vlock, ret, mounted, drive, stray, begun>>

ReleaseVolume(t) ==
    /\ Goto(t, "release", "idle")
    /\ Release(t)
    /\ UNCHANGED <<reval, fence, dev, op, ret, mounted, drive, begun>>

---------------------------------------------------------------------------
(* ltfs_wait_revalidation and ltfs_revalidate; both give up the lock.      *)

(* Mutant: every operation releases the lock after a failed revalidation *)
After_Release(o, r) ==
    CASE o = "unmount" -> "um_after"
      [] o # "unmount" /\ r = "failed" -> "release"
      [] OTHER -> "gl_wait"

(* Where an operation continues after them: it starts over, or returns the *)
(* error.  ltfs_fsops_getxattr then releases the volume lock, and          *)
(* ltfs_unmount does so in both cases.                                     *)
After(o, r) ==
    CASE o = "unmount" -> "um_after"
      [] o \in Getting /\ r = "failed" -> "release"
      [] o \notin Getting \cup {"unmount"} /\ r = "failed" -> "idle"
      [] OTHER -> "gl_wait"

Restart(t) ==
    op' = [op EXCEPT ![t] = CASE @ = "sync_w" -> "sync"
                              [] @ = "lockstate_ip" -> "lockstate"
                              [] OTHER -> @]

ltfs_wait_revalidation(t) ==
    \/ /\ Goto(t, "wv_release", "wv_wait")
       /\ Release(t)
       /\ UNCHANGED <<op, ret>>
    \/ /\ reval # "running"
       /\ Goto(t, "wv_wait", After(op[t], reval))
       /\ Return(t, reval)
       /\ UNCHANGED <<vlock, op, stray>>

(* The outcome of checking label, coherency and positions.  A pending      *)
(* event makes a command of the check fail, or is swallowed by one of the  *)
(* loops that repeat a command until it reports no reset.                  *)
CheckCartridge(t) ==
    /\ \E r \in {"ok", "failed"} : Return(t, r) /\ (r = "ok" => tape = "same")
    /\ attention' = "none"
    /\ UNCHANGED <<tape, unverified, happened>>

(* Mutant: the fence stays up *)
revalidate_KeepFence(t) ==
    \/ /\ Goto(t, "rv_start", IF HaveWrite(op[t]) THEN "rv_body" ELSE "rv_release")
       /\ reval' = "running"
       /\ UNCHANGED <<fence, vlock, op, ret, drive, stray>>
    \/ /\ Goto(t, "rv_release", "rv_acquire")
       /\ Release(t)
       /\ UNCHANGED <<reval, fence, op, ret, drive>>
    \/ /\ Goto(t, "rv_acquire", "rv_body")
       /\ V!AcquireWrite(t)
       /\ UNCHANGED <<reval, fence, op, ret, drive, stray>>
    \/ /\ Goto(t, "rv_body", "rv_result")
       /\ CheckCartridge(t)
       /\ UNCHANGED <<reval, fence, vlock, op, stray>>
    \/ /\ Goto(t, "rv_result", "rv_unlock")
       /\ reval' = ret[t]
       /\ UNCHANGED <<fence, vlock, op, ret, drive, stray>>
    \/ /\ Goto(t, "rv_unlock", After(op[t], ret[t]))
       /\ Release(t)
       /\ Restart(t)
       /\ UNCHANGED <<reval, fence, ret, drive>>

(* Mutant: a failed check is repeated *)
revalidate_Again(t) ==
    \/ /\ Goto(t, "rv_start", IF HaveWrite(op[t]) THEN "rv_body" ELSE "rv_release")
       /\ reval' = "running"
       /\ UNCHANGED <<fence, vlock, op, ret, drive, stray>>
    \/ /\ Goto(t, "rv_release", "rv_acquire")
       /\ Release(t)
       /\ UNCHANGED <<reval, fence, op, ret, drive>>
    \/ /\ Goto(t, "rv_acquire", "rv_body")
       /\ V!AcquireWrite(t)
       /\ UNCHANGED <<reval, fence, op, ret, drive, stray>>
    \/ /\ CheckCartridge(t)
       /\ Goto(t, "rv_body", IF ret'[t] = "ok" THEN "rv_fence" ELSE "rv_body")
       /\ UNCHANGED <<reval, fence, vlock, op, stray>>
    \/ /\ Goto(t, "rv_fence", "rv_result")
       /\ fence' = FALSE
       /\ UNCHANGED <<reval, vlock, op, ret, drive, stray>>
    \/ /\ Goto(t, "rv_result", "rv_unlock")
       /\ reval' = ret[t]
       /\ UNCHANGED <<fence, vlock, op, ret, drive, stray>>
    \/ /\ Goto(t, "rv_unlock", After(op[t], ret[t]))
       /\ Release(t)
       /\ Restart(t)
       /\ UNCHANGED <<reval, fence, ret, drive>>

ltfs_revalidate(t) ==
    \/ /\ Goto(t, "rv_start", IF HaveWrite(op[t]) THEN "rv_body" ELSE "rv_release")
       /\ reval' = "running"
       /\ UNCHANGED <<fence, vlock, op, ret, drive, stray>>
    \/ /\ Goto(t, "rv_release", "rv_acquire")
       /\ Release(t)
       /\ UNCHANGED <<reval, fence, op, ret, drive>>
    \/ /\ Goto(t, "rv_acquire", "rv_body")
       /\ V!AcquireWrite(t)
       /\ UNCHANGED <<reval, fence, op, ret, drive, stray>>
    \/ /\ Goto(t, "rv_body", "rv_fence")
       /\ CheckCartridge(t)
       /\ UNCHANGED <<reval, fence, vlock, op, stray>>
    \/ /\ Goto(t, "rv_fence", "rv_result")
       /\ fence' = FALSE
       /\ UNCHANGED <<reval, vlock, op, ret, drive, stray>>
    \/ /\ Goto(t, "rv_result", "rv_unlock")
       /\ reval' = ret[t]
       /\ UNCHANGED <<fence, vlock, op, ret, drive, stray>>
    \/ /\ Goto(t, "rv_unlock", After(op[t], ret[t]))
       /\ Release(t)
       /\ Restart(t)
       /\ UNCHANGED <<reval, fence, ret, drive>>

---------------------------------------------------------------------------
(* ltfs_unmount: alone, with the write lock and without the device lock    *)

ltfs_unmount(t) ==
    \/ /\ Goto(t, "um_status", "um_index")      \* the result is not looked at
       /\ attention' = "none"
       /\ UNCHANGED <<reval, fence, vlock, ret, tape, unverified, happened, stray>>
    \/ /\ pc[t] = "um_index"                    \* ltfs_write_index, if necessary
       /\ \/ Command(t)
          \/ Return(t, "ok") /\ UNCHANGED drive
       /\ reval' = IF ret'[t] = "move" THEN "failed" ELSE reval
       /\ pc' = [pc EXCEPT ![t] = CASE ret'[t] = "reset" -> "rv_start"
                                    [] ret'[t] = "move" -> "release"
                                    [] OTHER -> "um_end"]
       /\ UNCHANGED <<fence, vlock, stray>>
    \/ /\ Goto(t, "um_after", IF ret[t] = "ok" THEN "gl_wait" ELSE "idle")
       /\ reval' = IF ret[t] = "ok" THEN reval ELSE "ok"
       /\ Release(t)
       /\ UNCHANGED <<fence, ret, drive>>
    \/ /\ Goto(t, "um_end", "release")          \* ltfs_get_cartridge_health
       /\ reval' = IF attention = "move" THEN "failed" ELSE "ok"
       /\ fence' = FALSE
       /\ attention' = "none"
       /\ UNCHANGED <<vlock, ret, tape, unverified, happened, stray>>

---------------------------------------------------------------------------
Step(t) ==
    \/ ltfs_get_volume_lock(t) /\ UNCHANGED <<fence, dev, mounted, drive, stray, begun>>
    \/ SyncPeek(t)
    \/ tape_device_lock(t) \/ WriteIndexConditional(t) \/ Commands(t)
    \/ BareCommand(t) \/ StrayDeviceUnlock(t)
    \/ tape_device_unlock(t) \/ LateFailure(t) \/ ReleaseVolume(t)
    \/ ltfs_wait_revalidation(t) /\ UNCHANGED <<reval, fence, dev, mounted, drive, begun>>
    \/ ltfs_revalidate(t) /\ UNCHANGED <<dev, mounted, begun>>
    \/ ltfs_unmount(t) /\ UNCHANGED <<dev, op, mounted, begun>>

Done == /\ \A t \in Threads : pc[t] = "idle"
        /\ begun = MaxOps \/ ~mounted
        /\ UNCHANGED vars

Next == (\E t \in Threads : Begin(t) \/ Step(t)) \/ Event \/ Done

Spec == Init /\ [][Next]_vars

(***************************************************************************)
(* Fairness: a thread inside an operation keeps running whenever it can.   *)
(* Operations need not begin and events need not happen.                   *)
(***************************************************************************)
FairSpec == Spec /\ \A t \in Threads : WF_vars(Step(t))

---------------------------------------------------------------------------
(* Properties                                                              *)

Revalidating == {t \in Threads : pc[t] \in
                    {"rv_release", "rv_acquire", "rv_body", "rv_fence", "rv_result"}}

(* "can't ignore POR, tape could have changed" (ltfs_write_index): once    *)
(* the drive has reported a reset, no command of any thread is carried out *)
(* on another cartridge than the one that was mounted.                     *)
NoCommandOnOtherTape == ~unverified

(* A thread releases vol->lock only while it holds it, on every path       *)
(* through ltfs_revalidate and ltfs_wait_revalidation, which give the lock *)
(* up for their callers.                                                   *)
NoStrayRelease == stray = {}

(* "During the revalidation, operations need to be blocked" (ltfs.h): from *)
(* the moment the revalidating thread has the volume lock to the moment    *)
(* the result is published, nobody else has the volume or the device.  Two *)
(* threads never revalidate at the same time: the second would overwrite   *)
(* the result of the first.                                                *)
RevalidatesAlone ==
    /\ Cardinality(Revalidating) <= 1
    /\ \A t \in Threads :
         pc[t] \in {"rv_body", "rv_fence", "rv_result"}
             => /\ dev = NoThread
                /\ vlock[t] = "write"
                /\ reval # "ok"

(* ltfs_write_index takes no lock of its own, as "this function executes   *)
(* with an exclusive lock on the volume": while a thread writes an index,  *)
(* no other thread has the volume.  Does not hold of the operations that   *)
(* write one under a read lock (commit, lockstate, getsync).               *)
IndexExclusive ==
    \A t, u \in Threads :
        t # u /\ pc[t] \in {"index", "cmd", "um_index"} /\ Indexes(op[t])
            /\ (op[t] = "write" => pc[t] = "index")
            => vlock[u] = "none"

(* A revalidation ends, whoever else is using the volume. *)
RevalidationEnds == reval = "running" ~> reval # "running"

(* Every operation returns: nobody waits for ever for a revalidation, and  *)
(* nobody keeps running into a fence that nobody takes down.               *)
OperationReturns == \A t \in Threads : pc[t] # "idle" ~> pc[t] = "idle"

---------------------------------------------------------------------------
(* The inductive invariant from which RevalidationProofs derives the       *)
(* properties.  TypeOK, HeldInv and AloneInv hold whatever the operations  *)
(* are, HandleInv unless one is Unfenced, TapeInv unless one is Unfenced   *)
(* or drops a report.                                                      *)

\* operations that go to ltfs_revalidate without a fence and without the
\* write lock, and those whose code drops a report of the drive
Unfenced == {"commit", "rao", "mam", "lockstate", "getsync", "logpage", "getdump"}
Drops == {"unmount", "quiet"}

Positions ==
    {"idle", "gl_wait", "gl_lock", "gl_check", "peek", "dev", "index", "cmd", "undev", "late", "sync_late", "release",
     "bare", "bare_undev", "wv_release", "wv_wait", "um_status", "um_index", "um_end", "um_after",
     "rv_start", "rv_release", "rv_acquire", "rv_body", "rv_fence", "rv_result", "rv_unlock"}

TypeOK ==
    /\ reval \in {"ok", "running", "failed"} /\ fence \in BOOLEAN
    /\ dev \in Threads \cup {NoThread}
    /\ vlock \in [Threads -> V!Modes]
    /\ pc \in [Threads -> Positions]
    /\ op \in [Threads -> Ops \cup {"none", "sync", "sync_w", "lockstate_ip"}]
    /\ ret \in [Threads -> {"ok", "failed", "fenced", "reset", "move"}]
    /\ mounted \in BOOLEAN /\ unverified \in BOOLEAN
    /\ attention \in {"none", "reset", "move"} /\ tape \in {"same", "other"}

\* positions at which a thread does not hold vol->lock, holds it as it asked
\* for it, and holds it for writing
Unlocked == {"idle", "gl_wait", "gl_lock", "wv_wait", "rv_acquire", "um_after"}
Granted == {"gl_check", "peek", "dev", "bare", "sync_late"}
Writing == {"index", "rv_body", "rv_fence", "rv_result", "rv_unlock"}

\* positions under the device lock, and those of each kind of operation
UnderDevice == {"index", "cmd", "undev"}
Shared == UnderDevice \cup {"peek", "dev", "bare", "bare_undev", "late", "sync_late", "wv_release", "wv_wait"}
Unmounting == {"um_status", "um_index", "um_end", "um_after"}
Syncing == {"idle", "gl_wait", "gl_lock", "gl_check", "peek"}

\* Who holds vol->lock and the device, and where which operation can be.
HeldInv ==
    /\ \A t, u \in Threads : vlock[t] = "write" /\ u # t => vlock[u] = "none"
    /\ \A t \in Threads :
        /\ pc[t] \in Unlocked => vlock[t] = "none"
        /\ pc[t] \in Granted => vlock[t] = (IF Exclusive(op[t]) THEN "write" ELSE "read")
        /\ pc[t] \notin Unlocked => vlock[t] # "none" \/ (pc[t] = "release" /\ op[t] \in Getting)
        /\ pc[t] \notin Unlocked /\ HaveWrite(op[t]) => vlock[t] = "write"
        /\ pc[t] \in Writing => vlock[t] = "write"
        /\ pc[t] \in {"rv_release", "rv_acquire"} => ~HaveWrite(op[t])
        /\ op[t] = "none" => pc[t] = "idle"
        /\ op[t] = "sync" => pc[t] \in Syncing
        /\ pc[t] = "peek" => op[t] \in SyncAttrs \cup {"sync"}
        /\ pc[t] = "bare" => Bare(op[t]) \/ op[t] = "logpage"
        /\ pc[t] = "bare_undev" => op[t] = "logpage"
        /\ pc[t] = "sync_late" => op[t] = "lockstate"
        /\ op[t] = "lockstate_ip" => "lockstate" \in Ops
        /\ op[t] = "lockstate" /\ pc[t] \in UnderDevice => vlock[t] = "read"
        /\ op[t] = "quiet" => pc[t] \notin UnderDevice \cup {"dev"}
        /\ pc[t] = "index" => op[t] = "write"
        /\ pc[t] \in Shared => op[t] # "unmount"
        /\ pc[t] \in Unmounting => op[t] = "unmount"
        /\ pc[t] \in {"rv_fence", "rv_result"} => ret[t] \in {"ok", "failed"}
        /\ "logpage" \notin Ops => (dev = t <=> pc[t] \in UnderDevice)
    /\ stray \subseteq Ops \cap (Getting \cup {"unmount"})

\* ltfs_unmount runs alone.
AloneInv ==
    \A t \in Threads : op[t] = "unmount" /\ pc[t] # "idle" =>
        ~mounted /\ \A u \in Threads \ {t} : pc[u] = "idle"

\* A thread that was told of a reset, up to its result.
Handling(t) ==
    \/ pc[t] \in {"rv_start", "rv_release", "rv_acquire", "rv_body", "rv_fence", "rv_result"}
    \/ pc[t] = "undev" /\ ret[t] = "reset"

\* There is one at a time: the fence or its write lock keeps the others away
\* from the device, and a thread at the device has met no fence.
HandleInv ==
    /\ \A t, u \in Threads : Handling(t) /\ Handling(u) => t = u
    /\ \A t \in Threads :
        /\ Handling(t) /\ ~HaveWrite(op[t]) /\ pc[t] # "rv_result" => fence
        /\ pc[t] \in UnderDevice /\ ~Handling(t) => ~fence
        /\ Handling(t) /\ pc[t] \notin {"undev", "rv_start"} => reval # "ok"

\* Another cartridge that no command will be told of is one that a thread is
\* about to reject, or has rejected for everybody.
TapeInv ==
    /\ ~unverified
    /\ tape = "other" /\ attention # "reset" =>
        \/ \E t \in Threads : Handling(t) /\ (pc[t] \in {"rv_fence", "rv_result"} => ret[t] = "failed")
        \/ reval = "failed" /\ \A t \in Threads : ~Handling(t) /\ pc[t] \notin {"peek", "dev", "index", "cmd"}
=============================================================================
