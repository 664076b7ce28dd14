------------------------- MODULE RevalidationProofs -------------------------
(***************************************************************************)
(* Proofs about the sharing of the drive and the revalidation of the       *)
(* cartridge, for any set of threads and any number of operations and      *)
(* events.                                                                 *)
(***************************************************************************)
EXTENDS Revalidation, FiniteSetTheorems, TLAPS

\* what holds whatever the operations are
BaseInv == TypeOK /\ HeldInv /\ AloneInv

(* The state after the mount satisfies all parts of the invariant. *)
LEMMA InitAll == Init => BaseInv /\ HandleInv /\ TapeInv
<1> SUFFICES ASSUME Init PROVE BaseInv /\ HandleInv /\ TapeInv
  OBVIOUS
<1> USE ThreadsAssumption
    DEF Init, Handling, Positions, V!Modes, Unlocked, Granted, Writing, UnderDevice, Shared, Unmounting, Syncing
<1>1. TypeOK
  BY DEF TypeOK
<1>2. HeldInv
  BY DEF HeldInv, Exclusive, HaveWrite, Bare, Getting, SyncAttrs
<1>3. AloneInv
  BY DEF AloneInv
<1>4. HandleInv
  BY DEF HandleInv
<1>5. TapeInv
  BY DEF TapeInv
<1>6. QED
  BY <1>1, <1>2, <1>3, <1>4, <1>5 DEF BaseInv

---------------------------------------------------------------------------
(* Locks: every function preserves BaseInv.                                *)

(* An operation begins; ltfs_unmount when nothing else is in progress. *)
LEMMA BeginBase ==
    ASSUME NEW t \in Threads, BaseInv, Begin(t) PROVE BaseInv'
<1> USE ThreadsAssumption, OpsAssumption
    DEF BaseInv, AllOps, TypeOK, HeldInv, AloneInv, Positions, V!Modes, Unlocked, Granted, Writing,
        UnderDevice, Shared, Unmounting, Syncing, HaveWrite, Exclusive, Bare, Getting, SyncAttrs, Return, drive
<1>1. TypeOK' BY DEF Begin
<1>2. HeldInv' BY DEF Begin
<1>3. AloneInv'
  <2>1. PICK o \in Ops : /\ o = "unmount" => \A u \in Threads : pc[u] = "idle"
                         /\ op' = [op EXCEPT ![t] = o]
                         /\ mounted' = (o # "unmount")
    BY DEF Begin
  <2>2. mounted /\ pc[t] = "idle" /\ pc' = [pc EXCEPT ![t] = "gl_wait"]
    BY DEF Begin
  <2>3. ~mounted' <=> o = "unmount"
    BY <2>1
  <2>4. \A u \in Threads : op[u] = "unmount" => pc[u] = "idle"
    BY <2>2
  <2>5. QED
    BY <2>1, <2>2, <2>3, <2>4
<1>4. QED BY <1>1, <1>2, <1>3

(* ltfs_get_volume_lock leaves with the lock as asked for, or without it. *)
LEMMA GetVolumeLockBase ==
    ASSUME NEW t \in Threads, BaseInv, ltfs_get_volume_lock(t),
           UNCHANGED <<fence, dev, mounted, drive, stray, begun>>
    PROVE  BaseInv'
<1> USE ThreadsAssumption, OpsAssumption
    DEF BaseInv, AllOps, TypeOK, HeldInv, AloneInv, Positions, V!Modes, Unlocked, Granted, Writing,
        UnderDevice, Shared, Unmounting, Syncing, HaveWrite, Exclusive, Bare, Getting, SyncAttrs, Return, drive, Goto,
        V!AcquireRead, V!AcquireWrite, V!Release
<1>1. CASE Goto(t, "gl_wait", "gl_lock")
  BY <1>1 DEF ltfs_get_volume_lock
<1>2. CASE Goto(t, "gl_lock", "gl_check")
  BY <1>2 DEF ltfs_get_volume_lock
<1>3. CASE pc[t] = "gl_check" /\ reval # "ok"
  BY <1>3 DEF ltfs_get_volume_lock
<1>4. CASE pc[t] = "gl_check" /\ reval = "ok"
  BY <1>4 DEF ltfs_get_volume_lock, First
<1>5. QED
  BY <1>1, <1>2, <1>3, <1>4 DEF ltfs_get_volume_lock

(* ltfs_sync_index gives up the read lock whatever it finds. *)
LEMMA SyncPeekBase ==
    ASSUME NEW t \in Threads, BaseInv, SyncPeek(t)
    PROVE  BaseInv'
<1> USE ThreadsAssumption, OpsAssumption
    DEF BaseInv, AllOps, TypeOK, HeldInv, AloneInv, Positions, V!Modes, Unlocked, Granted, Writing,
        UnderDevice, Shared, Unmounting, Syncing, HaveWrite, Exclusive, Bare, Getting, SyncAttrs, Return, drive, Goto,
        V!Release
<1>1. TypeOK'
  BY DEF SyncPeek
<1>2. HeldInv'
  BY DEF SyncPeek
<1>3. AloneInv'
  BY DEF SyncPeek
<1>4. QED
  BY <1>1, <1>2, <1>3

(* tape_device_lock: only a free device that is not fenced is taken. *)
LEMMA DeviceLockBase ==
    ASSUME NEW t \in Threads, BaseInv, tape_device_lock(t)
    PROVE  BaseInv'
<1> USE ThreadsAssumption, OpsAssumption
    DEF BaseInv, AllOps, TypeOK, HeldInv, AloneInv, Positions, V!Modes, Unlocked, Granted, Writing,
        UnderDevice, Shared, Unmounting, Syncing, HaveWrite, Exclusive, Bare, Getting, SyncAttrs, Return, drive, Goto,
        V!Downgrade
<1>1. CASE ~fence
  BY <1>1 DEF tape_device_lock, Waits, SecondIndex
<1>2. CASE fence
  BY <1>2 DEF tape_device_lock, Waits, SecondIndex
<1>3. QED
  BY <1>1, <1>2 DEF tape_device_lock, Waits, SecondIndex

(* The writer downgrades its lock under the device lock. *)
LEMMA WriteIndexBase ==
    ASSUME NEW t \in Threads, BaseInv, WriteIndexConditional(t)
    PROVE  BaseInv'
<1> USE ThreadsAssumption, OpsAssumption
    DEF BaseInv, AllOps, TypeOK, HeldInv, AloneInv, Positions, V!Modes, Unlocked, Granted, Writing,
        UnderDevice, Shared, Unmounting, Syncing, HaveWrite, Exclusive, Bare, Getting, SyncAttrs, Return, drive, Goto,
        V!Downgrade, Command
<1>1. TypeOK'
  <2>1. fence' \in BOOLEAN /\ unverified' \in BOOLEAN
    BY DEF WriteIndexConditional
  <2>2. ret' \in [Threads -> {"ok", "failed", "fenced", "reset", "move"}]
    BY DEF WriteIndexConditional
  <2>3. attention' \in {"none", "reset", "move"} /\ tape' \in {"same", "other"}
    BY DEF WriteIndexConditional
  <2>4. pc' \in [Threads -> Positions] /\ vlock' \in [Threads -> V!Modes]
    BY DEF WriteIndexConditional
  <2>5. QED
    BY <2>1, <2>2, <2>3, <2>4 DEF WriteIndexConditional
<1>2. HeldInv'
  BY DEF WriteIndexConditional
<1>3. AloneInv'
  BY DEF WriteIndexConditional
<1>4. QED
  BY <1>1, <1>2, <1>3

(* The commands of an operation change no lock. *)
LEMMA CommandsBase ==
    ASSUME NEW t \in Threads, BaseInv, Commands(t)
    PROVE  BaseInv'
<1> USE ThreadsAssumption, OpsAssumption
    DEF BaseInv, AllOps, TypeOK, HeldInv, AloneInv, Positions, V!Modes, Unlocked, Granted, Writing,
        UnderDevice, Shared, Unmounting, Syncing, HaveWrite, Exclusive, Bare, Getting, SyncAttrs, Return, drive, Goto,
        Command, Fences
<1>1. TypeOK'
  BY DEF Commands
<1>2. HeldInv'
  BY DEF Commands
<1>3. AloneInv'
  BY DEF Commands
<1>4. QED
  BY <1>1, <1>2, <1>3

(* tape_device_unlock frees the device. *)
LEMMA DeviceUnlockBase ==
    ASSUME NEW t \in Threads, BaseInv, tape_device_unlock(t)
    PROVE  BaseInv'
<1> USE ThreadsAssumption, OpsAssumption
    DEF BaseInv, AllOps, TypeOK, HeldInv, AloneInv, Positions, V!Modes, Unlocked, Granted, Writing,
        UnderDevice, Shared, Unmounting, Syncing, HaveWrite, Exclusive, Bare, Getting, SyncAttrs, Return, drive, Goto
<1>1. TypeOK'
  BY DEF tape_device_unlock, Reported, SecondIndex
<1>2. HeldInv'
  BY DEF tape_device_unlock, Reported, SecondIndex
<1>3. AloneInv'
  BY DEF tape_device_unlock, Reported, SecondIndex
<1>4. QED
  BY <1>1, <1>2, <1>3

(* A command without the device lock changes no lock. *)
LEMMA BareCommandBase ==
    ASSUME NEW t \in Threads, BaseInv, BareCommand(t)
    PROVE  BaseInv'
<1> USE ThreadsAssumption, OpsAssumption
    DEF BaseInv, AllOps, TypeOK, HeldInv, AloneInv, Positions, V!Modes, Unlocked, Granted, Writing,
        UnderDevice, Shared, Unmounting, Syncing, HaveWrite, Exclusive, Bare, Getting, SyncAttrs, Return, drive, Goto,
        Command, Reported
<1>1. TypeOK'
  BY DEF BareCommand
<1>2. HeldInv'
  BY DEF BareCommand
<1>3. AloneInv'
  BY DEF BareCommand
<1>4. QED
  BY <1>1, <1>2, <1>3

(* Only reading a log page or the MAM can free a device that another has. *)
LEMMA StrayDeviceUnlockBase ==
    ASSUME NEW t \in Threads, BaseInv, StrayDeviceUnlock(t)
    PROVE  BaseInv'
<1> USE ThreadsAssumption, OpsAssumption
    DEF BaseInv, AllOps, TypeOK, HeldInv, AloneInv, Positions, V!Modes, Unlocked, Granted, Writing,
        UnderDevice, Shared, Unmounting, Syncing, HaveWrite, Exclusive, Bare, Getting, SyncAttrs, Return, drive, Goto,
        Reported
<1>1. TypeOK'
  BY DEF StrayDeviceUnlock
<1>2. HeldInv'
  BY DEF StrayDeviceUnlock
<1>3. AloneInv'
  BY DEF StrayDeviceUnlock
<1>4. QED
  BY <1>1, <1>2, <1>3

(* A late failure changes no lock. *)
LEMMA LateFailureBase ==
    ASSUME NEW t \in Threads, BaseInv, LateFailure(t)
    PROVE  BaseInv'
<1> USE ThreadsAssumption, OpsAssumption
    DEF BaseInv, AllOps, TypeOK, HeldInv, AloneInv, Positions, V!Modes, Unlocked, Granted, Writing,
        UnderDevice, Shared, Unmounting, Syncing, HaveWrite, Exclusive, Bare, Getting, SyncAttrs, Return, drive, Goto
<1>1. TypeOK'
  BY DEF LateFailure, SecondIndex
<1>2. HeldInv'
  BY DEF LateFailure, SecondIndex
<1>3. AloneInv'
  BY DEF LateFailure, SecondIndex
<1>4. QED
  BY <1>1, <1>2, <1>3

(* An operation ends with the release of vol->lock. *)
LEMMA ReleaseVolumeBase ==
    ASSUME NEW t \in Threads, BaseInv, ReleaseVolume(t)
    PROVE  BaseInv'
<1> USE ThreadsAssumption, OpsAssumption
    DEF BaseInv, AllOps, TypeOK, HeldInv, AloneInv, Positions, V!Modes, Unlocked, Granted, Writing,
        UnderDevice, Shared, Unmounting, Syncing, HaveWrite, Exclusive, Bare, Getting, SyncAttrs, Return, drive, Goto,
        Release, V!Release
<1>1. TypeOK'
  BY DEF ReleaseVolume
<1>2. HeldInv'
  <2>1. pc[t] = "release" /\ pc' = [pc EXCEPT ![t] = "idle"] /\ UNCHANGED <<dev, op, ret>>
    BY DEF ReleaseVolume
  <2>2. vlock' = [vlock EXCEPT ![t] = "none"]
    BY DEF ReleaseVolume
  <2>3. stray' \subseteq Ops \cap (Getting \cup {"unmount"})
    <3>1. stray' = stray \/ (vlock[t] = "none" /\ stray' = stray \cup {op[t]})
      BY DEF ReleaseVolume
    <3>2. vlock[t] = "none" => op[t] \in Getting
      BY <2>1
    <3>3. op[t] \in Getting => op[t] \in Ops
      OBVIOUS
    <3>4. stray \subseteq Ops \cap (Getting \cup {"unmount"})
      OBVIOUS
    <3> HIDE DEF BaseInv, TypeOK, HeldInv, AloneInv, Getting
    <3>5. QED
      BY <3>1, <3>2, <3>3, <3>4
  <2>4. QED
    BY <2>1, <2>2, <2>3
<1>3. AloneInv'
  BY DEF ReleaseVolume
<1>4. QED
  BY <1>1, <1>2, <1>3

(* ltfs_wait_revalidation waits without the lock. *)
LEMMA WaitBase ==
    ASSUME NEW t \in Threads, BaseInv, ltfs_wait_revalidation(t),
           UNCHANGED <<reval, fence, dev, mounted, drive, begun>>
    PROVE  BaseInv'
<1> USE ThreadsAssumption, OpsAssumption
    DEF BaseInv, AllOps, TypeOK, HeldInv, AloneInv, Positions, V!Modes, Unlocked, Granted, Writing,
        UnderDevice, Shared, Unmounting, Syncing, HaveWrite, Exclusive, Bare, Getting, SyncAttrs, Return, drive, Goto,
        Release, V!Release, After
<1>1. CASE Goto(t, "wv_release", "wv_wait")
  BY <1>1 DEF ltfs_wait_revalidation
<1>2. CASE pc[t] = "wv_wait"
  BY <1>2 DEF ltfs_wait_revalidation
<1>3. QED
  BY <1>1, <1>2 DEF ltfs_wait_revalidation

(* ltfs_revalidate exchanges the lock of its caller for the write lock and releases it. *)
LEMMA RevalidateBase ==
    ASSUME NEW t \in Threads, BaseInv, ltfs_revalidate(t),
           UNCHANGED <<dev, mounted, begun>>
    PROVE  BaseInv'
<1> USE ThreadsAssumption, OpsAssumption
    DEF BaseInv, AllOps, TypeOK, HeldInv, AloneInv, Positions, V!Modes, Unlocked, Granted, Writing,
        UnderDevice, Shared, Unmounting, Syncing, HaveWrite, Exclusive, Bare, Getting, SyncAttrs, Return, drive, Goto,
        Release, V!Release, V!AcquireWrite, After, Getting, Restart, CheckCartridge
<1>1. CASE pc[t] = "rv_start"
  BY <1>1 DEF ltfs_revalidate
<1>2. CASE Goto(t, "rv_release", "rv_acquire")
  BY <1>2 DEF ltfs_revalidate
<1>3. CASE Goto(t, "rv_acquire", "rv_body")
  BY <1>3 DEF ltfs_revalidate
<1>4. CASE Goto(t, "rv_body", "rv_fence")
  BY <1>4 DEF ltfs_revalidate
<1>5. CASE Goto(t, "rv_fence", "rv_result")
  <2>1. fence' \in BOOLEAN
    BY <1>5 DEF ltfs_revalidate
  <2>2. TypeOK'
    BY <1>5, <2>1 DEF ltfs_revalidate
  <2>3. HeldInv'
    BY <1>5 DEF ltfs_revalidate
  <2>4. AloneInv'
    BY <1>5 DEF ltfs_revalidate
  <2>5. QED
    BY <2>2, <2>3, <2>4
<1>6. CASE Goto(t, "rv_result", "rv_unlock")
  BY <1>6 DEF ltfs_revalidate
<1>7. CASE pc[t] = "rv_unlock"
  BY <1>7 DEF ltfs_revalidate
<1>8. QED
  BY <1>1, <1>2, <1>3, <1>4, <1>5, <1>6, <1>7 DEF ltfs_revalidate

(* ltfs_unmount holds the write lock, except after a revalidation. *)
LEMMA UnmountBase ==
    ASSUME NEW t \in Threads, BaseInv, ltfs_unmount(t),
           UNCHANGED <<dev, op, mounted, begun>>
    PROVE  BaseInv'
<1> USE ThreadsAssumption, OpsAssumption
    DEF BaseInv, AllOps, TypeOK, HeldInv, AloneInv, Positions, V!Modes, Unlocked, Granted, Writing,
        UnderDevice, Shared, Unmounting, Syncing, HaveWrite, Exclusive, Bare, Getting, SyncAttrs, Return, drive, Goto,
        Release, V!Release, Command
<1>1. CASE pc[t] = "um_status"
  BY <1>1 DEF ltfs_unmount
<1>2. CASE pc[t] = "um_index"
  <2>1. fence' \in BOOLEAN /\ unverified' \in BOOLEAN
    BY <1>2 DEF ltfs_unmount
  <2>2. TypeOK'
    BY <1>2, <2>1 DEF ltfs_unmount
  <2>3. HeldInv'
    BY <1>2 DEF ltfs_unmount
  <2>4. AloneInv'
    BY <1>2 DEF ltfs_unmount
  <2>5. QED
    BY <2>2, <2>3, <2>4
<1>3. CASE pc[t] = "um_after"
  BY <1>3 DEF ltfs_unmount
<1>4. CASE pc[t] = "um_end"
  <2>1. fence' \in BOOLEAN
    BY <1>4 DEF ltfs_unmount
  <2>2. TypeOK'
    BY <1>4, <2>1 DEF ltfs_unmount
  <2>3. HeldInv'
    BY <1>4 DEF ltfs_unmount
  <2>4. AloneInv'
    BY <1>4 DEF ltfs_unmount
  <2>5. QED
    BY <2>2, <2>3, <2>4
<1>5. QED
  BY <1>1, <1>2, <1>3, <1>4 DEF ltfs_unmount

(* An event of the drive changes no lock. *)
LEMMA EventBase == BaseInv /\ Event => BaseInv'
BY EventsAssumption DEF BaseInv, TypeOK, HeldInv, AloneInv, Event

(* Locks are held as HeldInv says, whatever the operations are. *)
LEMMA NextBase == BaseInv /\ [Next]_vars => BaseInv'
<1> SUFFICES ASSUME BaseInv, [Next]_vars PROVE BaseInv'
  OBVIOUS
<1>1. CASE UNCHANGED vars
  BY <1>1 DEF BaseInv, TypeOK, HeldInv, AloneInv, vars
<1>2. CASE Event
  BY <1>2, EventBase
<1>3. ASSUME NEW t \in Threads, Begin(t) PROVE BaseInv'
  BY <1>3, BeginBase
<1>4. ASSUME NEW t \in Threads, Step(t) PROVE BaseInv'
  BY <1>4, GetVolumeLockBase, SyncPeekBase, DeviceLockBase, WriteIndexBase, CommandsBase,
     BareCommandBase, StrayDeviceUnlockBase, DeviceUnlockBase, LateFailureBase, ReleaseVolumeBase, WaitBase, RevalidateBase, UnmountBase
     DEF Step
<1>5. QED
  BY <1>1, <1>2, <1>3, <1>4 DEF Next, Done

---------------------------------------------------------------------------
(* One revalidation at a time: every function preserves HandleInv, as long *)
(* as no operation is Unfenced.                                            *)

(* What is left are these operations; they hold the device lock at the     *)
(* device, but for ltfs_unmount, which is alone, and for quiet ones, which *)
(* do not look at what the drive reports.                                  *)
LEMMA FencedOps ==
    ASSUME BaseInv, Ops \cap Unfenced = {}, NEW t \in Threads
    PROVE  /\ op[t] \in {"none", "sync", "sync_w", "read", "query", "write", "unmount",
                         "syncattr", "setxattr", "getxattr", "quiet"}
           /\ pc[t] = "bare" => op[t] = "quiet"
           /\ pc[t] # "bare_undev"
           /\ dev = t <=> pc[t] \in UnderDevice
<1>1. /\ Ops \subseteq AllOps \ Unfenced
      /\ "logpage" \notin Ops /\ "lockstate" \notin Ops
  BY OpsAssumption DEF Unfenced
<1>2. op[t] \in {"none", "sync", "sync_w", "read", "query", "write", "unmount",
                 "syncattr", "setxattr", "getxattr", "quiet"}
  BY <1>1 DEF BaseInv, TypeOK, HeldInv, AllOps, Unfenced
<1>3. QED
  BY <1>1, <1>2 DEF BaseInv, HeldInv, Bare

(* While a thread handles a reset, the fence or its write lock keeps all   *)
(* others from the device.                                                 *)
LEMMA HandlingExcludes ==
    ASSUME BaseInv, HandleInv, Ops \cap Unfenced = {}, NEW t \in Threads, Handling(t),
           NEW u \in Threads, pc[u] \in {"index", "cmd"}
    PROVE  FALSE
<1> USE FencedOps
<1>1. vlock[t] = "write" \/ fence
  BY DEF BaseInv, TypeOK, HeldInv, HandleInv, Handling, HaveWrite, Unlocked, Writing
<1>2. ~fence /\ vlock[u] # "none" /\ u # t
  BY DEF BaseInv, TypeOK, HeldInv, HandleInv, Handling, UnderDevice, Unlocked
<1>3. QED
  BY <1>1, <1>2 DEF BaseInv, HeldInv

(* An operation that begins has been told of nothing. *)
LEMMA BeginHandle ==
    ASSUME NEW t \in Threads, BaseInv, HandleInv, Ops \cap Unfenced = {}, Begin(t)
    PROVE  HandleInv'
BY FencedOps DEF BaseInv, TypeOK, HeldInv, HandleInv, Handling, Positions, V!Modes, Unlocked, Writing,
       UnderDevice, Shared, Unmounting, Syncing, HaveWrite, Return, drive, Goto, Begin

(* ltfs_get_volume_lock only reads vol->reval. *)
LEMMA GetVolumeLockHandle ==
    ASSUME NEW t \in Threads, BaseInv, HandleInv, Ops \cap Unfenced = {}, ltfs_get_volume_lock(t),
           UNCHANGED <<fence, dev, mounted, drive, stray, begun>>
    PROVE  HandleInv'
<1> USE FencedOps DEF BaseInv, TypeOK, HeldInv, HandleInv, Handling, Positions, V!Modes, Unlocked, Writing,
        UnderDevice, Shared, Unmounting, Syncing, HaveWrite, Return, drive, Goto,
        V!AcquireRead, V!AcquireWrite, V!Release, Exclusive
<1>1. CASE Goto(t, "gl_wait", "gl_lock")
  BY <1>1 DEF ltfs_get_volume_lock
<1>2. CASE Goto(t, "gl_lock", "gl_check")
  BY <1>2 DEF ltfs_get_volume_lock
<1>3. CASE pc[t] = "gl_check" /\ reval # "ok"
  BY <1>3 DEF ltfs_get_volume_lock
<1>4. CASE pc[t] = "gl_check" /\ reval = "ok"
  BY <1>4 DEF ltfs_get_volume_lock, First
<1>5. QED
  BY <1>1, <1>2, <1>3, <1>4 DEF ltfs_get_volume_lock

(* The peek of ltfs_sync_index does not use the device. *)
LEMMA SyncPeekHandle ==
    ASSUME NEW t \in Threads, BaseInv, HandleInv, Ops \cap Unfenced = {}, SyncPeek(t)
    PROVE  HandleInv'
BY FencedOps DEF BaseInv, TypeOK, HeldInv, HandleInv, Handling, Positions, V!Modes, Unlocked, Writing,
       UnderDevice, Shared, Unmounting, Syncing, HaveWrite, Return, drive, Goto, V!Release, SyncPeek

(* Nobody passes a fence. *)
LEMMA DeviceLockHandle ==
    ASSUME NEW t \in Threads, BaseInv, HandleInv, Ops \cap Unfenced = {}, tape_device_lock(t)
    PROVE  HandleInv'
<1> USE FencedOps DEF BaseInv, TypeOK, HeldInv, HandleInv, Handling, Positions, V!Modes, Unlocked, Writing,
        UnderDevice, Shared, Unmounting, Syncing, HaveWrite, Return, drive, Goto,
        V!Downgrade, Waits, SecondIndex
<1>1. CASE ~fence
  BY <1>1 DEF tape_device_lock
<1>2. CASE fence
  BY <1>2 DEF tape_device_lock
<1>3. QED
  BY <1>1, <1>2 DEF tape_device_lock

(* A writer that is told of a reset sets the fence before it lets go of the device. *)
LEMMA WriteIndexHandle ==
    ASSUME NEW t \in Threads, BaseInv, HandleInv, Ops \cap Unfenced = {}, WriteIndexConditional(t)
    PROVE  HandleInv'
<1>1. /\ pc[t] = "index" /\ op[t] = "write"
      /\ pc' = [pc EXCEPT ![t] = "undev"] \/ (ret'[t] # "reset" /\ pc' = [pc EXCEPT ![t] = "cmd"])
      /\ ret' = [ret EXCEPT ![t] = ret'[t]] /\ op' = op
      /\ reval' # "ok" \/ reval' = reval
  BY DEF WriteIndexConditional, Command, Return, drive, BaseInv, TypeOK, HeldInv
<1>2. fence' <=> (fence \/ ret'[t] = "reset")
  BY DEF WriteIndexConditional
<1>3. \A u \in Threads : ~Handling(u)
  BY <1>1, HandlingExcludes
<1>4. ~fence /\ \A u \in Threads : pc[u] \in UnderDevice => u = t
  BY <1>1, <1>3, FencedOps DEF BaseInv, TypeOK, HeldInv, HandleInv, UnderDevice
<1>5. QED
  BY <1>1, <1>2, <1>3, <1>4 DEF HandleInv, Handling, HaveWrite, UnderDevice, BaseInv, TypeOK

(* So does every operation that has no write lock. *)
LEMMA CommandsHandle ==
    ASSUME NEW t \in Threads, BaseInv, HandleInv, Ops \cap Unfenced = {}, Commands(t)
    PROVE  HandleInv'
<1>1. /\ pc[t] = "cmd" /\ pc' = [pc EXCEPT ![t] = "undev"]
      /\ ret' = [ret EXCEPT ![t] = ret'[t]] /\ op' = op
      /\ reval' # "ok" \/ reval' = reval
  BY DEF Commands, Command, Return, Goto, BaseInv, TypeOK
<1>2. fence' <=> (fence \/ (ret'[t] = "reset" /\ Fences(op[t])))
  BY DEF Commands
<1>3. Fences(op[t]) \/ HaveWrite(op[t])
  <2>1. op[t] \notin {"none", "sync", "unmount", "quiet"}
    BY <1>1 DEF BaseInv, HeldInv, UnderDevice, Shared, Syncing
  <2>2. QED
    BY <2>1, FencedOps DEF Fences, HaveWrite
<1>4. \A u \in Threads : ~Handling(u)
  BY <1>1, HandlingExcludes
<1>5. ~fence /\ \A u \in Threads : pc[u] \in UnderDevice => u = t
  BY <1>1, <1>4, FencedOps DEF BaseInv, TypeOK, HeldInv, HandleInv, UnderDevice
<1>6. QED
  BY <1>1, <1>2, <1>3, <1>4, <1>5 DEF HandleInv, Handling, UnderDevice, BaseInv, TypeOK

(* A quiet operation is told of a reset and does nothing. *)
LEMMA BareCommandHandle ==
    ASSUME NEW t \in Threads, BaseInv, HandleInv, Ops \cap Unfenced = {}, BareCommand(t)
    PROVE  HandleInv'
<1>1. /\ pc[t] = "bare" /\ pc' = [pc EXCEPT ![t] = "release"]
      /\ ret' = [ret EXCEPT ![t] = ret'[t]]
      /\ UNCHANGED <<op, fence, reval>>
  <2>1. pc[t] = "bare" /\ op[t] = "quiet"
    BY FencedOps DEF BareCommand, Goto
  <2>2. QED
    BY <2>1 DEF BareCommand, Command, Return, Goto, BaseInv, TypeOK
<1>2. QED
  BY <1>1, FencedOps DEF HandleInv, Handling, UnderDevice, BaseInv, TypeOK

(* The thread that was told goes to ltfs_revalidate. *)
LEMMA DeviceUnlockHandle ==
    ASSUME NEW t \in Threads, BaseInv, HandleInv, Ops \cap Unfenced = {}, tape_device_unlock(t)
    PROVE  HandleInv'
BY FencedOps DEF BaseInv, TypeOK, HeldInv, HandleInv, Handling, Positions, V!Modes, Unlocked, Writing,
       UnderDevice, Shared, Unmounting, Syncing, HaveWrite, Return, drive, Goto, Reported, tape_device_unlock

(* A late failure is not "ok" either. *)
LEMMA LateFailureHandle ==
    ASSUME NEW t \in Threads, BaseInv, HandleInv, Ops \cap Unfenced = {}, LateFailure(t)
    PROVE  HandleInv'
BY FencedOps DEF BaseInv, TypeOK, HeldInv, HandleInv, Handling, Positions, V!Modes, Unlocked, Writing,
       UnderDevice, Shared, Unmounting, Syncing, HaveWrite, Return, drive, Goto, SecondIndex, LateFailure

(* The end of an operation. *)
LEMMA ReleaseVolumeHandle ==
    ASSUME NEW t \in Threads, BaseInv, HandleInv, Ops \cap Unfenced = {}, ReleaseVolume(t)
    PROVE  HandleInv'
BY FencedOps DEF BaseInv, TypeOK, HeldInv, HandleInv, Handling, Positions, V!Modes, Unlocked, Writing,
       UnderDevice, Shared, Unmounting, Syncing, HaveWrite, Return, drive, Goto, Release, V!Release, ReleaseVolume

(* A waiting thread leaves the result alone. *)
LEMMA WaitHandle ==
    ASSUME NEW t \in Threads, BaseInv, HandleInv, Ops \cap Unfenced = {}, ltfs_wait_revalidation(t),
           UNCHANGED <<reval, fence, dev, mounted, drive, begun>>
    PROVE  HandleInv'
<1> USE FencedOps DEF BaseInv, TypeOK, HeldInv, HandleInv, Handling, Positions, V!Modes, Unlocked, Writing,
        UnderDevice, Shared, Unmounting, Syncing, HaveWrite, Return, drive, Goto,
        Release, V!Release, After, Getting
<1>1. CASE Goto(t, "wv_release", "wv_wait")
  BY <1>1 DEF ltfs_wait_revalidation
<1>2. CASE pc[t] = "wv_wait"
  BY <1>2 DEF ltfs_wait_revalidation
<1>3. QED
  BY <1>1, <1>2 DEF ltfs_wait_revalidation

(* The fence falls when the revalidating thread has the write lock. *)
LEMMA RevalidateHandle ==
    ASSUME NEW t \in Threads, BaseInv, HandleInv, Ops \cap Unfenced = {}, ltfs_revalidate(t),
           UNCHANGED <<dev, mounted, begun>>
    PROVE  HandleInv'
<1> USE FencedOps DEF BaseInv, TypeOK, HeldInv, HandleInv, Handling, Positions, V!Modes, Unlocked, Writing,
        UnderDevice, Shared, Unmounting, Syncing, HaveWrite, Return, drive, Goto,
        Release, V!Release, V!AcquireWrite, After, Getting, Restart, CheckCartridge
<1>1. CASE pc[t] = "rv_start"
  BY <1>1 DEF ltfs_revalidate
<1>2. CASE Goto(t, "rv_release", "rv_acquire")
  BY <1>2 DEF ltfs_revalidate
<1>3. CASE Goto(t, "rv_acquire", "rv_body")
  BY <1>3 DEF ltfs_revalidate
<1>4. CASE Goto(t, "rv_body", "rv_fence")
  BY <1>4 DEF ltfs_revalidate
<1>5. CASE Goto(t, "rv_fence", "rv_result")
  BY <1>5 DEF ltfs_revalidate
<1>6. CASE Goto(t, "rv_result", "rv_unlock")
  BY <1>6 DEF ltfs_revalidate
<1>7. CASE pc[t] = "rv_unlock"
  BY <1>7 DEF ltfs_revalidate
<1>8. QED
  BY <1>1, <1>2, <1>3, <1>4, <1>5, <1>6, <1>7 DEF ltfs_revalidate

(* ltfs_unmount has nobody beside it. *)
LEMMA UnmountHandle ==
    ASSUME NEW t \in Threads, BaseInv, HandleInv, Ops \cap Unfenced = {}, ltfs_unmount(t),
           UNCHANGED <<dev, op, mounted, begun>>
    PROVE  HandleInv'
<1> USE FencedOps DEF BaseInv, TypeOK, HeldInv, HandleInv, Handling, Positions, V!Modes, Unlocked, Writing,
        UnderDevice, Shared, Unmounting, Syncing, HaveWrite, Return, drive, Goto,
        Release, V!Release, Command, AloneInv
<1>1. CASE pc[t] = "um_status"
  BY <1>1 DEF ltfs_unmount
<1>2. CASE pc[t] = "um_index"
  BY <1>2 DEF ltfs_unmount
<1>3. CASE pc[t] = "um_after"
  BY <1>3 DEF ltfs_unmount
<1>4. CASE pc[t] = "um_end"
  BY <1>4 DEF ltfs_unmount
<1>5. QED
  BY <1>1, <1>2, <1>3, <1>4 DEF ltfs_unmount

(* Together: the revalidating threads are one at a time. *)
LEMMA NextHandle ==
    ASSUME Ops \cap Unfenced = {}
    PROVE  BaseInv /\ HandleInv /\ [Next]_vars => HandleInv'
<1> SUFFICES ASSUME BaseInv, HandleInv, [Next]_vars PROVE HandleInv'
  OBVIOUS
<1>1. CASE UNCHANGED vars
  BY <1>1 DEF HandleInv, Handling, vars
<1>2. CASE Event
  BY <1>2 DEF HandleInv, Handling, Event
<1>3. ASSUME NEW t \in Threads, Begin(t) PROVE HandleInv'
  BY <1>3, BeginHandle
<1>4. ASSUME NEW t \in Threads, Step(t) PROVE HandleInv'
  <2>1. ~StrayDeviceUnlock(t)
    BY FencedOps DEF StrayDeviceUnlock, Goto
  <2>2. QED
    BY <1>4, <2>1, GetVolumeLockHandle, SyncPeekHandle, DeviceLockHandle, WriteIndexHandle, CommandsHandle,
       BareCommandHandle, DeviceUnlockHandle, LateFailureHandle, ReleaseVolumeHandle, WaitHandle,
       RevalidateHandle, UnmountHandle
       DEF Step
<1>5. QED
  BY <1>1, <1>2, <1>3, <1>4 DEF Next, Done

---------------------------------------------------------------------------
(* No command on another cartridge: every function preserves TapeInv, as   *)
(* long as no operation is Unfenced and none Drops a report.               *)

(* A step that leaves the drive alone preserves it if every thread that    *)
(* handles a reset goes on doing so, and no thread comes to the device     *)
(* after the cartridge has been rejected.                                  *)
LEMMA QuietTape ==
    ASSUME TapeInv, UNCHANGED drive,
           \A u \in Threads : Handling(u) => Handling(u)' /\ ret'[u] = ret[u] /\ pc'[u] = pc[u],
           reval = "failed" => /\ reval' = "failed"
                               /\ \A u \in Threads :
                                    /\ Handling(u)' => Handling(u)
                                    /\ pc'[u] \in {"peek", "dev", "index", "cmd"} => pc[u] \in {"peek", "dev", "index", "cmd"}
    PROVE  TapeInv'
BY DEF TapeInv, drive

(* An operation begins. *)
LEMMA BeginTape ==
    ASSUME NEW t \in Threads, BaseInv, HandleInv, TapeInv, Ops \cap Unfenced = {}, Begin(t)
    PROVE  TapeInv'
BY QuietTape, FencedOps DEF BaseInv, TypeOK, HeldInv, Handling, Return, Goto, drive, Begin

(* vol->reval is looked at under the lock: a rejected cartridge stops the operation here. *)
LEMMA GetVolumeLockTape ==
    ASSUME NEW t \in Threads, BaseInv, HandleInv, TapeInv, Ops \cap Unfenced = {}, ltfs_get_volume_lock(t),
           UNCHANGED <<fence, dev, mounted, drive, stray, begun>>
    PROVE  TapeInv'
BY QuietTape, FencedOps DEF BaseInv, TypeOK, HeldInv, Handling, Return, Goto, drive, First, Bare, SyncAttrs, ltfs_get_volume_lock

(* The peek does not use the device. *)
LEMMA SyncPeekTape ==
    ASSUME NEW t \in Threads, BaseInv, HandleInv, TapeInv, Ops \cap Unfenced = {}, SyncPeek(t)
    PROVE  TapeInv'
BY QuietTape, FencedOps DEF BaseInv, TypeOK, HeldInv, Handling, Return, Goto, drive, SyncPeek

(* The device is taken by operations that were let in before. *)
LEMMA DeviceLockTape ==
    ASSUME NEW t \in Threads, BaseInv, HandleInv, TapeInv, Ops \cap Unfenced = {}, tape_device_lock(t)
    PROVE  TapeInv'
BY QuietTape, FencedOps DEF BaseInv, TypeOK, HeldInv, Handling, Return, Goto, drive, Waits, SecondIndex, tape_device_lock

(* A late failure rejects the cartridge once more. *)
LEMMA LateFailureTape ==
    ASSUME NEW t \in Threads, BaseInv, HandleInv, TapeInv, Ops \cap Unfenced = {}, LateFailure(t)
    PROVE  TapeInv'
BY QuietTape, FencedOps DEF BaseInv, TypeOK, HeldInv, Handling, Return, Goto, drive, SecondIndex, LateFailure

(* The end of an operation. *)
LEMMA ReleaseVolumeTape ==
    ASSUME NEW t \in Threads, BaseInv, HandleInv, TapeInv, Ops \cap Unfenced = {}, ReleaseVolume(t)
    PROVE  TapeInv'
BY QuietTape, FencedOps DEF BaseInv, TypeOK, HeldInv, Handling, Return, Goto, drive, ReleaseVolume

(* Waiting for the outcome. *)
LEMMA WaitTape ==
    ASSUME NEW t \in Threads, BaseInv, HandleInv, TapeInv, Ops \cap Unfenced = {}, ltfs_wait_revalidation(t),
           UNCHANGED <<reval, fence, dev, mounted, drive, begun>>
    PROVE  TapeInv'
BY QuietTape, FencedOps DEF BaseInv, TypeOK, HeldInv, Handling, Return, Goto, drive, After, Getting, ltfs_wait_revalidation

(* A thread at the device meets another cartridge only together with the   *)
(* report of the reset.                                                    *)
LEMMA CommandSeesReset ==
    ASSUME BaseInv, HandleInv, TapeInv, Ops \cap Unfenced = {}, NEW t \in Threads, pc[t] \in {"index", "cmd"}, tape = "other"
    PROVE  attention = "reset"
<1>1. \A u \in Threads : ~Handling(u)
  BY HandlingExcludes
<1>2. QED
  BY <1>1 DEF TapeInv

(* The writer is told of the reset with its index, and handles it. *)
LEMMA WriteIndexTape ==
    ASSUME NEW t \in Threads, BaseInv, HandleInv, TapeInv, Ops \cap Unfenced = {}, WriteIndexConditional(t)
    PROVE  TapeInv'
<1>1. pc[t] = "index"
  BY DEF WriteIndexConditional
<1>2. tape = "other" => attention = "reset"
  BY <1>1, CommandSeesReset
<1>3. CASE UNCHANGED drive
  BY <1>2, <1>3 DEF TapeInv, drive
<1>4. CASE Command(t)
  <2>1. ~unverified'
    BY <1>2, <1>4 DEF Command, TapeInv
  <2>2. ASSUME tape' = "other" PROVE Handling(t)' /\ pc'[t] = "undev"
    <3>1. ret'[t] = "reset"
      BY <1>2, <1>4, <2>2 DEF Command, Return, BaseInv, TypeOK
    <3>2. QED
      BY <3>1 DEF WriteIndexConditional, Handling, BaseInv, TypeOK
  <2>3. QED
    BY <2>1, <2>2 DEF TapeInv
<1>5. QED
  BY <1>3, <1>4 DEF WriteIndexConditional

(* So is every other operation. *)
LEMMA CommandsTape ==
    ASSUME NEW t \in Threads, BaseInv, HandleInv, TapeInv, Ops \cap Unfenced = {}, Commands(t)
    PROVE  TapeInv'
<1>1. pc[t] = "cmd" /\ pc' = [pc EXCEPT ![t] = "undev"] /\ Command(t)
  BY DEF Commands, Goto
<1>2. tape = "other" => attention = "reset"
  BY <1>1, CommandSeesReset
<1>3. ~unverified'
  BY <1>1, <1>2 DEF Command, TapeInv
<1>4. ASSUME tape' = "other" PROVE Handling(t)' /\ pc'[t] = "undev"
  BY <1>1, <1>2, <1>4 DEF Command, Return, Handling, BaseInv, TypeOK
<1>5. QED
  BY <1>3, <1>4 DEF TapeInv

(* A thread that was told starts the revalidation. *)
LEMMA DeviceUnlockTape ==
    ASSUME NEW t \in Threads, BaseInv, HandleInv, TapeInv, Ops \cap Unfenced = {}, tape_device_unlock(t)
    PROVE  TapeInv'
BY FencedOps DEF BaseInv, TypeOK, Handling, TapeInv, Goto, drive, Reported, tape_device_unlock

(* The check rejects another cartridge, and the result is published under  *)
(* the write lock, when nobody else is on the way to the device.           *)
LEMMA RevalidateTape ==
    ASSUME NEW t \in Threads, BaseInv, HandleInv, TapeInv, Ops \cap Unfenced = {}, ltfs_revalidate(t)
    PROVE  TapeInv'
<1> USE FencedOps DEF BaseInv, TypeOK, Handling, TapeInv, HandleInv, Goto, drive
<1>1. CASE pc[t] = "rv_start"
  BY <1>1 DEF ltfs_revalidate
<1>2. CASE Goto(t, "rv_release", "rv_acquire")
  BY <1>2 DEF ltfs_revalidate
<1>3. CASE Goto(t, "rv_acquire", "rv_body")
  BY <1>3 DEF ltfs_revalidate
<1>4. CASE Goto(t, "rv_body", "rv_fence")
  BY <1>4 DEF ltfs_revalidate, CheckCartridge, Return
<1>5. CASE Goto(t, "rv_fence", "rv_result")
  BY <1>5 DEF ltfs_revalidate
<1>6. CASE Goto(t, "rv_result", "rv_unlock")
  <2>1. \A u \in Threads \ {t} : ~Handling(u) /\ pc[u] \notin {"peek", "dev", "index", "cmd"}
    BY <1>6 DEF HeldInv, Writing, Unlocked
  <2>2. reval' = ret[t] /\ UNCHANGED <<ret, drive>>
    BY <1>6 DEF ltfs_revalidate
  <2>3. QED
    BY <1>6, <2>1, <2>2
<1>7. CASE pc[t] = "rv_unlock"
  BY <1>7 DEF ltfs_revalidate, After, Getting
<1>8. QED
  BY <1>1, <1>2, <1>3, <1>4, <1>5, <1>6, <1>7 DEF ltfs_revalidate

(* Another cartridge comes with a reset, and the report of a reset is not  *)
(* lost to a later request for the cartridge.                              *)
LEMMA EventTape == BaseInv /\ TapeInv /\ Event => TapeInv'
BY EventsAssumption DEF BaseInv, TypeOK, TapeInv, Handling, Event

(* Together: another cartridge is known of or rejected. *)
LEMMA NextTape ==
    ASSUME Ops \cap (Unfenced \cup Drops) = {}
    PROVE  BaseInv /\ HandleInv /\ TapeInv /\ [Next]_vars => TapeInv'
<1> SUFFICES ASSUME BaseInv, HandleInv, TapeInv, [Next]_vars PROVE TapeInv'
  OBVIOUS
<1>1. CASE UNCHANGED vars
  BY <1>1 DEF TapeInv, Handling, vars
<1>2. CASE Event
  BY <1>2, EventTape
<1>3. ASSUME NEW t \in Threads, Begin(t) PROVE TapeInv'
  BY <1>3, BeginTape
<1>4. ASSUME NEW t \in Threads, Step(t) PROVE TapeInv'
  <2>1. Ops \cap Unfenced = {}
    OBVIOUS
  <2>2. op[t] \notin {"unmount", "quiet"}
    BY <2>1 DEF BaseInv, TypeOK, Drops
  <2>3. ~ltfs_unmount(t) /\ ~BareCommand(t) /\ ~StrayDeviceUnlock(t)
    BY <2>1, <2>2, FencedOps
       DEF ltfs_unmount, BareCommand, StrayDeviceUnlock, Goto, BaseInv, HeldInv, Unmounting
  <2>4. QED
    BY <1>4, <2>1, <2>3, GetVolumeLockTape, SyncPeekTape, DeviceLockTape, WriteIndexTape, CommandsTape,
       DeviceUnlockTape, LateFailureTape, ReleaseVolumeTape, WaitTape, RevalidateTape
       DEF Step
<1>5. QED
  BY <1>1, <1>2, <1>3, <1>4 DEF Next, Done

---------------------------------------------------------------------------
(* The theorems.  Each one excludes exactly the operations whose code does *)
(* not do what it says.                                                    *)

(* Whatever the operations are, the variables have their types and locks   *)
(* are held as the positions of the threads say.                           *)
THEOREM LocksHeld == Spec => []BaseInv
<1>1. Init => BaseInv
  BY InitAll
<1>2. QED
  BY <1>1, NextBase, PTL DEF Spec

(* Every path through ltfs_revalidate and ltfs_wait_revalidation leaves    *)
(* the caller without the lock exactly when the caller does not release    *)
(* it; only ltfs_fsops_getxattr and ltfs_unmount get this wrong.           *)
THEOREM LocksReleasedByHolder ==
    ASSUME Ops \cap (Getting \cup {"unmount"}) = {}
    PROVE  Spec => []NoStrayRelease
<1>1. BaseInv => NoStrayRelease
  BY DEF BaseInv, HeldInv, NoStrayRelease
<1>2. QED
  BY <1>1, LocksHeld, PTL

(* The fence, or the write lock, lets one thread at a time handle a reset. *)
LEMMA HandledOnce ==
    ASSUME Ops \cap Unfenced = {}
    PROVE  Spec => [](BaseInv /\ HandleInv)
<1>1. Init => BaseInv /\ HandleInv
  BY InitAll
<1>2. (BaseInv /\ HandleInv) /\ [Next]_vars => (BaseInv /\ HandleInv)'
  BY NextBase, NextHandle
<1>3. QED
  BY <1>1, <1>2, PTL DEF Spec

(* One thread revalidates, with the volume and the device to itself, from  *)
(* the moment it has the write lock until its result is published.         *)
(* Excluded are the attributes that come to ltfs_revalidate from a read    *)
(* lock without having fenced the device (xattr.c, Unfenced).              *)
THEOREM OneRevalidation ==
    ASSUME Ops \cap Unfenced = {}
    PROVE  Spec => []RevalidatesAlone
<1>1. BaseInv /\ HandleInv => RevalidatesAlone
  <2> SUFFICES ASSUME BaseInv, HandleInv PROVE RevalidatesAlone
    OBVIOUS
  <2>1. \A t, u \in Revalidating : t = u
    BY DEF Revalidating, HandleInv, Handling
  <2>2. Revalidating = {} \/ \E t : Revalidating = {t}
    BY <2>1
  <2>3. Cardinality(Revalidating) <= 1
    <3>1. CASE Revalidating = {}
      BY <3>1, FS_EmptySet
    <3>2. ASSUME NEW t, Revalidating = {t} PROVE Cardinality(Revalidating) = 1
      BY <3>2, FS_Singleton
    <3>3. QED
      BY <2>2, <3>1, <3>2
  <2>4. ASSUME NEW t \in Threads, pc[t] \in {"rv_body", "rv_fence", "rv_result"}
        PROVE  dev = NoThread /\ vlock[t] = "write" /\ reval # "ok"
    <3>1. vlock[t] = "write" /\ reval # "ok"
      BY <2>4 DEF BaseInv, HeldInv, HandleInv, Handling, Writing
    <3>2. \A u \in Threads : dev # u
      BY <2>4, <3>1, FencedOps DEF BaseInv, HeldInv, UnderDevice, Unlocked
    <3>3. QED
      BY <3>1, <3>2 DEF BaseInv, TypeOK
  <2>5. QED
    BY <2>3, <2>4 DEF RevalidatesAlone
<1>2. QED
  BY <1>1, HandledOnce, PTL

(* Once the drive has reported a reset, no thread touches a cartridge that *)
(* has not been checked: the report reaches a thread that fences the       *)
(* device or holds the write lock until it has rejected the cartridge.     *)
(* Excluded are the Unfenced operations, and those that Drop the report:   *)
(* the code does not do this for them.                                     *)
THEOREM OtherTapeUntouched ==
    ASSUME Ops \cap (Unfenced \cup Drops) = {}
    PROVE  Spec => []NoCommandOnOtherTape
<1>1. Init => BaseInv /\ HandleInv /\ TapeInv
  BY InitAll
<1>2. (BaseInv /\ HandleInv /\ TapeInv) /\ [Next]_vars => (BaseInv /\ HandleInv /\ TapeInv)'
  BY NextBase, NextHandle, NextTape
<1>3. TapeInv => NoCommandOnOtherTape
  BY DEF TapeInv, NoCommandOnOtherTape
<1>4. QED
  BY <1>1, <1>2, <1>3, PTL DEF Spec
=============================================================================
