# LTFS: a TLA+ model of the file system for tape

LTFS presents a tape cartridge with two partitions as a file system: the *data
partition* (DP) holds file contents and indexes, the *index partition* (IP) a
current index and copies of small files. This directory models the parts of the
C implementation (`src/src/`) in which concurrency, caching, crashes and failing
drives meet, checks them with TLC on small instances and proves, with TLAPS, the
central facts about the lock, the revalidation of the cartridge, the handle counts
of dentries and the bookkeeping of the I/O scheduler. Line references are to the files of this repository.

1. [The system](#1-the-system)
2. [The modules](#2-the-modules)
3. [What is checked](#3-what-is-checked)
4. [What is proved](#4-what-is-proved)
5. [Where the code disagrees](#5-where-the-code-disagrees)
6. [Observed in the code](#6-observed-in-the-code)
7. [What is not modelled](#7-what-is-not-modelled)
8. [Plan](#8-plan)

## 1. The system

| component | state it keeps | operations | how it can go wrong |
|---|---|---|---|
| unified I/O scheduler (`iosched/unified.c`) | per open file a list of cached write requests in three queues (partial, DP, IP), counters per queue, file size, pending error, the extents already written to the IP; a pool of cache blocks | write, read, truncate, flush, close, data placement, unmount; a writer thread empties the queues | overlapping requests, requests in the hands of the writer thread, errors found in the background, a full pool, a second copy that is older than the first |
| lock (`libltfs/ltfs_locking_new.h`) | a gate mutex, a pthread rwlock, two unlocked flags | acquire and release for reading or writing, try, long and short variants, downgrade | interleavings of the pthread calls, stale flags, starvation |
| volume and device sharing (`libltfs/ltfs.c`, `ltfs_fsops_raw.c`, `xattr.c`, `tape.c`) | `vol->lock`, `vol->reval`, the device mutex, the fence | every operation that reaches the drive; `ltfs_revalidate`, `ltfs_wait_revalidation` | a reset or an exchanged cartridge in the middle of several operations; locks released by the callee; lost reports |
| index writing, sync, unmount (`ltfs.c`, `periodic_sync.c`) | the index with its generation and pointers; which partition ends in an index; MAM coherency data | `ltfs_write_index`, `ltfs_sync_index`, `ltfs_unmount`, a timer thread | a crash between index, filemarks and MAM update; a write error in the middle |
| mount and recovery (`ltfs.c`, `ltfs_internal.c`, `ltfsck.c`) | labels, positions, the last indexes of both partitions | consistency check, choice of the index, rollback | any state that a crash left on the tape |
| raw data (`ltfs_fsops_raw.c`) | extent list per file, size, realsize | add, truncate, read, cleanup after an error | arithmetic at block boundaries, overlapping extents |
| dentries (`fs.c`, `ltfs_fsops.c`) | the name tree; a handle count and two locks per dentry; `rename_lock` | lookup, create, open, close, list, unlink, rename | handle counts under concurrent unlink and close; two directories locked at once |
| tape abstraction (`tape.c`) | position, append positions, space, write error state | position, read, write, file marks, coherency attributes | state that disagrees with the medium after an error |
| SCSI drivers (`tape_drivers/*`) | descriptor and path, reservation, block protection, cached position, forced errors | the calls of `struct tape_ops` | a path lost in the middle of a command, a reset reported once, a command sent twice |
| incremental index (`inc_journal.c`) | what was created, modified and deleted since the last index | record, dump | a path created and deleted, renamed directories |
| XML, FUSE, option parsing, key managers, GUI | - | - | see section 7 |

Threads meet as follows. FUSE calls the scheduler, the scheduler calls the raw
operations of libltfs, these take the volume lock, a lock of the dentry and the
device lock, in this order, and call the drive. The scheduler's writer thread and
the periodic sync thread enter libltfs in the same way. The drive answers a
command with a report (reset, request to remove the medium, out of space,
permanent write error), and the answer changes state that all threads share:
`vol->reval`, the fence, the read-only flags, the pending error of a file.

What makes each part correct: the scheduler never loses or reorders bytes
without telling a caller; the lock gives a writer exclusive access, and a
downgrade lets no other writer in; after a reset nobody touches the drive until
one thread, alone, has checked that the cartridge is still the same; an index
is written by someone who excludes changes to what it describes; whatever a crash
leaves on the tape can be repaired, and a mount shows at least what was synced; a
driver writes a record once, knows where the drive stands, and passes on what the
drive reports; a dentry lives as long as somebody refers to it, and no two calls
wait for each other's locks.

## 2. The modules

| module | models | uses |
|---|---|---|
| `UnifiedFile` | the scheduler's bookkeeping for one file, byte by byte | - |
| `UnifiedLemmas` | what the scheduler's helpers do to a list of requests, its counters and its blocks, for any list | `UnifiedFile`, TLAPS |
| `UnifiedProofs` | theorems about `UnifiedFile`, a lemma per action | `UnifiedLemmas` |
| `RwLock` | what a user of the lock may rely on (abstract) | - |
| `Mrsw` | the lock of `ltfs_locking_new.h`, a step per pthread call | `RwLock` as the specification it refines |
| `MrswProofs` | theorems about `Mrsw` | `Mrsw`, TLAPS |
| `Revalidation` | operations, volume lock, device lock, fence and revalidation | `RwLock` as the volume lock |
| `RevalidationProofs` | theorems about `Revalidation` | `Revalidation`, TLAPS |
| `Dentries` | the name tree and the calls on it, lock by lock | - |
| `DentryLemmas` | what the operations on a tree, on locks and on handle counts do, for any tree | `Dentries`, TLAPS |
| `DentriesProofs` | theorems about `Dentries`, a lemma per action | `DentryLemmas` |
| `FileTape` | the file backend `filedebug_tc.c`: records, file marks, cartridge memory | - |
| `Tape` | `tape.c` on top of a backend | `FileTape` |
| `Volume`, `VolumeCheck`, `VolumeMount` | writing indexes; labels, search and consistency check; mount, recovery, rollback, format | `Tape` and each other |
| `VolumePrograms` | mkltfs, ltfs and its requests, ltfsck as functions of the state | `VolumeMount` |
| `VolumeSystem` | the programs one after another on one cartridge, and kills | `VolumePrograms` |
| `ScsiDrive` | the drive, its paths and faults (external: from how the drivers use them) | - |
| `SgTape`, `ScsipiTape`, `IokitTape`, `LinTape`, `CamTape` | the drivers for Linux sg, NetBSD, macOS, Linux lin_tape and FreeBSD | `ScsiDrive` |
| `Drivers`, `DriverSystem` | the five by name; a driver with libltfs as its caller | the drivers, `ScsiDrive` |
| `MCFile`, `MCDentries`, `MCVolume`, `MCDriver` | the instances for TLC | the module in question |

`Mrsw` and `Revalidation` compose through `RwLock`: `Revalidation` takes the
volume lock in single steps of `RwLock`, and the theorem `Refinement` says that
the implementation does nothing else. `DriverSystem` assumes of libltfs what
`Revalidation` shows of it: after a report of a reset the device is fenced and the
calls of `ltfs_revalidate` come before any other. `Volume` is the stack from the
commands down to the file backend; the SCSI drivers take the same place as that
backend and are checked on their own.

Several modules have a variable `site`: the configuration an instance starts with
(cache sizes, placement rules, options, a tree and the calls made on it). It is
chosen in `Init` and never changes, so that one run covers several situations. The
constants `Program` and `Driver` are operators; the configurations give them
`Programs` and `Drivers`.

### UnifiedFile

`dpr` is `struct dentry_priv` (request list, counters, `file_size`, `write_ip`,
`write_error`, `alt_extentlist`), `global` the shared counters of
`unified_data`, `disk` the bytes that `ltfs_fsraw_read` would return, `tape` the
partitions' space flags and the write error state of the device, `wr`, `op` and
`bg` the write, the walk through the list and the writer thread's private list
in progress. `file` is a history variable: the contents promised to the callers; `lost`
is another one and says what became of bytes that were dropped: after an error of the DP
nobody was told yet ("pending") or a close that returned 0 has freed the record
("silent"), an error of the IP dropped them ("index"), or the volume was unmounted
("gone"); "stale" marks a walk that has begun to write an overtaken request.
Helpers that change `dpr` and `global` together take and return a pair of them. They
are stated over positions in the list and not as loops: `KeepRequests` drops all
requests but those at given positions, `PromotePartial` and `TruncateRequests` first
say which requests the loop of the code touches. `global.leaked` is history, too: it
counts the blocks of writes that waited for one, started over, found an error and
returned with the block in `spare_cache` (unified.c:707).

Handlers run under the dentry's `iosched_lock`; their loops are sequences of
steps with `op.pc` or `wr.pc` not idle, so that each step is one turn of the C
loop. The lock is given up in the middle in two places only: by a write that
waits for a cache block, and by the writer thread once it has taken its requests
off the list. `unified_write` is `BeginWrite`/`WriteStart`, `WriteAppend`,
`WriteScan`, `WriteBefore`, `WriteOverlap`, `WriteOut` (labels `write_start`,
`do_append`, the loop, `do_insert_before`, the merge and overlap part, `out`);
`_unified_process_data_queue` and `_unified_flush_unlocked` are `BeginData`,
`DataStep`, `DataEnd` with a mode, the part after the lock is given up
`TapeStep` and `TapeFail`; `_unified_process_index_queue` is `BeginIndex`,
`IndexStep`, `IndexEnd`; `unified_destroy` is the mode "unmount" and `Unmount`.
A byte is the number of the write that stored it, so every property about
contents is about positions and order and not about values. `CacheSize`, `MaxFile`
and the other parameters are fields of the site.

### Mrsw and RwLock

Every function of the header is an action named after it; a disjunct is one
pthread call or one group of flag assignments. `holds` maps a state to what each
thread may rely on: a thread in the middle of a downgrade, which holds neither
half of the rwlock, still counts as a reader. That it may is the content of the
refinement.

### Revalidation

A thread performs one operation at a time (`op`) and `pc` says where it is; the
predicates `Exclusive`, `Bare`, `Fences`, `Waits`, `HaveWrite` and `Indexes` say how the
sixteen kinds of operations differ. Attributes are spread over eleven of them, by what
the code does with locks and reports:

| kind | attributes | locks, fence |
|---|---|---|
| `setxattr` | set mediaStorageAlert, vendor-unique | read lock, device lock, fence |
| `syncattr` | set ltfs.sync | write lock, device lock |
| `commit` | set commitMessage, FullSync, IncrementalSync | read lock, device lock, no fence; writes an index |
| `rao` | set IBM.rao | read lock, device lock, no fence |
| `mam` | set volumeName, mamBarcode, mediaPool.*, driveCaptureDump | read lock only |
| `lockstate` | set volumeLockState | read lock; a bare command, then two indexes, the result of the first is dropped |
| `getxattr` | health, capacity, tape alert, vendor-unique | read lock, device lock, fence |
| `getsync` | get ltfs.sync | as `commit` |
| `logpage` | IBM.logPage.*, mediaMAM.* | the result of `tape_device_lock` is ignored |
| `getdump` | get driveCaptureDump | read lock only |
| `quiet` | mediaEncrypted, driveEncryption*, removal of volumeName | read lock only; the result is dropped |

`attention` is what the drive will report to the next command,
`tape` whether the cartridge is still the one that was mounted. `unverified` and
`stray` are history variables: a command reached another cartridge; a lock was
released by a thread that did not hold it. Releasing a lock that is not held is
undefined in the code; the model records it and goes on as if nothing happened,
which is enough because `NoStrayRelease` is violated in that state already. The
checks inside `ltfs_revalidate` are one step (`CheckCartridge`) whose outcome is
free, except that another cartridge is never accepted.

### Dentries

A dentry is a record with its directory flag, parent, name, handle count, table of
entries and protection (`worm`); `lock` has `contents_lock` and `meta_lock` of each,
`vol->lock` and `rename_lock`. A lock is taken in two parts, as in the code: passing
its gate, and waiting until the readers are gone (`Ready`). A `meta_lock` that is
taken and given back without another lock request in between is one step (`Idle`).
`fs_path_lookup` is `LookupRoot` to `LookupMiss`, walking hand over hand from the
root; what the caller asked to be kept locked is `flag`. `Create*`, `Unlink*` and
`Rename*` follow the functions of `ltfs_fsops.c` from one lock request to the next.
`stray`, `orphan` and `forgot` are history variables for three defects (section 5):
a `meta_lock` released by a thread without it, an entry in a removed directory, a
handle that a rename forgets. What the code does by recursion, freeing a directory
with the entries nobody has open and searching upwards for a directory, is stated
with `Reached`, the least set that is closed under going on, so that it can be
proved about. `WellFormed` says what a tree looks like after a mount; TLC evaluates
it for the trees of `MCDentries`.

### The volume

The state is one record `x` and a call is a function of it, as deep as the code
nests: `Programs` runs a whole command. Every change of the medium or of the
cartridge memory uses up a unit of `fuel`, and a process without fuel is dead; an
action chooses the fuel, so each of them stands for a command that is killed
between any two changes, or not at all. An index is two records, so that half of
one can be left. Files are single records with a version; `acked` is what a sync
or unmount has promised. The loops over file marks and records are those of the
code. With a permanent write error (`Failing`) the drive refuses the n-th write
from then on; before it does, the file backend reports `Unflushed` writes good and
loses them (`THRESHOLD_FORCE_WRITE_NO_WRITE`, 20), as a drive loses its buffer. `gone`
is history: the records that were lost so. `AckedOnTape` and `AckedMounted` speak of
promised versions that the drive did not lose (`Keeps`), `AckedWritten` of all
of them.

### The drivers

A driver's call is a function of the state of `ScsiDrive`. A fault is chosen
before the call and strikes its n-th command: the path is lost before or after
the drive carried the command out, the kernel has no memory, the drive was reset
or power cycled, the cartridge was exchanged, another host took the reservation,
early warnings, permanent errors, deferred answers. The error tables, the
reconnection (`_reconnect_device`, `_clear_por` of sg), block protection, forced
errors of the `ltfs.vendor` attributes and dumps after errors are modelled; CDBs
and pages are not. Each driver is modelled from its own source: they share a
structure and differ in which errors they look at.
A soft error (a deferred answer that makes the driver send the command again) strikes
before the drive sees the command: that sg_scsi_tape.c:259-264 sends a WRITE again
which the drive has carried out is not explored. One fault strikes per behaviour.

## 3. What is checked

Passing runs. Deadlock is checked but in `drivers`, `volume_crash` and `tree`, where
callers may stop calling after their bounded number of calls.

| run | instance | properties |
|---|---|---|
| `file_bytes` | three writes of up to a block (4 bytes) to 5 bytes of file, 3 cache blocks; the same with 2 blocks of 3 bytes; three writes and any truncations, 2 blocks of 2 bytes, while either partition runs full or fails for good; the same for a file that outgrows the index partition and for one without a second copy; two writes with a single block for all | `QueueCountsMatch`, `ReadSeesWrites`, `FlushKeepsNewest`, `AltAgrees`, `CacheAccounted`, `ErrorPending` |
| `file_pressure` | three writes and any truncations, 2 blocks of 2 bytes | `DiskIsFile`, `WriteReturns` |
| `lock` | three threads, every function | `MutualExclusion`, `ReleaseKnowsItsLock`, `OwnerUnlocks`, `LongLockMeansLongWriter`, `ImplementsRwLock`, `WriterGetsIn`, `TryReturns` |
| `reval_core` | three operations that fence or hold the write lock, in parallel, two events | `NoCommandOnOtherTape`, `NoStrayRelease`, `RevalidatesAlone` |
| `reval_live` | two threads, two operations of all sixteen kinds, two events | `RevalidationEnds`, `OperationReturns` |
| `tree` | two threads, three calls of any kind on a tree of four dentries; two calls where some are protected | `HandlesKept`, `NothingLeaks`, `CallsReturn` |
| `volume_crash` | five ways to use a cartridge: with ltfsck, wiped and formatted again, files on both partitions, permanent write errors with lost writes before them and rollbacks after them, rollbacks; two versions of a file, one kill, three starts | `AckedOnTape`, `AckedMounted`, `CheckRepairs`, `BackChain`, `ShowsGeneration`, `RepairedMounts`, `RolledTo`, `DpHistory` |
| `drivers` | each of the five drivers, three calls of any kind, one fault at the first, second or third command of a call | `OpenFactorMatches`, `NoStray`, `Releases`, `NoticeKept`, `PositionAgrees`, `WriteOnce`, `ReservationHeld` |

Why the bounds are enough to be interesting. In `UnifiedFile` two requests are
needed for a merge and a third for a write that meets both; blocks of 4 bytes are the
smallest in which a request can grow past the next one without merging with it, which is
what `file_skip` needs; a file of 3 to 5 bytes has requests that end inside, at and behind a block; with 2 blocks a write that splits a request
has to wait in the middle, and with 1 block (site `Starved`) the second write waits
for the first one's and meets its error there. `MaxIpSize` is below `MaxFile` in two of the sites, so files grow out of the
index partition and shrink back. Three threads are the least with which one thread
passes the gate of the lock while two others are between their calls. In
`Revalidation` the second event comes while the first revalidation is about to
start, running or just over, and the third thread is the one that has not heard of
either. In `Dentries` the third call is a thread's second: a file is opened,
removed by the other thread and closed; the trees have a directory in a directory,
so that a rename has a directory above the other, below it, and beside it. In
`VolumeSystem` a killed program is followed by two more starts: the one that repairs
and the one that shows what is left; `LastBlock` (50) is never reached. `Unflushed` is 1 in `volume_crash`, for a file that is
one record, where the code has 20 for files of many; a write error strikes at the first
write or at once. Two lost writes would be an index whose second record is gone while the
file mark behind it is written: `filedebug_writefm` has no forced error, a drive would
refuse it, so this is left out as an artefact of the emulation. In
`DriverSystem` the third call comes after a fault and the revalidation it asked for,
which is not counted.

What the properties leave out, and why. `ReadSeesWrites`, `FlushKeepsNewest` and
`AltAgrees` speak of files no byte of which was dropped unreported and, for files with a
second copy, of partitions with room left (`Undamaged`). A partition that runs full
leaves extents on the IP that are older than the DP's bytes and replace them at unmount:
on the IP this drops newer copies (section 5); on the DP, a write whose new bytes are refused, and
reported, has already cut the copy of the previous ones from the list. `DiskIsFile` is
stated under the same condition. `FlushKeepsNewest`
leaves out the requests that lie within one in front of them, which `file_skip` shows to
be written late; once a walk has begun to write one (`lost = "stale"`) nothing more is
claimed of the bytes. `ErrorPending` is about errors of the DP until a close; that
a close and an error of the IP report what they drop (`ErrorReported`) is the run
`file_close`, which fails. `SizeAgrees`, `IndexExclusive` and `AckedWritten` do not hold of the
code and are in no passing run; section 5 has the instances. `AltAgrees` speaks of the time between two writes.
`ReadSeesWrites` fails with a write longer than a block (section 5). `QueueCountsMatch` and
`CacheAccounted` hold after errors of any kind.
`reval_core` leaves out the operations without a fence and those that drop a report, and
the getters and `unmount`, which release a lock twice; section 5 has what they do, and
`reval_live` has all of them. The properties of `Dentries` end with a
stray release of a lock or an entry in a removed directory (`Sane`), and
`CallsReturn` with the nested read lock of `ltfs_fsops_create` (`NestedRead`). In
`VolumeSystem` a cartridge on which a rollback that erases history was killed no
longer counts as made; files on both partitions are not combined with ltfsck
(`volume_ipdata`). In `DriverSystem` a notice that a call has swallowed ends the
claims about positions and reservations (`Sound`), and the comments name the
drivers that a property does not hold of.

Fairness. A thread inside a function keeps running whenever it can (`WF` of its
step): the code is ordinary threads. In `UnifiedFile` a thread that waits for a
mutex or for a cache block gets it if it is free again and again (`SF`): several
threads pass the `iosched_lock` around, and the code relies on pthread mutexes and
on the condition variable of the cache being served in the end. Nothing is assumed
about callers: files need not be written to, operations need not begin, the drive
need not be reset. In `Mrsw` no fairness is assumed of a thread outside of the
functions or of the arrival of readers, which is why `WriterGetsIn` says something
about starvation. In `Dentries` weak fairness is enough: the number of calls is
bounded, so a lock that is free stays free in the end.

## 4. What is proved

Four proof developments, each for any instance of its module. None uses bounds:
the numbers of operations, events, calls, writes and requests are arbitrary.

### The lock

`MrswProofs`, for every set of threads; assumed is that the value for "nobody" is not
a thread.

| theorem | statement |
|---|---|
| `InductiveHolds` | `Spec => []Inductive` |
| `TypeCorrect` | `Spec => []TypeOK` |
| `Exclusion` | `Spec => []MutualExclusion` |
| `ReleaseCorrect` | `Spec => []ReleaseKnowsItsLock` |
| `OwnersUnlock` | `Spec => []OwnerUnlocks` |
| `LongLockTruthful` | `Spec => []LongLockMeansLongWriter` |
| `Refinement` | `Spec => ImplementsRwLock` |

None of the properties is inductive as it stands. That a writer is alone says
nothing about the moments between two pthread calls, and `release_mrsw` reads a
flag that somebody else may be about to write. `Inductive` says who owns what at
every position: the gate belongs to the thread whose position is in `AtGate`
(`GateInv`), the rwlock to those in `AtWrite` and `AtRead` and never to both kinds
(`RwInv`), and the `writer` flag is set exactly while a writer is between setting
and clearing it (`FlagInv`). There is a lemma per function that it preserves
`Inductive`, and one that it takes an allowed step of `RwLock`. The case that needs
the whole invariant is `writetoread_mrsw` between unlock and rdlock: the thread
holds no half of the rwlock there, and only the gate, which it keeps, excludes
another writer.

### Revalidation

`RevalidationProofs`, for every set of threads and every number of operations, resets
and exchanged cartridges. Assumed: `NoThread` is not a thread (`ThreadsAssumption`),
operations and events are those of the module (`OpsAssumption`, `EventsAssumption`).
A theorem leaves out exactly the operations whose code breaks it (section 5), by a
hypothesis on `Ops`:

| theorem | operations left out | statement |
|---|---|---|
| `LocksHeld` | none | `Spec => []BaseInv` |
| `LocksReleasedByHolder` | `Getting` (getxattr, getsync, logpage, getdump), unmount | `Spec => []NoStrayRelease` |
| `OneRevalidation` | `Unfenced` (commit, rao, mam, lockstate, getsync, logpage, getdump) | `Spec => []RevalidatesAlone` |
| `OtherTapeUntouched` | `Unfenced`, `Drops` (unmount, quiet) | `Spec => []NoCommandOnOtherTape` |

The invariant has layers, each preserved given the ones before it. `HeldInv` says for
each position whether a thread holds `vol->lock`, how, and whether it holds the
device: this is the knowledge that a caller of `ltfs_revalidate` needs, which releases
a lock it did not take. `AloneInv`: an unmount has the volume to itself. `HandleInv`:
at most one thread has been told of a reset and not yet published a result
(`Handling`); either it raised the fence before it gave up the device, or it holds
the write lock, so nobody else can be at the device to be told of a second reset.
`TapeInv` is what `NoCommandOnOtherTape` needs: another cartridge that the drive will
not report any more is one that a thread is handling and will not accept, or one
that was rejected, and then nobody is past the check of `vol->reval`. The
argument breaks for the operations of `Unfenced` because they hold a read lock and raise no
fence: until the revalidation begins the others reach the drive, and two threads that
were told of two resets may both begin one. It breaks for those of `Drops` because they
lose the report. With them `HandleInv` and `TapeInv` are no invariants, and TLC has the
counterexamples (section 5). What is covered: `read`, `query`, `write`, `sync`,
`syncattr` and `setxattr` by all theorems, `getxattr`, `unmount` and `quiet` by
`OneRevalidation`, `commit`, `rao`, `mam`, `lockstate` and `quiet` by
`LocksReleasedByHolder`. There is no theorem about who writes an index: the code does it
under a read lock as well (`IndexExclusive`, section 5).

### Dentries

`DentriesProofs`, for every set of dentries, names and initial trees, every set of
calls and every finite set of threads. Assumed: the root is a dentry and "none" is
neither a dentry nor a thread (`RootAssumption`, `ThreadsAssumption`); a tree to start
with is as `ltfs_mount` leaves it, and the root is not removed (`SitesAssumption`).

| theorem | statement |
|---|---|
| `InductiveHolds` | `Spec => []Inductive` |
| `HandlesSuffice` | `Spec => []HandlesKept` |
| `NoHandleLeaks` | `Spec => []NothingLeaks` |

That `numhandles` is high enough does not follow from itself: a step that frees a dentry
is right only if nobody refers to it, and a step that takes a handle only if the
dentry is still there. `Inductive` has five parts. `BalanceInv`: handles are counted exactly,
seven places of each thread (`Owned`) and one for a table. `TreeOK`: tables and parents
agree. `LocalInv` and `OpInv`: which local variables a call uses at which position,
which is what makes a variable count as a reference or not. `LockInv`: which
`contents_lock` it holds there. `ViewInv`: what it has found in a directory stays true
while it holds that lock; this is what the locks are for, and where another
thread's step is the difficult case. `StableInv`: a dentry that a call refers to is in
the tree, or removed, or about to be put there, so that the entry a step unlinks is one
that a table refers to. All of it holds until one of the two defects (`Sane`): after a
stray release the locks exclude nobody, and an entry in a removed directory
contradicts `TreeOK`.

`DentryLemmas` has the operators: `Reached` is closed and least; disposing of a directory frees
exactly the entries with one handle and keeps the counts of all others; a count over
threads changes in the slots of one thread at a time (with the cardinality
theorems of the library); how taking, dropping, linking, unlinking and moving change a
tree. `DentriesProofs` has a lemma per action, and most of them rest on one of a few
kinds of step: one that changes no count (`CalmStep`), one that takes or drops a
handle, one that frees, and the changes of a table. The proof found two errors that
the runs had not: the guards of `Found` overlapped, so that what the `CASE` meant
depended on an order that TLA+ does not give it, and `NothingLeaks` did not except the
rename that forgets a handle (section 5). It does now, through `forgot`.

### The scheduler

`UnifiedProofs`, for every set of sites: any size of block, pool and file, any number
of writes of any length (longer than a block, too), any outcomes of the writes to the
tape. Assumed is only what `SiteAssumption` says of a site: blocks and the pool are not
empty, and results are those of the module.

| theorem | statement |
|---|---|
| `BookkeepingHolds` | `Spec => []Inv` |
| `CountersHold` | `Spec => []QueueCountsMatch` |
| `BlocksHold` | `Spec => []CacheAccounted` |
| `ErrorsHold` | `Spec => []ErrorPending` |

`ErrorsHold` says that an error of the data partition is not lost to anything that happens
before a caller is told, errors of the index partition included. Bytes that an error of
the index partition itself drops, and the record freed by a close, are not its subject:
there the code loses the error (`ErrorReported`, run `file_close`).

The properties speak of the moments when the `iosched_lock` is free and are not
inductive: in the middle of a walk a counter is 0 while requests of its kind
are still in the list, because the code clears it first (`DelAllMembers`), and a failure
in the middle has to find it right again. `Inv` says what holds at each step:

- `Types` and `Writing`: a write that holds the lock has no error pending, and its position
  is one of the list.
- `Threads`: which of the writer thread's turns, a flush and the index queue can be in
  progress together, and when the writer thread's own list is empty.
- `Counting`: the counters that the walk has not cleared (`Live`) match the list, the others
  are 0 and no request of their kind is behind the walk (`Passed`), so that at its end
  all of them match (`WalkEndLaw`).
- `Cache`: every request has 1 to `CacheSize` bytes, and the blocks in use are those of the
  list, of the writer thread, of the write and the leaked ones.
- `Failing`: once an error is recorded only copies for the IP are left (`Cleared`); a request
  for the DP in such a list would be written by nobody. While the writer thread is at the
  tape the `dentry_priv` stays, and once a walk at unmount has passed the DP requests,
  nothing is left that the index queue could lose.
- `Telling`: while a loss on the DP is unreported there is a `dentry_priv` with the error in it, or the
  writer thread is about to take the lock and record it.

`UnifiedLemmas` has what the helpers do: inserting, removing and changing a request change
the number of requests in a state by one (`CountGap`, `CountSet`, over the cardinality
theorems of the library); the requests kept at given positions are a subsequence
(`NthLaw`, `PickLaw`); a merge leaves the predecessor alone, cuts the request or removes it, and
in each case the counters follow and no request is left empty (`MergeLaw`). `Sound` is what
all of them keep. `UnifiedProofs` has a lemma per action. The one that needs most is
`WriteOverlap` (`OverlapInv`), the round of `unified_write` in which the write, the request it
meets and its predecessor settle their overlaps by merging, cutting, splitting or removing,
and in which the write may end up with a spare block. Two
things came out of the proof: `CacheAccounted` had been stated for files
without errors only, and holds without that restriction once the leak is counted; and
the helpers, which had been folds over the list, had to be stated over positions.

TLC checked the inductive invariants (`Inductive`, `BaseInv`, `HandleInv`, `TapeInv`,
`Inv`) on the instances of `tree`, `reval_core` and `file_bytes` before they were proved.

### Only model-checked

All liveness properties (`CallsReturn`, `OperationReturns`, `RevalidationEnds`,
`WriterGetsIn`, `TryReturns`, `WriteReturns`): they rest on fairness. In `UnifiedFile`
the properties about contents (`ReadSeesWrites`, `FlushKeepsNewest`, `AltAgrees`,
`DiskIsFile`): what a list of requests writes is a fold over it (`Written`,
`PushAlt`, `View`), and that two lists write the same needs induction over them; besides,
`ReadSeesWrites` and `DiskIsFile` fail at some sites (sections 3 and 5). `Volume` and the drivers:
they use recursive operators for searches along a tape and retries, and a whole
program, or driver, as an operator constant.

## 5. Where the code disagrees

Runs that TLC refutes, each against a sentence of the source:

| run | what happens |
|---|---|
| `file_skip` | `unified_write` skips a request that the write has just overtaken; its old bytes are flushed over the new ones. |
| `file_close` | a close between a failed background write and its handling frees the `dentry_priv` and returns 0; the error is recorded nowhere. The sites of the run also have two full partitions, with which errors of the IP are lost (below). |
| `reval_swallow` | `ltfs_unmount` drops the status of its first command, and with it the report of a reset; the index goes to a cartridge that nobody has checked. |
| `volume_ipdata` | with no index left on the IP, `ltfs_check_medium` sets its append position to block 4 although files of the DP's index lie behind it; the index written next overwrites them. |

The models show more of the same kind, with the instance given here instead of a
run of its own:

- `unified_truncate` stops at an overtaken request and does not cut the longer one in
  front of it; the next write into that one makes the file as long as it was, although
  `file_size` is the "Real file size, including outstanding write requests":
  `SizeAgrees` fails with `Sites <- SitesSize`.
- Out of space on the IP drops the newer copies waiting for it and keeps the older
  extents, which unmount lays over the newer data: `DiskIsFile` without `Undamaged` fails
  with `Sites <- SitesIpstale`.
- Both partitions are full: a write that waited for a cache block does not look at the
  read-only state again (`checked_readonly`) and queues its bytes for the full DP; out of
  space on the IP then drops them and records no error, since "the data is known to be on
  the DP": the second part of `ErrorReported` fails with `Sites <- BothFull`.
- An attribute that is set without the device lock is told of a reset; before its thread
  has begun the revalidation another one reads from the exchanged cartridge:
  `NoCommandOnOtherTape` fails with `Ops = {"mam", "read"}`.
- An index is written under a read lock while other threads have the volume (set
  commitMessage, FullSync, IncrementalSync, volumeLockState; get ltfs.sync):
  `IndexExclusive` fails with `Ops = {"commit", "read"}`, and with `lockstate` or `getsync`
  in the place of `commit`.
- A write is reported good and lost from the drive's buffer; the permanent error is met
  by the next one, and the index that LTFS then writes to the IP refers to the lost
  record. The next mount shows a file that cannot be read, after an unmount that succeeded, as
  the TODO at ltfs.c:3715-3727 says ("Extents cleaning is required in case1, otherwise
  LTFS writes an index which has unwritten record on the tape"): `AckedWritten`
  fails with `Sites <- Unwritten` and `Unflushed` 1 or 20.
- `_unified_insert_new_request` stores at most one block and returns the full count:
  `ReadSeesWrites` fails with `CacheSize = 2`, `MaxWrite = 3`. (FUSE requests are
  smaller than the default block.)
- A permanent error on the IP: the status of `tape_set_cart_volume_lock_status` (0)
  takes the place of the error, and unwritten data is dropped without one
  (`ErrorReported` with `IpResults = {"ok", "perm"}`).
- A truncation that empties the alternate extent list leaves the file in `ext_queue`,
  although the comment in `struct dentry_priv` says it is there if and only if the
  list is not empty.
- `ltfs_fsops_getxattr` releases the volume lock after a failed revalidation has
  released it, `ltfs_unmount` after either outcome: `NoStrayRelease` fails with
  `Ops = {"getxattr", "read"}` or `{"unmount"}`.
- The index-writing attributes and `IBM.rao` have the device lock but raise no fence,
  with the same effect as an attribute without the device lock: `NoCommandOnOtherTape` fails with
  `Ops = {"commit", "read"}` or `{"rao", "read"}`, and `RevalidatesAlone` with
  `{"commit", "mam"}` and two resets.
- `ltfs_logpage` and `ltfs_mam` ignore the result of `tape_device_lock`: past a fence they
  send their command and unlock a mutex that they do not hold (`StrayDeviceUnlock`).
- Setting `ltfs.volumeLockState` overwrites the result of its first index (xattr.c:1258-1259).
- A write to the DP that is out of space, after the copy of the previous bytes was cut
  from the list: the error is reported, and at unmount the extent before that one
  replaces newer bytes on the DP, as when the IP is full (`ReadSeesWrites` in the site
  `Failures` without the last conjunct of `Undamaged`).
- `vol->reval` is set to failed without `reval_lock` by an operation that meets an
  unexpected move; a revalidation that is under way overwrites it with its own result.
- `ltfs_fsops_unlink` refuses a protected entry or a directory that is not empty by
  releasing the parent with `fs_release_dentry_unlocked` without having taken its
  `meta_lock` (ltfs_fsops.c:464-485 and 540), although fs.h:93 says "The caller must
  hold a write lock on d->meta_lock": a lock is unlocked that nobody or another
  thread holds (`UnlinkRefused`, `stray`). `ltfs_fsops_rename` does the same to the
  target directory when one of the directories is protected (653-658, 909).
- `fs_path_lookup` gives up the directory above before it takes the `contents_lock`
  of the directory itself (fs.c:611-627): a create, or a rename, that waits there
  puts its entry into a directory that an unlink has found empty and removed
  meanwhile (`orphan`). Kernel and FUSE exclude it for mounts.
- `ltfs_fsops_create` in an append-only directory calls `ltfs_fsops_setxattr` with
  `vol->lock` held for reading, which asks for it again: behind a waiting writer
  both wait for ever (`NestedRead`; without it `CallsReturn` fails with a create in
  such a directory and a sync).
- A rename whose source is protected and whose target exists forgets the handle of
  the target (ltfs_fsops.c:767-772), as `RenameCheck` does.

## 6. Observed in the code

Met while modelling; no run of its own.

- `unified_write`: a write that waited for a cache block and finds a pending error
  when it starts over returns with the block in `spare_cache` (`global.leaked`).
- `_unified_insert_new_request`: when `calloc` fails, locks and block are released
  here and again by the caller.
- `_unified_flush_all` stops at the first file whose flush fails.
- `unified_truncate` of a file without a `dentry_priv` does not take its place
  among writers: a first write can start in between.
- The comment on `alt_extentlist` says the list is sent when all handles are
  closed; the code does so in `unified_destroy` only.
- With a single cache block the IP watermark rounds to 0.
- `unified_close` of one of two handles returns while background writes are pending.
- `ltfs_fsraw_cleanup_extent` leaves `realsize` as it was and subtracts the bytes
  of an extent in the middle from the file size.
- `acquireread_mrsw_short` can still wait for a long writer that passes the gate
  between its unlock and its `rdlock`. Short and long variants have no callers in
  libltfs.
- A thread that asks for a read lock twice waits for ever behind a waiting writer
  (`ltfs_fsops_create` does, section 5).
- `ltfs_unmount` of a volume mounted for rollback metadata returns with the write
  lock held.
- `ltfs_fsops_setxattr` with a dentry cache calls `xattr_get`, which may give up
  the volume lock, and goes on.

- Setting `ltfs.volumeName` returns with `dirty_lock` held when the cartridge memory
  cannot be updated (xattr.c:1022-1025).

Names (`ltfs_fsops.c`, `fs.c`):

- A failed rename reads `fromdentry->uid` after it released the dentry (915).
- `if (!todir->isdir)` (815) looks at the directory instead of the entry: replacing a
  file by a rename never lowers the file count.
- `ltfs_fsops_read_direntry` uses an entry after it gave up `contents_lock`.
- The incremental journal (`inc_journal.c`) adds and finds entries with the size of
  the entry as the size of its key, so that lookups read past a local structure and
  do not match; a prefix test counts `/ab` as below `/a`; `incj_pop_directory` uses
  a NULL tail for the last element; a file replaced by a rename is not recorded;
  entries keep pointers to dentries that are freed.

The volume (`ltfs.c`, `ltfs_internal.c`, `ltfsck.c`):

- `_ltfs_check_extents` refuses an extent that ends exactly at the end of data
  (`>=`, ltfs_internal.c:683); an index normally follows it.
- Full recovery with an append position of 0 recovers nothing, whatever
  `man/ltfsck.8` says about lost blocks.
- `ltfs_write_label` returns a positive number for a short write.
- A kill during `ltfsck -r -j` leaves a volume that cannot be repaired: the DP is cut
  before the IP is rewritten.
- ltfsck does not recover a missing end of data on a cartridge with a lock or
  write error status; with errors on both partitions and a missing end of data
  nothing repairs it.
- `ltfs_unmount` returns 0 without writing an index when the IP has a permanent
  write error.

Drivers:

- Calls that take the drive's notice of a reset and report success. sg and NetBSD:
  cartridge health, end of data status, dump, format, parameters, load, unload;
  iokit: the same without unload; lin_tape and cam: also erase, file marks, locate,
  space, rewind. A dump taken after an error takes a notice, too.
- sg: `sg_writefm` counts one block after a failover whatever it was asked for
  (0 is passed by `ltfs.c`:2632). A file mark read while the kernel has no memory
  leaves the position off by one. A path lost after a write together with a reset
  during the reconnection loses block protection and the removal lock without a word.
  `sg_close` always returns an error. `sg_modesense` returns a length, so
  `is_ame` and `sg_set_key` take success for a failure. A length mismatch at block 0
  is retried without bound.
- NetBSD: lost connections and reservation conflicts are not recognised; short
  records are reported with the size asked for.
- iokit: `iokit_set_xattr` always answers "no such attribute"; the list of devices is
  indexed by the wrong counter.
- lin_tape and cam return success with the old position when the position cannot be
  read after a move (tape_ops.h:438 asks for it "even on error"). lin_tape opens by
  the name given to open in `set_default`, uses uninitialised results in
  `set_default` and `get_parameters`, and hides an error of file marks behind an
  early warning. cam reads without room for the checksum, does not renew reservation
  and removal lock after a power cycle, and keeps the checksum functions when
  protection is turned off.

## 7. What is not modelled

`PROJECT.json` lists every component with the reason. In short: XML and key files
are translation of formats; FUSE and the GUI call what is modelled; logging,
tracing and configuration do not touch a volume; memory exhaustion (but for the
kernel's in a driver) and cancelled threads are left out everywhere. In
`UnifiedFile` one file is modelled, and the others only through the cache pool and
the freedom of the writer thread to start at any time; `ltfs_fsraw_write` either
writes all of a request or fails. In `Revalidation` the operations run alone in
their thread, as FUSE and the writer thread run them. `Volume` has one file of one
record per version, full indexes only and no encryption. `Dentries` leaves out
symbolic links, times and the dentry cache, which is a plug-in that is not part of
the repository. The incremental journal rests on undefined behaviour (section 6):
a model of it would say what was meant and not what the code does. The drivers'
tables of sense codes and time-outs appear as the outcomes they lead to; layouts of
commands, log pages and mode pages do not. The read-only image backend `itdtimg`
and the old lock (`--disable-new-locking`) are left out.

## 8. Plan

Done, in this order: `UnifiedFile`; `RwLock`, `Mrsw`, `MrswProofs`; `Revalidation`;
the stack of `Volume`; the drivers; `Dentries`; the proofs about `Revalidation`,
`Dentries` and `UnifiedFile`. Left:

1. `Extents`: `ltfs_fsraw_add_extent`, truncate and read against a byte array;
   every list reachable by three extents over two blocks.
2. `CacheManager` and `UnifiedSched`: the pool, several files, the order of the
   queues, and `_unified_flush_all`, which stops at the first file that fails.
3. Pure functions: placement rules, names.

Theorems planned: action properties of `Revalidation`, that the fence goes down only
when a result is published; the contents of `UnifiedFile` for lists without overlaps,
where the order of the requests does not matter.
