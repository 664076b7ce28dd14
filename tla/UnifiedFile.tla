----------------------------- MODULE UnifiedFile -----------------------------
(***************************************************************************)
(* The unified I/O scheduler's bookkeeping for ONE file, byte by byte      *)
(* (src/iosched/unified.c): the list of cached write requests, its         *)
(* traversal by unified_write, the merge of neighbouring requests, the     *)
(* flush to the data partition (DP), the second copy that small files get  *)
(* on the index partition (IP) with its alternate extent list, truncation, *)
(* the data placement flag, write errors and the cache blocks behind it.   *)
(*                                                                         *)
(* Every handler runs under the dentry's iosched_lock.  A loop of the C    *)
(* code is a sequence of steps with the lock held (op.pc /= "idle").  The  *)
(* lock is given up in the middle in two places: by a write that finds no  *)
(* cache block (wr.pc = "wait"), which starts over when it has one, and by *)
(* the writer thread while it writes the requests it took off the list     *)
(* (bg.pc = "tape"), when it holds the io_lock only.                       *)
(*                                                                         *)
(* libltfs below the scheduler is `disk', the bytes that ltfs_fsraw_read   *)
(* would return.  `file' is the history of what the callers were told:     *)
(* the contents a POSIX reader expects.                                    *)
(***************************************************************************)
EXTENDS Integers, Sequences, FiniteSets, SequencesExt

CONSTANT Sites   \* the configurations to start from

\* LTFS_LESS_SPACE, LTFS_NO_SPACE and a permanent write error (IS_WRITE_PERM);
\* "werr" (LTFS_WRITE_ERROR) is what every write after a permanent error gets
Results == {"ok", "less", "nospace", "perm"}

ASSUME SiteAssumption ==
  \A s \in Sites :
    /\ s.CacheSize \in Nat \ {0} /\ s.CacheBlocks \in Nat \ {0}
    /\ s.MaxFile \in Nat /\ s.MaxWrite \in Nat \ {0} /\ s.MaxWrites \in Nat
    /\ s.MaxIpSize \in Nat
    /\ "ok" \in s.DpResults /\ s.DpResults \subseteq Results
    /\ "ok" \in s.IpResults /\ s.IpResults \subseteq Results
    /\ s.Truncates \in BOOLEAN

VARIABLES
  dpr,     \* struct dentry_priv: its requests, counters, size, flag, error
  disk,    \* the file's bytes as libltfs has them; d->size = Len(disk)
  matches, \* d->matches_name_criteria
  global,  \* unified_data: dp_request_count, entries in ext_queue, cache use; and,
           \* as history, how many of the blocks in use nobody will ever free
  tape,    \* the volume's partition_space flags and its lock_status (pwe)
  handle,  \* a client has the file open
  ipTape,  \* blocks written to the index partition, in order
  wr,      \* the client's write in progress
  op,      \* the walk through the requests in progress: a flush or a queue
  bg,      \* the writer thread's local_req_list, with the io_lock held
  file,    \* history: the contents the callers were promised
  lost,    \* history: what became of unwritten bytes that were dropped.  After an
           \* error of the DP nobody was told yet ("pending"), or a close that
           \* returned 0 has freed the record ("silent"); an error of the IP
           \* dropped them ("index"); at unmount there is nobody to tell ("gone").
           \* "stale": a walk began to write a request overtaken by another one
  writes,  \* history: number of writes so far
  site     \* the configuration, which never changes

vars == <<dpr, disk, matches, global, tape, handle, ipTape, wr, op, bg, file, lost, writes, site>>

CacheSize == site.CacheSize      \* bytes in a cache block (= the volume's block size)
CacheBlocks == site.CacheBlocks  \* blocks in the cache pool
MaxFile == site.MaxFile          \* bound: largest file offset the callers use
MaxWrite == site.MaxWrite        \* bound: largest write request
MaxWrites == site.MaxWrites      \* bound: number of writes; write k writes bytes of value k
MaxIpSize == site.MaxIpSize      \* index_criteria_get_max_filesize()
DpResults == site.DpResults      \* what ltfs_fsraw_write may return
IpResults == site.IpResults      \* what ltfs_fsraw_write_data on the IP may return
Truncates == site.Truncates      \* TRUE iff callers truncate the file

-----------------------------------------------------------------------------
(* Bytes.                                                                  *)

Lesser(a, b) == IF a < b THEN a ELSE b
Greater(a, b) == IF a < b THEN b ELSE a

\* bytes, with data stored at offset off; a gap reads as zeros
Overwrite(bytes, off, data) ==
  [i \in 1 .. Greater(Len(bytes), off + Len(data)) |->
     IF off < i /\ i <= off + Len(data) THEN data[i - off]
     ELSE IF i <= Len(bytes) THEN bytes[i] ELSE 0]

Resize(bytes, len) == [i \in 1 .. len |-> IF i <= Len(bytes) THEN bytes[i] ELSE 0]

Fill(n, v) == [i \in 1 .. n |-> v]
Drop(data, n) == SubSeq(data, n + 1, Len(data))

\* the elements of seq at the positions in K, in their order
Nth(K, i) == CHOOSE k \in K : Cardinality({j \in K : j <= k}) = i
Pick(seq, K) == [i \in 1 .. Cardinality(K) |-> seq[Nth(K, i)]]

-----------------------------------------------------------------------------
(* Requests and queue membership.                                          *)

States == {"PARTIAL", "DP", "IP"}
End(r) == r.offset + Len(r.data)
NoPriv == [alloc |-> FALSE, requests |-> <<>>, in |-> [q \in States |-> 0],
           file_size |-> 0, write_ip |-> FALSE, write_error |-> "ok",
           alt |-> <<>>]

NoGlobal == [dp_request_count |-> 0, ext_queue |-> 0, cache |-> 0, leaked |-> 0]

\* S is the pair of structures the helpers update together
Pair == [d |-> dpr, g |-> global]

Counted(S, q) == q # "DP" \/ ~S.d.write_ip

\* n calls of _unified_update_queue_membership(add, all, q); a counter that is
\* zero stays zero
AddMembers(S, q, n) ==
  [S EXCEPT !.d.in[q] = @ + n,
            !.g.dp_request_count = IF q = "DP" /\ Counted(S, q) THEN @ + n ELSE @]
DelMembersUncounted(S, q, n) == S
DelMembers(S, q, n) ==
  LET m == Lesser(n, S.d.in[q])
  IN  [S EXCEPT !.d.in[q] = @ - m,
                !.g.dp_request_count = IF q = "DP" /\ Counted(S, q) THEN @ - m ELSE @]
AddMember(S, q) == AddMembers(S, q, 1)
DelMember(S, q) == DelMembers(S, q, 1)
DelAllMembers(S, q) ==
  [S EXCEPT !.d.in[q] = 0,
            !.g.dp_request_count = IF q = "DP" /\ Counted(S, q) THEN @ - S.d.in[q] ELSE @]

CacheFree(S, n) == [S EXCEPT !.g.cache = @ - n]
SetRequests(S, q) == [S EXCEPT !.d.requests = q]
SetRequest(S, i, r) ==
  SetRequests(S, [k \in DOMAIN S.d.requests |-> IF k = i THEN r ELSE S.d.requests[k]])

GrowFileSize(S, i) ==
  [S EXCEPT !.d.file_size = Greater(@, End(S.d.requests[i]))]

\* _unified_update_request: store data (at file offset off) in request i as far
\* as its cache block reaches.  A request that fills up takes every partial
\* request at or before off with it to the data queue.
UpdateCount(S, i, off, size) ==
  Lesser(size, S.d.requests[i].offset + CacheSize - off)

PromotePartial(S, off) ==
  LET q == S.d.requests
      ready == {k \in DOMAIN q : q[k].state = "PARTIAL" /\ q[k].offset <= off}
      n == Cardinality(ready)
      T == AddMembers(DelMembers(S, "PARTIAL", n), "DP", n)
  IN  SetRequests(T,
        [k \in DOMAIN q |-> IF k \in ready THEN [q[k] EXCEPT !.state = "DP"] ELSE q[k]])

UpdateRequest(S, i, off, data) ==
  LET r == S.d.requests[i]
      n == UpdateCount(S, i, off, Len(data))
      new == [r EXCEPT !.data = Overwrite(@, off - r.offset, SubSeq(data, 1, n))]
      T == SetRequest(S, i, new)
      U == IF r.state = "PARTIAL" /\ Len(new.data) = CacheSize
             THEN PromotePartial(T, off) ELSE T
  IN  GrowFileSize(U, i)

RemoveRequest(S, i) == SetRequests(S, RemoveAt(S.d.requests, i))

\* _unified_insert_new_request: a new request before position i.  The data is
\* cut to the size of a cache block, while the caller is told that all of it
\* was taken (`return (ssize_t)count').
InsertRequest(S, i, off, data, ip) ==
  LET kept == SubSeq(data, 1, Lesser(Len(data), CacheSize))
      state == IF ip THEN "IP" ELSE IF Len(kept) = CacheSize THEN "DP" ELSE "PARTIAL"
      T == SetRequests(S, InsertAt(S.d.requests, i,
                                   [offset |-> off, data |-> kept, state |-> state]))
  IN  GrowFileSize(AddMember(T, state), i)

\* Bytes move between requests only if both go to the same partition next.
Mixed(dest, src) == dest.state # src.state /\ "IP" \in {dest.state, src.state}

\* how far request p reaches into request i
Overlap(S, p, i) == End(S.d.requests[p]) - S.d.requests[i].offset

\* p has room for bytes of i behind the overlap
Copies(S, p, i) ==
  /\ ~Mixed(S.d.requests[p], S.d.requests[i])
  /\ Len(S.d.requests[p].data) < CacheSize
  /\ Len(S.d.requests[i].data) > Overlap(S, p, i)

\* the pair once p has them, and how many bytes i is then to lose
Copied(S, p, i) ==
  IF Copies(S, p, i)
    THEN UpdateRequest(S, p, End(S.d.requests[p]), Drop(S.d.requests[i].data, Overlap(S, p, i)))
    ELSE S
CutOf(S, p, i) ==
  IF Copies(S, p, i)
    THEN Overlap(S, p, i) + UpdateCount(S, p, End(S.d.requests[p]),
                                        Len(S.d.requests[i].data) - Overlap(S, p, i))
    ELSE Overlap(S, p, i)

\* request i without its first n bytes; it is not full any more
CutRequest(S, i, n) ==
  LET r == S.d.requests[i]
      T == SetRequest(S, i, [offset |-> r.offset + n, data |-> Drop(r.data, n),
                             state |-> IF r.state = "DP" THEN "PARTIAL" ELSE r.state])
  IN  IF r.state = "DP" THEN AddMember(DelMember(T, "DP"), "PARTIAL") ELSE T

\* _unified_merge_requests(dest = request p, src = request i), p = 0 for a NULL
\* dest.  ret says whether src was left alone (0), cut (1) or removed (2).
Merge(S, p, i) ==
  IF p = 0 THEN [S |-> S, ret |-> 0]
  ELSE
    LET T == Copied(S, p, i)
        cut == CutOf(S, p, i)
        size == Len(S.d.requests[i].data)
    IN  CASE Overlap(S, p, i) < 0 -> [S |-> S, ret |-> 0]
          [] Overlap(S, p, i) >= 0 /\ cut = 0 -> [S |-> T, ret |-> 0]
          [] Overlap(S, p, i) >= 0 /\ cut > 0 /\ cut < size ->
               [S |-> CutRequest(T, i, cut), ret |-> 1]
          [] OTHER -> [S |-> DelMember(RemoveRequest(T, i), T.d.requests[i].state), ret |-> 2]

-----------------------------------------------------------------------------
(* The alternate extent list: where the file's bytes are on the index      *)
(* partition.  A request is one tape block, so an extent grows over        *)
(* several blocks only if each but the last is full.                       *)

ExtEnd(e) == e.fileoffset + e.bytecount
ExtByteEnd(e) == e.byteoffset + e.bytecount

\* cut an extent's first n bytes
CutFrontInBlock(e, n) ==
  [e EXCEPT !.byteoffset = @ + n, !.bytecount = @ - n]
CutFront(e, n) ==
  [block |-> e.block + (n + e.byteoffset) \div CacheSize,
   byteoffset |-> (n + e.byteoffset) % CacheSize,
   bytecount |-> e.bytecount - n, fileoffset |-> e.fileoffset + n]

\* the entry next to which new can be appended on the tape
Adjacent(e, new) ==
  /\ new.byteoffset = 0 /\ ExtByteEnd(e) % CacheSize = 0
  /\ e.block + ExtByteEnd(e) \div CacheSize = new.block

\* What one round of _unified_update_alt_extentlist's loop makes of entry e:
\* acc.out is the list so far, acc.used whether new is in it.
AltStep(acc, e, new) ==
  LET ins == ~acc.used /\ new.fileoffset <= e.fileoffset
      out == IF ins THEN Append(acc.out, new) ELSE acc.out
      used == acc.used \/ ins
      keep(x) == [out |-> Append(out, x), used |-> used]
  IN  CASE ExtEnd(e) < new.fileoffset -> keep(e)
        [] ExtEnd(e) = new.fileoffset ->
             IF Adjacent(e, new)
               THEN [out |-> Append(out, [e EXCEPT !.bytecount = @ + new.bytecount]),
                     used |-> TRUE]
               ELSE keep(e)
        [] e.fileoffset < new.fileoffset /\ new.fileoffset < ExtEnd(e) ->
             IF ExtEnd(e) <= ExtEnd(new)
               THEN keep([e EXCEPT !.bytecount = new.fileoffset - e.fileoffset])
               ELSE keep(e)
        [] /\ e.fileoffset >= new.fileoffset
           /\ new.fileoffset < ExtEnd(e) /\ ExtEnd(e) <= ExtEnd(new) ->
             [out |-> out, used |-> used]
        [] OTHER ->
             IF e.fileoffset < ExtEnd(new)
               THEN keep(CutFront(e, ExtEnd(new) - e.fileoffset))
               ELSE keep(e)

UpdateAlt(S, new) ==
  IF S.d.alt = <<>>
  THEN [S EXCEPT !.d.alt = <<new>>, !.g.ext_queue = @ + 1]
  ELSE LET acc == FoldLeft(LAMBDA a, e : AltStep(a, e, new),
                           [out |-> <<>>, used |-> FALSE], S.d.alt)
       IN  [S EXCEPT !.d.alt = IF acc.used THEN acc.out ELSE Append(acc.out, new)]

\* the bytes an extent stands for
ExtData(e) ==
  [k \in 1 .. e.bytecount |->
     LET pos == e.byteoffset + k - 1
     IN  ipTape[e.block + pos \div CacheSize][1 + (pos % CacheSize)]]

\* ltfs_fsraw_add_extent of every alternate extent, in list order
PushAlt(bytes, alt) ==
  FoldLeft(LAMBDA b, e : Overwrite(b, e.fileoffset, ExtData(e)), bytes, alt)

\* _unified_clear_alt_extentlist(false)
ClearAlt(S) ==
  IF S.d.alt = <<>> THEN S
  ELSE [S EXCEPT !.d.alt = <<>>, !.g.ext_queue = @ - 1]

-----------------------------------------------------------------------------
(* Data placement.                                                         *)

\* keep the requests at the positions in K; the cache blocks of the others are freed
KeepRequests(S, K) ==
  CacheFree(SetRequests(S, Pick(S.d.requests, K)), Len(S.d.requests) - Cardinality(K))

\* _unified_set_write_ip: DP requests are hidden from the global counter
SetWriteIp(S) ==
  [S EXCEPT !.d.write_ip = TRUE, !.g.dp_request_count = @ - S.d.in["DP"]]

\* _unified_unset_write_ip
UnsetWriteIpAll(S) ==
  ClearAlt(DelAllMembers(DelAllMembers(DelAllMembers(
    KeepRequests([S EXCEPT !.d.write_ip = FALSE], {}),
    "IP"), "DP"), "PARTIAL"))
UnsetWriteIp(S) ==
  LET kept == {k \in DOMAIN S.d.requests : S.d.requests[k].state # "IP"}
      T == IF S.d.in["IP"] = 0 THEN S ELSE DelAllMembers(KeepRequests(S, kept), "IP")
  IN  ClearAlt([T EXCEPT !.d.write_ip = FALSE,
                         !.g.dp_request_count = @ + T.d.in["DP"]])

\* _unified_get_dentry_priv
GetPriv(S) ==
  IF S.d.alloc THEN S
  ELSE [S EXCEPT !.d = [NoPriv EXCEPT
          !.alloc = TRUE, !.file_size = Len(disk),
          !.write_ip = matches /\ MaxIpSize # 0 /\ Len(disk) <= MaxIpSize]]

-----------------------------------------------------------------------------
(* Write errors.                                                           *)

\* ltfs_get_tape_readonly() < 0
TapeReadonly ==
  \/ tape.space["IP"] = "nospace" \/ tape.space["DP"] # "ok" \/ tape.pwe

\* the device refuses a write after an error; else it may succeed or fail
Outcomes(q, results) ==
  IF tape.pwe THEN {"werr"}
  ELSE IF tape.space[q] # "ok" THEN {tape.space[q]} ELSE results

\* what libltfs remembers of a failed write to partition q
TapeAfter(q, res) ==
  CASE res \in {"less", "nospace"} -> [tape EXCEPT !.space[q] = res]
    [] res = "perm" -> [tape EXCEPT !.pwe = TRUE]
    [] OTHER -> tape

\* _unified_write_index_after_perm: blocks that never left the drive's buffer
\* are cut out of the files, so any part of the file may be gone
DiskAfter(res) ==
  IF res = "perm" THEN {Resize(disk, n) : n \in 0 .. Len(disk)} ELSE {disk}

NoSpace(res) == res \in {"less", "nospace"}

\* An error is recorded unless the index partition is out of space.
ReportsNoSpaceNever(st, res) == ~NoSpace(res)
Reports(st, res) == ~(st = "IP" /\ NoSpace(res))

\* the file size once requests were dropped; size is libltfs'
SizeAfter(S, size) ==
  FoldLeft(LAMBDA n, r : Greater(n, End(r)), size, S.d.requests)

\* _unified_handle_write_error(res, a request in state st); t is the tape and
\* size the file's size in libltfs after the failure
HandleWriteError(S, res, st, t, size) ==
  LET other == IF st = "IP" THEN "DP" ELSE "IP"
      both == ~NoSpace(res) \/ t.space[other] # "ok" \/ t.pwe
      clear_ip == st = "IP" \/ both
      clear_dp == st # "IP" \/ both
      T == IF ~Reports(st, res) THEN S
           ELSE [S EXCEPT !.d.write_error = IF @ = "ok" THEN res ELSE @]
      U == IF clear_dp THEN DelAllMembers(DelAllMembers(T, "DP"), "PARTIAL") ELSE T
      V == IF clear_ip THEN DelAllMembers(U, "IP") ELSE U
      kept == {k \in DOMAIN S.d.requests :
                 IF S.d.requests[k].state = "IP" THEN ~clear_ip ELSE ~clear_dp}
      W == KeepRequests(V, kept)
  IN  [W EXCEPT !.d.file_size = SizeAfter(W, size)]

\* some unwritten byte is among the requests of S but no longer of T
DropsData(S, T) ==
  \E k \in DOMAIN S.d.requests :
    S.d.requests[k].state # "IP" /\ ~Contains(T.d.requests, S.d.requests[k])

-----------------------------------------------------------------------------
(* Steps.                                                                  *)

IdleWrite == [pc |-> "idle", offset |-> 0, size |-> 0, cur |-> 0, prev |-> 0,
              spare |-> FALSE]
IdleOp == [pc |-> "idle", mode |-> "none", cur |-> 0]
IdleBg == [pc |-> "idle", local |-> <<>>, ret |-> "ok"]

Init ==
  /\ site \in Sites
  /\ dpr = NoPriv /\ disk = <<>> /\ matches \in BOOLEAN
  /\ global = NoGlobal
  /\ tape = [space |-> [q \in {"DP", "IP"} |-> "ok"], pwe |-> FALSE]
  /\ handle = FALSE /\ ipTape = <<>>
  /\ wr = IdleWrite /\ op = IdleOp /\ bg = IdleBg
  /\ file = <<>> /\ lost = "no" /\ writes = 0

\* d->iosched_lock is free
Unlocked == wr.pc \in {"idle", "wait"} /\ op.pc = "idle"
\* dpr->io_lock is free
IoFree == bg.pc # "tape" /\ op.pc = "idle"

Commit(S) == dpr' = S.d /\ global' = S.g

\* bytes with requests written over them, in list order
Written(bytes, requests) ==
  FoldLeft(LAMBDA b, r : Overwrite(b, r.offset, r.data), bytes, requests)

\* the byte at offset b as unified_read finds it: in the first request that
\* ends after b, unless that one starts after b too
ReadByte(bytes, requests, b) ==
  LET later == {k \in DOMAIN requests : End(requests[k]) > b}
      k == CHOOSE j \in later : \A m \in later : j <= m
  IN  IF later # {} /\ requests[k].offset <= b
        THEN requests[k].data[b - requests[k].offset + 1]
        ELSE IF b < Len(bytes) THEN bytes[b + 1] ELSE 0

\* unified_read of the whole file, with bytes in libltfs
View(bytes, requests) ==
  [i \in 1 .. FoldLeft(LAMBDA n, r : Greater(n, End(r)), Len(bytes), requests) |->
     ReadByte(bytes, requests, i - 1)]

\* ltfs_fsraw_open: opening for write looks at the placement rules again
Open(m) ==
  /\ ~handle /\ Unlocked
  /\ handle' = TRUE
  /\ matches' = IF ~matches /\ MaxIpSize > 0 /\ Len(disk) <= MaxIpSize THEN m ELSE matches
  /\ UNCHANGED <<dpr, disk, global, tape, ipTape, wr, op, bg, file, lost, writes, site>>

-----------------------------------------------------------------------------
(* unified_write.                                                          *)

Stamp == Fill(wr.size, writes)
\* the callers count n bytes as written once the code advances past them
Promise(n) == file' = Overwrite(file, wr.offset, Fill(n, writes))
Advance(n) == [wr EXCEPT !.offset = @ + n, !.size = @ - n]

\* write_start, after the lock is taken: a pending error is returned (and a
\* cache block the writer waited for is forgotten, not freed), else data
\* placement is updated and the list is looked at
WriteStart(w) ==
  LET S == GetPriv(Pair)
      unset == /\ S.d.write_ip
               /\ \/ w.offset + w.size > MaxIpSize
                  \/ tape.space["IP"] # "ok" /\ ~tape.pwe
  IN  IF S.d.write_error # "ok"
      THEN /\ Commit([S EXCEPT !.d.write_error = "ok",
                               !.g.leaked = IF w.spare THEN @ + 1 ELSE @])
           /\ lost' = "no" /\ wr' = IdleWrite
      ELSE /\ Commit(IF unset THEN UnsetWriteIp(S) ELSE S)
           /\ wr' = [w EXCEPT !.pc = "append"]
           /\ UNCHANGED lost

BeginWrite(off, size) ==
  /\ handle /\ Unlocked /\ wr.pc = "idle" /\ writes < MaxWrites
  /\ off + size <= MaxFile
  /\ \/ ~TapeReadonly
     \/ dpr.alloc /\ dpr.write_error # "ok"  \* reported before the check
  /\ writes' = writes + 1
  /\ WriteStart([IdleWrite EXCEPT !.offset = off, !.size = size])
  /\ UNCHANGED <<disk, matches, tape, handle, ipTape, op, bg, file, site>>

\* _unified_cache_alloc found a block: the writer has it in spare_cache
GetCacheBlock ==
  /\ wr.pc = "wait" /\ Unlocked /\ global.cache < CacheBlocks
  /\ global' = [global EXCEPT !.cache = @ + 1]
  /\ wr' = [wr EXCEPT !.pc = "retry", !.spare = TRUE]
  /\ UNCHANGED <<dpr, disk, matches, tape, handle, ipTape, op, bg, file, lost, writes, site>>

RetryWrite ==
  /\ wr.pc = "retry" /\ op.pc = "idle"
  /\ WriteStart(wr)
  /\ UNCHANGED <<disk, matches, tape, handle, ipTape, op, bg, file, writes, site>>

\* A new request takes the spare block, or a fresh one, or has to wait.
NeedsWait == ~wr.spare /\ global.cache = CacheBlocks
TakeBlock(S) == IF wr.spare THEN S ELSE CacheFree(S, -1)

WaitForCache ==
  /\ wr' = [wr EXCEPT !.pc = "wait", !.cur = 0, !.prev = 0]
  /\ UNCHANGED <<dpr, global, file>>

\* do_append: extend the last request, then add a new one at the end; or walk
\* through the list when the write starts before its end
WriteAppend ==
  /\ wr.pc = "append"
  /\ LET n == Len(dpr.requests)
         last == IF n = 0 THEN 0 ELSE End(dpr.requests[n])
         extends == /\ n > 0 /\ Len(dpr.requests[n].data) < CacheSize
                    /\ wr.offset = last /\ dpr.requests[n].state # "IP"
         c == UpdateCount(Pair, n, wr.offset, wr.size)
     IN  \/ /\ wr.offset >= last /\ extends
            /\ Commit(UpdateRequest(Pair, n, wr.offset, Stamp))
            /\ Promise(c)
            /\ wr' = [Advance(c) EXCEPT !.pc = IF c = wr.size THEN "out" ELSE "append"]
         \/ /\ wr.offset >= last /\ ~extends /\ ~NeedsWait
            /\ Commit(InsertRequest(TakeBlock(Pair), n + 1, wr.offset, Stamp, FALSE))
            /\ Promise(wr.size)
            /\ wr' = [Advance(wr.size) EXCEPT !.pc = "out", !.spare = FALSE]
         \/ /\ wr.offset >= last /\ ~extends /\ NeedsWait
            /\ WaitForCache
         \/ /\ wr.offset < last
            /\ wr' = [wr EXCEPT !.pc = "scan", !.cur = 1, !.prev = 0]
            /\ UNCHANGED <<dpr, global, file>>
  /\ UNCHANGED <<disk, matches, tape, handle, ipTape, op, bg, lost, writes, site>>

\* the head of the loop over the requests: past the end of the list, or a
\* request that the (rest of the) write lies behind, or one to work on
WriteScan ==
  /\ wr.pc = "scan"
  /\ wr' = CASE wr.cur > Len(dpr.requests) ->
                 [wr EXCEPT !.pc = IF wr.size > 0 THEN "append" ELSE "out"]
             [] wr.cur <= Len(dpr.requests) /\ wr.offset > End(dpr.requests[wr.cur]) ->
                 [wr EXCEPT !.cur = @ + 1]
             [] OTHER -> [wr EXCEPT !.pc = "before"]
  /\ UNCHANGED <<dpr, disk, matches, global, tape, handle, ipTape, op, bg, file, lost, writes, site>>

InsertsBefore == wr.size > 0 /\ wr.offset < dpr.requests[wr.cur].offset

\* do_insert_before
WriteBefore ==
  /\ wr.pc = "before" /\ InsertsBefore
  /\ \/ /\ ~NeedsWait
        /\ Commit(InsertRequest(TakeBlock(Pair), wr.cur, wr.offset, Stamp, FALSE))
        /\ Promise(wr.size)
        /\ wr' = [Advance(wr.size) EXCEPT !.prev = wr.cur, !.cur = @ + 1, !.spare = FALSE]
     \/ NeedsWait /\ WaitForCache
  /\ UNCHANGED <<disk, matches, tape, handle, ipTape, op, bg, lost, writes, site>>

\* a request leaves the list: its block becomes the spare or goes to the pool
KeepOrFreeNever(S) == S
KeepOrFree(S) == IF wr.spare THEN CacheFree(S, 1) ELSE S

\* the end of a round of the loop
NextRoundDone(w, merged) ==
  IF w.size = 0
    THEN [w EXCEPT !.pc = "out"]
    ELSE [w EXCEPT !.pc = "scan", !.prev = w.cur, !.cur = @ + 1]
NextRound(w, merged) ==
  IF w.size = 0 /\ ~merged
    THEN [w EXCEPT !.pc = "out"]
    ELSE [w EXCEPT !.pc = "scan", !.prev = w.cur, !.cur = @ + 1]

\* request r has, or has room for, bytes of a write at offset off
TakesBytes(r, off) ==
  r.state # "IP" /\ (off < End(r) \/ (off = End(r) /\ Len(r.data) < CacheSize))

\* merge the current request into the previous one, then settle the overlap of
\* the write with what is left of it
WriteOverlap ==
  LET m == Merge(Pair, wr.prev, wr.cur)
      S == m.S
      r == S.d.requests[wr.cur]
      merged == m.ret = 1
      c == UpdateCount(S, wr.cur, wr.offset, wr.size)
      reaches == wr.size > 0 /\ wr.offset >= r.offset
      overlapsIp == reaches /\ r.state = "IP" /\ wr.offset < End(r)
      updates == reaches /\ TakesBytes(r, wr.offset)
      cutTo(T, n) == SetRequest(T, wr.cur, [r EXCEPT !.data = SubSeq(@, 1, n)])
      keep == wr.offset - r.offset            \* bytes of r before the write
      skip == keep + wr.size                  \* bytes of r up to its end
  IN
  /\ wr.pc = "before" /\ ~InsertsBefore
  /\ \/ /\ m.ret = 2                         \* swallowed by the previous one
        /\ Commit(KeepOrFree(S))
        /\ wr' = [wr EXCEPT !.pc = "scan", !.spare = TRUE]
        /\ UNCHANGED file
     \/ /\ m.ret # 2 /\ updates
        /\ Commit(UpdateRequest(S, wr.cur, wr.offset, Stamp))
        /\ Promise(c)
        /\ wr' = NextRound(Advance(c), TRUE)
     \/ /\ m.ret # 2 /\ overlapsIp /\ keep = 0 /\ skip >= Len(r.data)   \* remove
        /\ Commit(KeepOrFree(DelMember(RemoveRequest(S, wr.cur), "IP")))
        /\ wr' = [wr EXCEPT !.pc = "scan", !.spare = TRUE]
        /\ UNCHANGED file
     \/ /\ m.ret # 2 /\ overlapsIp /\ keep = 0 /\ skip < Len(r.data)    \* cut front
        /\ Commit(SetRequest(S, wr.cur, [r EXCEPT !.data = Drop(@, skip), !.offset = @ + skip]))
        /\ UNCHANGED <<wr, file>>
     \/ /\ m.ret # 2 /\ overlapsIp /\ keep > 0 /\ skip >= Len(r.data)   \* cut back
        /\ Commit(cutTo(S, keep))
        /\ wr' = NextRound(wr, merged)
        /\ UNCHANGED file
     \/ /\ m.ret # 2 /\ overlapsIp /\ keep > 0 /\ skip < Len(r.data)    \* split
        /\ \/ /\ ~NeedsWait
              /\ LET T == InsertRequest(TakeBlock(S), wr.cur + 1, r.offset + skip,
                                        Drop(r.data, skip), TRUE)
                 IN  Commit(cutTo(T, keep))
              /\ wr' = [wr EXCEPT !.cur = @ + 1, !.spare = FALSE]
              /\ UNCHANGED file
           \/ /\ NeedsWait /\ Commit(S)
              /\ wr' = [wr EXCEPT !.pc = "wait", !.cur = 0, !.prev = 0]
              /\ UNCHANGED file
     \/ /\ m.ret # 2 /\ ~updates /\ ~overlapsIp
        /\ Commit(S)
        /\ wr' = IF wr.size > 0 /\ ~reaches THEN wr   \* back to do_insert_before
                 ELSE NextRound(wr, merged)
        /\ UNCHANGED file
  /\ UNCHANGED <<disk, matches, tape, handle, ipTape, op, bg, lost, writes, site>>

WriteOut ==
  /\ wr.pc = "out"
  /\ wr' = IdleWrite
  /\ global' = IF wr.spare THEN [global EXCEPT !.cache = @ - 1] ELSE global
  /\ UNCHANGED <<dpr, disk, matches, tape, handle, ipTape, op, bg, file, lost, writes, site>>

-----------------------------------------------------------------------------
(* Flushing and the queues.                                                *)

\* An operation that walks through the requests with both locks held.  Modes:
\* "close" and "flush" (_unified_flush_unlocked for a caller), "DP" and
\* "PARTIAL" (_unified_process_data_queue by the writer thread), "unmount"
\* (the writer thread's last flush, followed by the index queue).  Cache
\* pressure from any file makes the writer thread turn to the working set or to
\* the index queue, so it may do so at any time.
IsFlush(mode) == mode \in {"close", "flush", "unmount"}

\* _unified_free_dentry_priv_conditional, for the last handle; an error that
\* nobody was told of is gone with the structure
Frees(S) == S.d.alloc /\ S.d.requests = <<>> /\ S.d.alt = <<>>
Freed(S) == IF Frees(S) THEN [S EXCEPT !.d = NoPriv] ELSE S
LostAfter(S, l) == IF l = "pending" /\ Frees(S) THEN "silent" ELSE l

Unwritten == SelectSeq(dpr.requests, LAMBDA r : r.state # "IP")
\* requests that lie entirely within one in front of them
Overtaken(q) == {k \in DOMAIN q : \E j \in 1 .. k - 1 : End(q[k]) <= End(q[j])}

\* Does the walk have anything to do?  A flush first looks for an error.
Busy(mode) ==
  dpr.requests # <<>> /\ (IsFlush(mode) => dpr.write_error = "ok")

\* _unified_flush_unlocked waits for the io_lock only if there are requests,
\* _unified_free_dentry_priv_conditional only if there are none; unified_flush
\* and the index queue stop the writer thread by the scheduler's write lock
BeginData(mode) ==
  /\ Unlocked
  /\ mode # "close" => bg.pc = "idle"
  /\ mode = "close" /\ (Busy(mode) \/ Frees(Pair)) => IoFree
  /\ CASE mode = "DP" -> dpr.in["DP"] > 0
       [] mode = "PARTIAL" -> dpr.in["DP"] + dpr.in["PARTIAL"] > 0
       [] mode = "flush" -> dpr.alloc
       [] mode = "close" -> handle /\ wr.pc = "idle"
       [] mode = "unmount" -> ~handle /\ wr.pc = "idle"
  /\ LET S == IF mode = "DP" THEN DelAllMembers(Pair, "DP")
              ELSE DelAllMembers(DelAllMembers(Pair, "DP"), "PARTIAL")
     IN  /\ Commit(IF Busy(mode) THEN S ELSE Pair)
         /\ op' = [pc |-> IF Busy(mode) THEN "data" ELSE "end", mode |-> mode, cur |-> 1]
  /\ lost' = IF lost = "no" /\ Busy(mode) /\ Overtaken(Unwritten) # {} THEN "stale" ELSE lost
  /\ UNCHANGED <<disk, matches, tape, handle, ipTape, wr, bg, file, writes, site>>

\* S after a merge of request i into its predecessor, and the next position
AfterMerge(S, i) ==
  LET m == Merge(S, i - 1, i)
  IN  IF m.ret = 2 THEN [S |-> CacheFree(m.S, 1), cur |-> i] ELSE [S |-> m.S, cur |-> i + 1]

\* One request of the walk.  A copy for the IP is merged with its predecessor.
\* A request of this walk's kind is written to the DP and then kept for the IP
\* (write_ip) or freed; the writer thread, without write_ip, only takes it.
DataStep(res) ==
  /\ op.pc = "data" /\ op.cur <= Len(dpr.requests)
  /\ LET r == dpr.requests[op.cur]
         mine == r.state # "IP" /\ (op.mode = "DP" => r.state = "DP")
         takes == mine /\ ~IsFlush(op.mode) /\ ~dpr.write_ip
         toIp == AddMember(SetRequest(Pair, op.cur, [r EXCEPT !.state = "IP"]), "IP")
         a == AfterMerge(IF mine THEN toIp ELSE Pair, op.cur)
     IN  \/ /\ r.state = "IP" /\ res = "ok"
            /\ Commit(a.S) /\ op' = [op EXCEPT !.cur = a.cur]
            /\ UNCHANGED <<disk, tape, bg, file, lost>>
         \/ /\ r.state # "IP" /\ ~mine /\ res = "ok"
            /\ op' = [op EXCEPT !.cur = @ + 1]
            /\ UNCHANGED <<dpr, global, disk, tape, bg, file, lost>>
         \/ /\ takes /\ res = "ok"
            /\ Commit(RemoveRequest(Pair, op.cur))
            /\ bg' = [bg EXCEPT !.local = Append(@, r)]
            /\ UNCHANGED <<op, disk, tape, file, lost>>
         \/ /\ mine /\ ~takes /\ res = "ok" /\ res \in Outcomes("DP", DpResults)
            /\ disk' = Overwrite(disk, r.offset, r.data)
            /\ IF dpr.write_ip
                 THEN Commit(a.S) /\ op' = [op EXCEPT !.cur = a.cur]
                 ELSE Commit(CacheFree(RemoveRequest(Pair, op.cur), 1)) /\ op' = op
            /\ UNCHANGED <<tape, bg, file, lost>>
         \/ /\ mine /\ ~takes /\ res # "ok" /\ res \in Outcomes("DP", DpResults)
            /\ tape' = TapeAfter("DP", res)
            /\ disk' \in DiskAfter(res)
            /\ LET failed == HandleWriteError(Pair, res, r.state, tape', Len(disk'))
               IN  Commit(failed) /\ file' = View(disk', failed.d.requests)
            /\ lost' = "pending"
            /\ op' = [op EXCEPT !.pc = "end"]
            /\ UNCHANGED bg
  /\ UNCHANGED <<matches, handle, ipTape, wr, writes, site>>

\* The end of the walk.  A flush hands the pending error to its caller, a close
\* also drops the handle, unmount (which tells nobody) goes on with the index
\* queue; the writer thread gives up the iosched_lock and turns to the tape.
DataEnd ==
  /\ \/ op.pc = "data" /\ op.cur > Len(dpr.requests)
     \/ op.pc = "end"
  /\ LET told == IF IsFlush(op.mode) THEN [Pair EXCEPT !.d.write_error = "ok"] ELSE Pair
         tell == IF dpr.write_error # "ok" THEN "no" ELSE lost
     IN  CASE op.mode = "unmount" ->
                /\ Commit(DelAllMembers(told, "IP"))
                /\ lost' = IF lost = "pending" THEN "gone" ELSE lost
                /\ op' = [op EXCEPT !.pc = "index", !.cur = 1] /\ UNCHANGED <<handle, bg>>
           [] op.mode = "close" ->
                /\ Commit(Freed(told)) /\ lost' = LostAfter(told, tell)
                /\ op' = IdleOp /\ handle' = FALSE /\ UNCHANGED bg
           [] op.mode = "flush" ->
                Commit(told) /\ lost' = tell /\ op' = IdleOp /\ UNCHANGED <<handle, bg>>
           [] OTHER ->
                /\ bg' = IF bg.local = <<>> THEN bg ELSE [bg EXCEPT !.pc = "tape"]
                /\ op' = IdleOp /\ UNCHANGED <<dpr, global, lost, handle>>
  /\ UNCHANGED <<disk, matches, tape, ipTape, wr, file, writes, site>>

\* the writer thread writes the next request it took, holding the io_lock
TapeStep(res) ==
  /\ bg.pc = "tape" /\ res \in Outcomes("DP", DpResults)
  /\ IF res = "ok"
     THEN /\ disk' = Overwrite(disk, Head(bg.local).offset, Head(bg.local).data)
          /\ global' = [global EXCEPT !.cache = @ - 1]
          /\ bg' = IF Len(bg.local) = 1 THEN IdleBg ELSE [bg EXCEPT !.local = Tail(@)]
          /\ UNCHANGED <<tape, file, lost>>
     ELSE /\ tape' = TapeAfter("DP", res)
          /\ disk' \in DiskAfter(res)
          /\ bg' = [bg EXCEPT !.pc = "fail", !.ret = res]
          /\ file' = View(disk', dpr.requests)
          /\ lost' = "pending"
          /\ UNCHANGED global
  /\ UNCHANGED <<dpr, matches, handle, ipTape, wr, op, writes, site>>

\* after an error it takes the iosched_lock again: the dentry_priv may be gone
TapeFail ==
  /\ bg.pc = "fail" /\ Unlocked
  /\ LET failed == HandleWriteError(Pair, bg.ret, Head(bg.local).state, tape, Len(disk))
         S == IF dpr.alloc THEN failed ELSE Pair
     IN  /\ Commit(CacheFree(S, Len(bg.local)))
         /\ file' = View(disk, S.d.requests)
  /\ bg' = IdleBg
  /\ UNCHANGED <<disk, matches, tape, handle, ipTape, wr, op, lost, writes, site>>

\* _unified_process_index_queue, by the writer thread
BeginIndex ==
  /\ Unlocked /\ bg.pc = "idle" /\ dpr.in["IP"] > 0
  /\ Commit(DelAllMembers(Pair, "IP"))
  /\ op' = [pc |-> "index", mode |-> "IP", cur |-> 1]
  /\ UNCHANGED <<disk, matches, tape, handle, ipTape, wr, bg, file, lost, writes, site>>

\* one request of the index queue.  After a permanent write error the status of
\* tape_set_cart_volume_lock_status takes the place of the error.
IndexStep(res) ==
  /\ op.pc = "index" /\ op.cur <= Len(dpr.requests)
  /\ LET r == dpr.requests[op.cur]
         new == [block |-> Len(ipTape) + 1, byteoffset |-> 0,
                 bytecount |-> Len(r.data), fileoffset |-> r.offset]
         reported == IF res = "perm" THEN "ok" ELSE res
         failed == HandleWriteError(Pair, reported, "IP", TapeAfter("IP", res), Len(disk))
     IN  \/ /\ r.state # "IP" /\ res = "ok"
            /\ op' = [op EXCEPT !.cur = @ + 1]
            /\ UNCHANGED <<dpr, global, ipTape, tape, file, lost>>
         \/ /\ r.state = "IP" /\ res = "ok" /\ res \in Outcomes("IP", IpResults)
            /\ ipTape' = Append(ipTape, r.data)
            /\ Commit(UpdateAlt(CacheFree(RemoveRequest(Pair, op.cur), 1), new))
            /\ UNCHANGED <<op, tape, file, lost>>
         \/ /\ r.state = "IP" /\ res # "ok" /\ res \in Outcomes("IP", IpResults)
            /\ Commit(failed) /\ tape' = TapeAfter("IP", res)
            /\ file' = View(disk, failed.d.requests)
            /\ lost' = IF DropsData(Pair, failed) /\ lost # "pending" THEN "index" ELSE lost
            /\ op' = [op EXCEPT !.cur = Len(failed.d.requests) + 1]
            /\ UNCHANGED ipTape
  /\ UNCHANGED <<disk, matches, handle, wr, bg, writes, site>>

IndexEnd ==
  /\ op.pc = "index" /\ op.mode = "IP" /\ op.cur > Len(dpr.requests)
  /\ Commit(IF handle THEN Pair ELSE Freed(Pair))
  /\ lost' = IF handle THEN lost ELSE LostAfter(Pair, lost)
  /\ op' = IdleOp
  /\ UNCHANGED <<disk, matches, tape, handle, ipTape, wr, bg, file, writes, site>>

\* unified_destroy: the extents on the IP become the file's extents (unless the
\* device had a write error), everything else goes; a new mount may follow
Unmount ==
  /\ op.pc = "index" /\ op.mode = "unmount" /\ op.cur > Len(dpr.requests)
  /\ disk' = IF dpr.write_ip /\ ~tape.pwe THEN PushAlt(disk, dpr.alt) ELSE disk
  /\ Commit([d |-> NoPriv, g |-> NoGlobal])
  /\ op' = IdleOp
  /\ UNCHANGED <<matches, tape, handle, ipTape, wr, bg, file, lost, writes, site>>

-----------------------------------------------------------------------------
(* unified_truncate and unified_update_data_placement.                     *)

\* The requests are visited from the last one back to the first that ends at or
\* before len.
TruncateRequests(S, len) ==
  LET q == S.d.requests
      within(k) == q[k].offset < len /\ End(q[k]) <= len
      visited(k) == \A j \in k .. Len(q) : ~within(j)
      left == {k \in DOMAIN q : visited(k) => q[k].offset < len}
      gone(st) == Cardinality({k \in DOMAIN q \ left : q[k].state = st})
      T == DelMembers(DelMembers(DelMembers(S, "PARTIAL", gone("PARTIAL")),
                      "DP", gone("DP")), "IP", gone("IP"))
      cut == [k \in DOMAIN q |-> IF k \in left /\ visited(k)
                THEN [q[k] EXCEPT !.data = SubSeq(@, 1, len - q[k].offset)] ELSE q[k]]
  IN  KeepRequests(SetRequests(T, cut), left)

\* the extents are cut too, but a list that becomes empty stays in the ext_queue
TruncateAltNot(S, len) == S
TruncateAlt(S, len) ==
  LET kept == SelectSeq(S.d.alt, LAMBDA e : e.fileoffset < len)
  IN  [S EXCEPT !.d.alt = [k \in DOMAIN kept |->
         [kept[k] EXCEPT !.bytecount = Lesser(@, len - kept[k].fileoffset)]]]

Truncate(len) ==
  /\ Truncates /\ handle /\ Unlocked /\ IoFree /\ ~TapeReadonly /\ len # Len(file)
  /\ LET S == IF len < dpr.file_size
                THEN TruncateAlt(TruncateRequests(Pair, len), len) ELSE Pair
         T == [S EXCEPT !.d.file_size = len]
     IN  Commit(IF ~dpr.alloc THEN Pair
                ELSE IF ~dpr.write_ip /\ MaxIpSize > 0 /\ len = 0 /\ matches THEN SetWriteIp(T)
                ELSE IF dpr.write_ip /\ (len > MaxIpSize \/ ~matches) THEN UnsetWriteIp(T)
                ELSE T)
  /\ disk' = Resize(disk, len)
  /\ file' = Resize(file, len)
  /\ UNCHANGED <<matches, tape, handle, ipTape, wr, op, bg, lost, writes, site>>

\* a rename (or an unlink: m = FALSE), then unified_update_data_placement
UpdatePlacement(m) ==
  /\ Unlocked /\ m # matches
  /\ matches' = m
  /\ Commit(IF ~dpr.alloc THEN Pair
            ELSE IF ~dpr.write_ip /\ MaxIpSize > 0 /\ dpr.file_size <= MaxIpSize /\ m
              THEN SetWriteIp(Pair)
            ELSE IF dpr.write_ip /\ (dpr.file_size > MaxIpSize \/ ~m) THEN UnsetWriteIp(Pair)
            ELSE Pair)
  /\ UNCHANGED <<disk, tape, handle, ipTape, wr, op, bg, file, lost, writes, site>>

-----------------------------------------------------------------------------
(* The writer thread's choice of a queue under cache pressure, if no other *)
(* file has requests: num_waiting is 1.  IP_HIGH_WATERMARK is 0.6.         *)
QueueChoiceNoIp ==
  IF global.dp_request_count > 2 THEN "DP" ELSE "PARTIAL"
QueueChoice ==
  IF global.dp_request_count > 2 THEN "DP"
  ELSE IF dpr.in["IP"] < (6 * CacheBlocks) \div 10 THEN "PARTIAL" ELSE "IP"

WriterTurn ==
  /\ wr.pc = "wait"
  /\ \/ QueueChoice = "IP" /\ BeginIndex
     \/ QueueChoice # "IP" /\ BeginData(QueueChoice)

-----------------------------------------------------------------------------
WriteStep ==
  \/ RetryWrite \/ WriteAppend \/ WriteScan \/ WriteBefore \/ WriteOverlap \/ WriteOut

OpStep ==
  \/ \E res \in Results \cup {"werr"} : DataStep(res) \/ IndexStep(res)
  \/ DataEnd \/ IndexEnd \/ Unmount

WriterStep == TapeFail \/ \E res \in Results \cup {"werr"} : TapeStep(res)

Next ==
  \/ \E m \in BOOLEAN : Open(m) \/ UpdatePlacement(m)
  \/ \E off \in 0 .. MaxFile, size \in 1 .. MaxWrite : BeginWrite(off, size)
  \/ GetCacheBlock
  \/ WriteStep
  \/ \E mode \in {"close", "flush", "unmount", "DP", "PARTIAL"} : BeginData(mode)
  \/ BeginIndex
  \/ OpStep
  \/ WriterStep
  \/ \E len \in 0 .. MaxFile : Truncate(len)

Spec == Init /\ [][Next]_vars

\* Every thread keeps running, and a thread that waits for a mutex which is
\* free again and again gets it.
Fairness ==
  /\ WF_vars(WriteStep) /\ WF_vars(OpStep) /\ WF_vars(WriterStep)
  /\ SF_vars(GetCacheBlock) /\ SF_vars(RetryWrite) /\ SF_vars(WriterTurn)
FairSpec == Spec /\ Fairness

-----------------------------------------------------------------------------
(* Properties.  Most speak of the moments when the iosched_lock is free:   *)
(* those are the states that another thread can see.                       *)

InState(requests, q) == {k \in DOMAIN requests : requests[k].state = q}

\* libltfs' bytes once the writer thread is done (readers wait for its io_lock)
Settled == IF bg.pc = "tape" THEN Written(disk, bg.local) ELSE disk

\* No dropped bytes are unreported, and no partition ran full under a second
\* copy: extents on the IP may then be older than the bytes on the DP and still
\* replace them at unmount.
Undamaged ==
  /\ lost = "no" /\ bg.pc # "fail" /\ tape.space["IP"] = "ok"
  /\ MaxIpSize = 0 \/ tape.space["DP"] = "ok"

\* The in_working_set, in_dp_queue and in_ip_queue counters, and the global
\* dp_request_count by which the writer thread chooses its work, match the
\* request list after any sequence of writes, merges, cuts, flushes and changes
\* of placement (_unified_update_queue_membership is called from 20 places).
QueueCountsMatch ==
  Unlocked =>
    /\ \A q \in States : dpr.in[q] = Cardinality(InState(dpr.requests, q))
    /\ global.dp_request_count = IF dpr.write_ip THEN 0 ELSE dpr.in["DP"]

\* A reader sees every byte written so far, whether it is in the cache, in the
\* writer thread's hands or on the tape, and zeros in the gaps (unified_read
\* over the list that unified_write keeps).
ReadSeesWrites == Unlocked /\ Undamaged => View(Settled, dpr.requests) = file

\* Writing the unwritten requests to the DP in list order, which is what
\* _unified_flush_unlocked and the writer thread do, yields the file: no
\* request holds stale bytes that a newer one in front of it has replaced.
FlushWritesFile == Unlocked /\ Undamaged => Written(Settled, Unwritten) = file

\* The same of all unwritten requests but those that lie entirely within one in
\* front of them, which is how FlushWritesFile fails: of two requests that
\* overlap in part the later one has the newer bytes (_unified_merge_requests).
FlushKeepsNewest ==
  Unlocked /\ Undamaged =>
    Written(Settled, Pick(Unwritten, DOMAIN Unwritten \ Overtaken(Unwritten))) = file

\* dentry_priv.file_size is the "Real file size, including outstanding write
\* requests".  Does not hold: a truncation stops at an overtaken request.
SizeAgrees == Unlocked /\ dpr.alloc /\ bg.pc # "fail" => dpr.file_size = Len(file)

\* The second copy never holds anything else than the first: the extents on
\* the IP, with the waiting requests over them, leave the file as it is
\* between two writes (one that waits for a block has cut requests already).
AltAgrees ==
  Unlocked /\ Undamaged /\ wr.pc = "idle" /\ dpr.write_ip /\ ~tape.pwe =>
    View(PushAlt(file, dpr.alt), dpr.requests) = file

\* Once the scheduler has forgotten the file (closed, or the volume unmounted)
\* libltfs has all of it: "All writes which were outstanding when the close
\* request started have been issued" (unified_close), and at unmount the
\* extents on the IP replace only bytes equal to them, unless a partition ran
\* full.
DiskIsFile == Unlocked /\ ~dpr.alloc /\ Undamaged => disk = file

\* Every cache block in use belongs to a request, to the writer thread's list
\* or to a writer that waited for it, whatever errors occurred: none is freed
\* twice, and the only one that leaks is the block of a write that finds an
\* error when it starts over.  No request is empty or outgrows its block (the
\* memcpy of _unified_update_request).
CacheAccounted ==
  Unlocked =>
    /\ \A k \in DOMAIN dpr.requests : Len(dpr.requests[k].data) \in 1 .. CacheSize
    /\ global.cache = Len(dpr.requests) + Len(bg.local) + (IF wr.spare THEN 1 ELSE 0)
                      + global.leaked

\* When bytes were dropped by an error of the data partition, the error is on
\* record, or about to be, until a caller is told of it: no other error, no
\* change of placement, no truncation and no write that starts over loses it
\* (write_error).  A close and an error of the index partition do, see below.
ErrorPending ==
  Unlocked /\ lost = "pending" => dpr.write_error # "ok" \/ bg.pc = "fail"

\* "errors hit by the background thread need to be propagated on a future
\* request to write, flush or close" (struct dentry_priv, write_error): no close
\* returns 0 and frees the record before a caller was told, and bytes that an
\* error of the index partition drops are on record, too.  Does not hold.
ErrorReported ==
  /\ lost # "silent"
  /\ Unlocked /\ lost = "index" => dpr.write_error # "ok"

\* A write that waits for a cache block gets one and returns: under cache
\* pressure the writer thread's choice of queue always frees a block in the end.
WriteReturns == wr.pc # "idle" ~> wr.pc = "idle"
=============================================================================
