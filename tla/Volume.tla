------------------------------ MODULE Volume ------------------------------
(***************************************************************************)
(* An LTFS volume: labels, indexes on two partitions, coherency data in    *)
(* the cartridge memory, and the code that writes, mounts, checks and      *)
(* recovers them (ltfs.c, ltfs_internal.c).  To the record x of Tape it    *)
(* adds                                                                    *)
(*                                                                         *)
(*   vol   struct ltfs_volume: the index in memory, ip_index_file_end and  *)
(*         dp_index_file_end (end), ip_coh and dp_coh (coh), lock_status   *)
(*   fm    whether the index read last was followed by a file mark         *)
(*                                                                         *)
(* An index occupies two records, its beginning and its end, so that a     *)
(* process that dies may leave half of it.  A file is one record; its      *)
(* extent also carries the version v written there, which the code does    *)
(* not know of and the properties compare with the medium.                 *)
(***************************************************************************)
EXTENDS Tape

CONSTANTS Names          \* file names

IP == 0
DP == 1

Off(p, b) == [p |-> p, b |-> b]
Nowhere == Off(-1, 0)
NoFile == [p |-> -1, b |-> 0, v |-> 0]

AnsiLabel == [t |-> "ansi"]
XmlLabel(uuid) == [t |-> "xml", uuid |-> uuid]
IndexHead(idx) == [t |-> "head", idx |-> [idx EXCEPT !.dirty = FALSE]]
IndexTail(idx) == [t |-> "tail", gen |-> idx.gen]
FileData(v) == [t |-> "data", v |-> v]

\* a new index
ltfs_index_alloc(uuid) ==
    [gen |-> 0, uuid |-> uuid, self |-> Nowhere, back |-> Nowhere,
     files |-> [n \in Names |-> NoFile], lost |-> {}, lock |-> "UNLOCKED",
     dirty |-> FALSE]

\* a new volume; no uuid is 0
ltfs_volume_alloc ==
    [index |-> ltfs_index_alloc(0), uuid |-> 0, mount |-> "NORMAL",
     end |-> [p \in Parts |-> FALSE], coh |-> [p \in Parts |-> ZeroCoh],
     lock |-> "UNLOCKED", attr |-> [label |-> "", lock |-> "UNLOCKED"]]

IS_SINGLE_WRITE_PERM(s) == s \in {"PWE", "PWE_DP", "PWE_IP"}

ltfs_set_index_dirty(x) == [x EXCEPT !.vol.index.dirty = TRUE]
ltfs_unset_index_dirty(x) == [x EXCEPT !.vol.index.dirty = FALSE]

\* IP first, then DP; low space is not a reason here
PartitionsReadonly(x) ==
    LET ip == tape_read_only(x, IP)
        dp == tape_read_only(x, DP)
        low == {"ok", "LTFS_NO_SPACE", "LTFS_LESS_SPACE"}
    IN  IF ip \notin low THEN ip ELSE IF dp \notin low THEN dp ELSE "ok"

ltfs_get_tape_readonly(x) ==
    LET ip == tape_read_only(x, IP)
        r == IF ip \in {"ok", "LTFS_LESS_SPACE"} THEN tape_read_only(x, DP) ELSE ip
    IN  CASE r = "ok" /\ x.vol.lock \in {"LOCKED", "PERMLOCKED"} -> "LTFS_WRITE_PROTECT"
          [] r = "ok" /\ x.vol.lock \in {"PWE", "PWE_DP", "PWE_IP", "PWE_BOTH"} -> "LTFS_WRITE_ERROR"
          [] OTHER -> r

---------------------------------------------------------------------------
(* Writing an index                                                        *)

\* a partition that ends in an index gets the current volume change
\* reference, also when another partition was written; errors are ignored
CoherencyOf(x, p, vcr) ==
    LET idx == x.vol.index
        old == x.vol.coh[p]
    IN  [old EXCEPT !.count = IF idx.self.p = p THEN idx.gen ELSE @,
                    !.setid = IF idx.self.p = p THEN idx.self.b ELSE @,
                    !.version = 1, !.vcr = vcr,
                    !.uuid = IF @ = 0 THEN x.vol.uuid ELSE @]

UpdateCoherency(x, p, vcr) ==
    LET c == CoherencyOf(x, p, vcr) IN
    IF x.rc # "ok" \/ ~x.vol.end[p] THEN x
    ELSE Clear(tape_set_cart_coherency([x EXCEPT !.vol.coh[p] = c], p, c))

ltfs_update_cart_coherency(x) ==
    LET vcr == tape_get_volume_change_reference(x) IN
    IF x.rc # "ok" \/ vcr \in {0, Max64} THEN x
    ELSE UpdateCoherency(UpdateCoherency(x, IP, vcr), DP, vcr)

\* the blocks of the index and the file mark behind them
xml_schema_to_tape(x, idx) ==
    tape_write_filemark(tape_write(tape_write(x, IndexHead(idx), TRUE, TRUE),
                                   IndexTail(idx), TRUE, TRUE), 1, TRUE, TRUE)

NewLockStatus(volstat, p) ==
    CASE volstat = "PWE_DP" /\ p = IP -> "PWE_BOTH"
      [] volstat = "PWE_IP" /\ p = DP -> "PWE_BOTH"
      [] volstat = "UNLOCKED" /\ p = IP -> "PWE_IP"
      [] volstat = "UNLOCKED" /\ p = DP -> "PWE_DP"
      [] OTHER -> "none"

\* a failed write on a partition is remembered in the cartridge memory
NoteWritePerm(x, p, volstat) ==
    LET new == NewLockStatus(volstat, p)
        y == tape_set_cart_volume_lock_status(Clear(x), new)
    IN  IF ~IS_WRITE_PERM(x.rc) \/ new = "none" THEN x
        ELSE IF y.rc # "ok" THEN y ELSE Fail(y, x.rc)

(* Mutant: the back pointer names the last index, on whichever partition *)
WriteIndexOn_AnyBack(x, p, write_perm, volstat) ==
    LET old == x.vol.index
        s == tape_seek_append_position(x, p)
        idx == [old EXCEPT !.gen = IF old.dirty THEN @ + 1 ELSE @,
                           !.back = old.self, !.self = Off(p, s.pos.block + 1)]
        w == xml_schema_to_tape(tape_write_filemark(s, 1, TRUE, TRUE), idx)
        c == ltfs_update_cart_coherency([w EXCEPT !.vol.index = idx, !.vol.end[p] = TRUE])
    IN  IF x.rc # "ok" THEN x
        ELSE IF w.rc # "ok" THEN w
        ELSE ltfs_unset_index_dirty(
                IF p = IP THEN tape_set_ip_append_position(c, IP, idx.self.b - 1) ELSE c)

\* One index on one partition.  Whatever fails, generation and pointers of
\* the index in memory are put back.
WriteIndexOn(x, p, write_perm, volstat) ==
    LET old == x.vol.index
        s == tape_seek_append_position(x, p)
        idx == [old EXCEPT !.gen = IF old.dirty THEN @ + 1 ELSE @,
                           !.back = IF old.self.p = DP THEN old.self ELSE @,
                           !.self = Off(p, s.pos.block + 1)]
        a == IF p = IP /\ ~x.vol.end[IP]
             THEN tape_write_filemark(s, 0, TRUE, TRUE) ELSE s
        w == xml_schema_to_tape(tape_write_filemark(a, 1, TRUE, TRUE), idx)
        c == ltfs_update_cart_coherency(
                [w EXCEPT !.vol.index = idx, !.vol.end[p] = TRUE])
        d == ltfs_unset_index_dirty(
                IF p = IP THEN tape_set_ip_append_position(c, IP, idx.self.b - 1)
                ELSE c)
        Restore(y) == IF write_perm THEN [y EXCEPT !.dev.werr = TRUE] ELSE y
    IN  IF x.rc # "ok" THEN x
        ELSE IF s.rc # "ok" THEN Restore(s)
        ELSE IF w.rc # "ok" THEN NoteWritePerm(Restore(w), p, volstat)
        ELSE Restore(d)

\* write_error is lifted for the one index that has to say what was lost;
\* it goes to the end of the data
AllowLastIndex(x, p) ==
    [Clear(x) EXCEPT !.dev.werr = FALSE, !.dev.append[p] = 0]

(* Mutant: the index of the index partition is replaced first *)
ltfs_write_index_IpFirst(x, p, reason) ==
    LET no == PartitionsReadonly(x) IN
    IF x.rc # "ok" THEN x
    ELSE IF reason = "SYNC_WRITE_PERM"
    THEN WriteIndexOn(AllowLastIndex(x, p), p, TRUE, tape_get_cart_volume_lock_status(x))
    ELSE IF no # "ok" THEN Fail(x, no)
    ELSE WriteIndexOn(x, p, FALSE, tape_get_cart_volume_lock_status(x))

\* The index partition is written only when the data partition ends in an
\* index that is not older than the one about to be overwritten.
ltfs_write_index(x, p, reason) ==
    LET stat(y) == tape_get_cart_volume_lock_status(y)
        no == PartitionsReadonly(x)
        first == p = IP /\ (~x.vol.end[DP] \/ (x.vol.end[IP] /\ x.vol.index.self.p = IP))
        d == WriteIndexOn(x, DP, FALSE, stat(x))
    IN  IF x.rc # "ok" THEN x
        ELSE IF reason = "SYNC_WRITE_PERM"
        THEN WriteIndexOn(AllowLastIndex(x, p), p, TRUE, stat(x))
        ELSE IF no # "ok" THEN Fail(x, no)
        ELSE IF ~first THEN WriteIndexOn(x, p, FALSE, stat(x))
        ELSE IF IS_WRITE_PERM(d.rc)
        THEN WriteIndexOn(AllowLastIndex(d, p), p, TRUE, stat(d))
        ELSE WriteIndexOn(Clear(d), p, FALSE, stat(x))

ltfs_write_index_conditional(x, p) ==
    IF \/ p = IP /\ ~x.vol.end[IP]
       \/ p = DP /\ (~x.vol.end[DP] \/ (x.vol.end[IP] /\ x.vol.index.self.p = IP))
    THEN ltfs_write_index(x, p, "SYNC_CASCHE_PRESSURE")
    ELSE x

\* one record of file data at the append position of a partition
_ltfs_fsraw_write_data_unlocked(x, p, v) ==
    LET no == tape_read_only(x, p)
        a == ltfs_write_index_conditional(x, IP + DP - p)
        b == [a EXCEPT !.vol.end[p] = FALSE]
    IN  IF x.rc # "ok" THEN x
        ELSE IF no # "ok" THEN Fail(x, no)
        ELSE IF a.rc # "ok" THEN a
        ELSE tape_write(tape_seek_append_position(b, p), FileData(v), FALSE, FALSE)

\* extents that reach the first block the drive could not write are dropped
ltfs_fsraw_cleanup_extent(x, p, block) ==
    [x EXCEPT !.vol.index.files = [n \in Names |->
        IF @[n].p = p /\ block <= @[n].b THEN NoFile ELSE @[n]]]

\* after a permanent write error the scheduler writes a last index to the IP
_unified_write_index_after_perm(x) ==
    LET a == Clear(tape_set_cart_volume_lock_status(Clear(x), "PWE_DP"))
        pos == tape_get_first_untransfered_position(a)
        last == x.vol.coh[pos.part].setid
        b == ltfs_fsraw_cleanup_extent(a, pos.part,
                IF last > pos.block THEN last + 1 ELSE pos.block)
    IN  IF IS_WRITE_PERM(x.rc)
        THEN ltfs_write_index(b, IP, "SYNC_WRITE_PERM") ELSE x

\* the partition whose last record is not an index, DP by preference
ltfs_sync_index(x, reason) ==
    LET dp == tape_read_only(x, DP)
        p == IF x.vol.end[DP] /\ ~x.vol.end[IP] THEN IP ELSE DP
        w == ltfs_write_index(x, p, reason)
        r == ltfs_write_index(Clear(w), IP, "SYNC_WRITE_PERM")
    IN  IF x.rc # "ok" THEN x
        ELSE IF dp \notin {"ok", "LTFS_LESS_SPACE"} THEN Fail(x, dp)
        ELSE IF ~x.vol.index.dirty THEN x
        ELSE IF IS_WRITE_PERM(w.rc) /\ p = DP
        THEN Fail(r, IF r.rc = "ok" THEN "LTFS_SYNC_FAIL_ON_DP" ELSE w.rc)
        ELSE w

\* the newest index ends up on the index partition
ltfs_unmount(x, reason) ==
    LET stat == tape_get_cart_volume_lock_status(x) IN
    IF /\ x.rc = "ok" /\ x.vol.mount = "NORMAL"
       /\ x.vol.index.dirty \/ x.vol.index.self.p # IP
       /\ stat \notin {"PWE_IP", "PWE_BOTH"}
    THEN ltfs_write_index(x, IP, reason) ELSE x

===========================================================================
