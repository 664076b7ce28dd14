---------------------------- MODULE VolumeMount ----------------------------
(***************************************************************************)
(* Mounting a volume, recovery of a missing end of data, rollback and      *)
(* formatting (ltfs.c, ltfsck.c, mkltfs.c).                                *)
(***************************************************************************)
EXTENDS VolumeCheck

ltfs_check_eod_status(x) ==
    LET missing == {p \in Parts : tape_check_eod_status(x, p) = "EOD_MISSING"} IN
    CASE missing = {} -> "ok"
      [] missing = Parts -> "LTFS_BOTH_EOD_MISSING"
      [] OTHER -> "LTFS_EOD_MISSING_MEDIUM"

\* coherency data that cannot be read or is of another volume is zero
LoadCoherency(x, p) ==
    IF x.mam[p].coh.uuid # x.vol.uuid THEN ZeroCoh ELSE x.mam[p].coh

---------------------------------------------------------------------------
(* Traversing the indexes of a partition                                   *)

RECURSIVE Backward(_, _)
Backward(x, gen) ==
    LET r == ltfs_read_index(x, 0) IN
    IF x.rc # "ok" \/ x.pos.block <= 4 THEN x
    ELSE IF r.rc # "ok" \/ r.vol.index.gen <= gen THEN r
    ELSE Backward(tape_locate_previous_index(r), gen)

RECURSIVE Forward(_, _, _)
Forward(x, last, gen) ==
    LET r == ltfs_read_index(x, 0) IN
    IF x.rc # "ok" \/ last < x.pos.block THEN x
    ELSE IF r.rc # "ok" \/ r.vol.index.gen >= gen THEN r
    ELSE Forward(IF last > r.pos.block THEN tape_locate_next_index(r) ELSE r, last, gen)

(* Mutant: the index found last is taken for the one asked for *)
HasGeneration_Any(x, gen) == x

HasGeneration(x, gen) ==
    IF x.rc = "ok" /\ x.vol.index.gen # gen THEN Fail(x, "LTFS_NO_INDEX") ELSE x

ltfs_traverse_index_backward(x, p, gen) ==
    HasGeneration(Backward(tape_locate_last_index(x, p), gen), gen)

ltfs_traverse_index_forward(x, p, gen) ==
    LET a == tape_locate_last_index(x, p) IN
    HasGeneration(Forward(tape_locate_first_index(a, p), a.pos.block, gen), gen)

---------------------------------------------------------------------------
(* Mount                                                                   *)

\* after a permanent write error: the latest index that can be found; the
\* coherency data follow what was found
_ltfs_search_index_wp(x, can_skip_ip) ==
    LET i == ltfs_seek_index(x, IP)
        a == IF i.have THEN i.x
             ELSE [Clear(i.x) EXCEPT !.vol.coh[IP].count = 0, !.vol.coh[IP].setid = 0]
        d == ltfs_seek_index(a, DP)
        c == d.x.vol.coh
        p == IF c[IP].count > c[DP].count THEN IP ELSE DP
    IN  IF ~i.have /\ ~can_skip_ip
        THEN [x |-> Fail(i.x, "LTFS_INDEX_INVALID"), at |-> Nowhere]
        ELSE IF d.x.rc # "ok"
        THEN [x |-> Fail(d.x, "LTFS_INDEX_INVALID"), at |-> Nowhere]
        ELSE [x |-> d.x, at |-> Off(p, c[p].setid)]

\* the place of the index that the coherency data name, or a search for it
WritePermIndex(x, vcr, lock) ==
    LET c == x.vol.coh
        p == IF c[IP].count < c[DP].count THEN DP ELSE IP
    IN  IF vcr = c[p].vcr THEN [x |-> x, at |-> Off(p, c[p].setid)]
        ELSE _ltfs_search_index_wp(x, p = DP \/ lock = "PWE_BOTH")

\* the coherency data name a place behind the end of data: they are wrong
NoSuchPlace(x, at) == tape_seek(x, at.p, at.b).rc = "EDEV_EOD_DETECTED"

ReadIndexAt(x, at) == ltfs_read_index(tape_seek(x, at.p, at.b), 0)

MountWritePermed(x, vcr, lock, opt) ==
    LET w == WritePermIndex([x EXCEPT !.dev.werr = TRUE], vcr, lock)
        y == ReadIndexAt(w.x, w.at)
    IN  IF w.x.rc # "ok" THEN w.x
        ELSE IF NoSuchPlace(w.x, w.at)
        THEN ltfs_check_medium(w.x, TRUE, opt.deep, opt.extra)
        ELSE IF y.rc = "ok" THEN [y EXCEPT !.vol.mount = "ERR_TAPE"] ELSE y

\* the coherency data of both partitions are those of this load
MountClean(x, opt) ==
    LET c == x.vol.coh
        p == IF c[IP].count < c[DP].count THEN DP ELSE IP
        at == Off(p, c[p].setid)
        y == ReadIndexAt(x, at)
    IN  IF NoSuchPlace(x, at) THEN ltfs_check_medium(x, TRUE, opt.deep, opt.extra)
        ELSE IF p = DP THEN ltfs_write_index(y, IP, "SYNC_RECOVERY") ELSE y

RollbackMount(x, gen) ==
    LET a == ltfs_traverse_index_backward(x, IP, gen)
        b == IF a.rc = "ok" THEN a ELSE ltfs_traverse_index_backward(Clear(a), DP, gen)
    IN  IF b.rc # "ok" THEN b
        ELSE tape_force_read_only(ltfs_unset_index_dirty([b EXCEPT !.vol.mount = "ROLLBACK"]))

(* Mutant: the change reference of one partition is enough *)
ltfs_mount_OneReference(x, opt) ==
    LET a == ltfs_start_mount(x)
        vcr == tape_get_volume_change_reference(a)
        b == [a EXCEPT !.vol.coh = [p \in Parts |-> LoadCoherency(a, p)],
                       !.vol.mount = "NORMAL"]
        e == IF ~opt.full /\ \E p \in Parts : b.vol.coh[p].vcr = vcr
             THEN MountClean(b, opt)
             ELSE ltfs_check_medium(b, TRUE, opt.deep, opt.extra)
    IN  IF a.rc # "ok" THEN a
        ELSE IF e.rc # "ok" THEN e
        ELSE [tape_set_ip_append_position(e, IP, e.vol.index.self.b - 1)
                EXCEPT !.vol.end = [p \in Parts |-> TRUE]]

ltfs_mount(x, opt) ==
    LET a == ltfs_start_mount(x)
        lock == tape_get_cart_volume_lock_status(a)
        eod == ltfs_check_eod_status(a)
        vcr == tape_get_volume_change_reference(a)
        coh == [p \in Parts |-> IF vcr \in {0, Max64} THEN ZeroCoh
                                ELSE LoadCoherency(a, p)]
        full == opt.full \/ \E p \in Parts : coh[p].version = 0
        b == [a EXCEPT !.vol.coh = coh, !.vol.mount = "NORMAL"]
        e == IF IS_SINGLE_WRITE_PERM(lock) \/ lock = "PWE_BOTH"
             THEN MountWritePermed(b, vcr, lock, opt)
             ELSE IF ~full /\ vcr > 0 /\ \A p \in Parts : coh[p].vcr = vcr
             THEN MountClean(b, opt)
             ELSE ltfs_check_medium(b, TRUE, opt.deep, opt.extra)
        f == tape_set_ip_append_position(e, IP, e.vol.index.self.b - 1)
        attr == tape_load_all_attribute_from_cm(f)
    IN  IF x.rc # "ok" THEN x
        ELSE IF a.rc # "ok" THEN a
        ELSE IF eod # "ok" /\ ~opt.skip_eod /\ ~IS_SINGLE_WRITE_PERM(lock) THEN Fail(a, eod)
        ELSE IF e.rc # "ok" THEN e
        ELSE IF opt.gen # 0 /\ opt.gen # e.vol.index.gen THEN RollbackMount(e, opt.gen)
        ELSE [f EXCEPT !.vol.end = [p \in Parts |-> TRUE], !.vol.attr = attr,
                !.vol.lock = IF attr.lock \in {"PWE", "PWE_DP", "PWE_IP", "PWE_BOTH"}
                             THEN attr.lock ELSE f.vol.index.lock]

---------------------------------------------------------------------------
(* Recovery of a missing end of data                                       *)

\* positioning at the end makes some drives find it; the cartridge is loaded
\* again and results are not looked at
ltfs_recover_eod_simple(x) ==
    LET missing == {p \in Parts : tape_check_eod_status(x, p) = "EOD_MISSING"}
        a == IF IP \in missing THEN Clear(tape_seek_eod(x, IP)) ELSE x
        b == IF DP \in missing THEN Clear(tape_seek_eod(a, DP)) ELSE a
    IN  IF x.rc # "ok" \/ missing = {} THEN x
        ELSE Clear(tape_load_tape(Clear(tape_unload_tape(b, FALSE))))

(* Mutant: the recovery starts at the block behind the beginning of the last
   index, in the middle of it *)
ltfs_recover_eod_Early(x) ==
    LET missing == {p \in Parts : tape_check_eod_status(x, p) = "EOD_MISSING"}
        p == CHOOSE q \in missing : TRUE
    IN  IF x.rc # "ok" \/ missing = {} THEN x
        ELSE IF missing = Parts THEN Fail(x, "LTFS_UNSUPPORTED")
        ELSE IF \E q \in Parts : x.mam[q].coh = NoCoh THEN Fail(x, "EDEV_INVALID_FIELD_CDB")
        ELSE tape_erase(tape_seek(x, p, x.mam[p].coh.setid + 1))

\* From the last index that the coherency data name, records are read until
\* one cannot be.  Cartridges of version 0 have no such data and are not
\* modelled.
ltfs_recover_eod(x) ==
    LET missing == {p \in Parts : tape_check_eod_status(x, p) = "EOD_MISSING"}
        p == CHOOSE q \in missing : TRUE
        coh == [q \in Parts |-> x.mam[q].coh]
        y == [x EXCEPT !.vol.coh = coh]
        s == IF p = IP THEN tape_seek(y, IP, coh[IP].setid - 1)
             ELSE ltfs_read_index(tape_seek(y, DP, coh[DP].setid), 0)
    IN  IF x.rc # "ok" \/ missing = {} THEN x
        ELSE IF missing = Parts THEN Fail(x, "LTFS_UNSUPPORTED")
        ELSE IF \E q \in Parts : coh[q] = NoCoh THEN Fail(x, "EDEV_INVALID_FIELD_CDB")
        ELSE IF s.rc # "ok" THEN s
        ELSE tape_recover_eod_status(s)

---------------------------------------------------------------------------
(* Formatting                                                              *)

ltfs_format_tape(x, uuid) ==
    LET no == PartitionsReadonly(x)
        a == ltfs_set_index_dirty([x EXCEPT !.vol.uuid = uuid, !.vol.index.uuid = uuid])
        b == tape_format(tape_reset_capacity(a), 2)
        c == ltfs_write_index(ltfs_write_label(b, DP), DP, "SYNC_FORMAT")
    IN  IF x.rc # "ok" THEN x
        ELSE IF no # "ok" THEN Fail(x, no)
        ELSE ltfs_write_index(ltfs_write_label(c, IP), IP, "SYNC_FORMAT")

ltfs_unformat_tape(x) ==
    LET a == tape_load_tape(x)
        no == PartitionsReadonly(a)
    IN  IF a.rc # "ok" THEN a
        ELSE IF no # "ok" THEN Fail(a, no) ELSE tape_unformat(a)

---------------------------------------------------------------------------
(* Rollback                                                                *)

\* The file mark behind an index is written again, which ends the data of
\* the partition there.
_erase_history(x, at) ==
    tape_write_filemark(tape_spacefm(tape_spacefm(tape_seek(x, at.p, at.b), 1), -1),
                        1, TRUE, TRUE)

_rollback_dp(x, erase, at) ==
    IF erase THEN _erase_history(x, at) ELSE ltfs_write_index(x, DP, "SYNC_ROLLBACK")

_rollback_ip(x, erase, at) ==
    IF erase /\ at # Nowhere THEN _erase_history(x, at)
    ELSE ltfs_write_index(x, IP, "SYNC_ROLLBACK")

(* Mutant: vol->index is still the index of the mount when it is written *)
_rollback_Current(x, opt, current, pos, target) ==
    LET a == [x EXCEPT !.vol.index = [IF opt.erase THEN target ELSE current
                                        EXCEPT !.dirty = TRUE],
                       !.dev.append[IP] = pos.b - 1]
        at == IF target.self.p = IP THEN target.back ELSE target.self
    IN  IF x.rc # "ok" \/ opt.verify THEN x
        ELSE _rollback_ip(_rollback_dp(a, opt.erase, at), opt.erase, Nowhere)

\* current: the index of the mount; pos: its place at that time; a point that
\* is only to be verified is left alone
_rollback(x, opt, current, pos, target) ==
    LET no == PartitionsReadonly(x)
        a == [x EXCEPT !.vol.index = [target EXCEPT !.dirty = TRUE,
                                      !.gen = IF opt.erase THEN @ ELSE current.gen],
                       !.dev.append[IP] = pos.b - 1]
        fromIp == _rollback_ip(_rollback_dp(a, opt.erase, target.back),
                               opt.erase, target.self)
        fromDp == _rollback_ip(_rollback_dp(a, opt.erase, target.self),
                               opt.erase, Nowhere)
    IN  IF x.rc # "ok" \/ opt.verify THEN x
        ELSE IF no # "ok" THEN Fail(x, no)
        ELSE IF target.self.p = IP THEN fromIp ELSE fromDp

MountOpts(full, deep, extra, gen, skip_eod) ==
    [full |-> full, deep |-> deep, extra |-> extra, gen |-> gen, skip_eod |-> skip_eod]

\* the point asked for: on the IP, else on the DP
FindPoint(x, gen, erase) ==
    LET c == ltfs_traverse_index_backward(x, IP, gen) IN
    IF c.rc # "LTFS_NO_INDEX" THEN c
    ELSE IF erase THEN ltfs_traverse_index_forward(Clear(c), DP, gen)
    ELSE ltfs_traverse_index_backward(Clear(c), DP, gen)

\* the index of the mount is copied to the DP first, unless history goes
rollback(x, gen, opt) ==
    LET a == ltfs_mount(ltfs_start_mount(x), MountOpts(FALSE, FALSE, FALSE, 0, FALSE))
        pos == a.vol.index.self
        b == Clear(ltfs_unmount(a, "SYNC_ROLLBACK"))
        current == b.vol.index
        d == FindPoint(b, gen, opt.erase)
        copy == Clear(_rollback_dp(ltfs_set_index_dirty([d EXCEPT !.vol.index = current]),
                                   FALSE, Nowhere))
        no == PartitionsReadonly(d)
        e == IF opt.erase \/ opt.verify
             THEN _rollback(d, opt, current, pos, d.vol.index)
             ELSE _rollback(copy, opt, copy.vol.index, pos, d.vol.index)
    IN  IF a.rc # "ok" THEN a
        ELSE IF current.gen = gen THEN b
        ELSE IF d.rc # "ok" THEN d
        ELSE IF ~opt.erase /\ ~opt.verify /\ no # "ok" THEN Fail(d, no)
        ELSE IF e.rc # "ok" THEN e
        ELSE ltfs_mount(e, MountOpts(TRUE, TRUE, FALSE, 0, FALSE))

===========================================================================
