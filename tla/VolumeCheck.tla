---------------------------- MODULE VolumeCheck ----------------------------
(***************************************************************************)
(* Reading a volume back: labels, the search for the last index of a       *)
(* partition and the consistency check of ltfs_check_medium                *)
(* (ltfs_internal.c).                                                      *)
(* Operators that return more than a new x return a record with field x.   *)
(***************************************************************************)
EXTENDS Volume

---------------------------------------------------------------------------
(* Labels                                                                  *)

AsLabelError(x) ==
    IF x.rc = "EDEV_EOD_DETECTED" THEN Fail(x, "LTFS_LABEL_INVALID") ELSE x

\* a record of this kind must follow
Expect(x, good) ==
    LET y == tape_read(x) IN
    IF x.rc # "ok" THEN x
    ELSE IF y.rc # "ok" THEN AsLabelError(y)
    ELSE IF y.buf = Filemark THEN IF good = "F" THEN y ELSE Fail(y, "LTFS_LABEL_INVALID")
    ELSE IF y.buf.v.t = good THEN y ELSE Fail(y, "LTFS_LABEL_INVALID")

\* the uuid of the label is in x.buf before the last file mark
ltfs_read_one_label(x, p) ==
    LET s == tape_seek(x, p, 0)
        xml == Expect(Expect(Expect(s, "ansi"), "F"), "xml")
        y == Expect(xml, "F")
    IN  IF x.rc # "ok" THEN x
        ELSE IF s.rc # "ok"
        THEN Fail(s, IF p = 1 THEN "LTFS_NOT_PARTITIONED" ELSE s.rc)
        ELSE IF y.rc # "ok" THEN y ELSE [y EXCEPT !.buf = xml.buf]

ltfs_read_labels(x) ==
    LET a == ltfs_read_one_label(x, 0)
        b == ltfs_read_one_label(a, 1)
    IN  IF b.rc # "ok" THEN b
        ELSE IF a.buf.v.uuid # b.buf.v.uuid THEN Fail(b, "LTFS_LABEL_MISMATCH")
        ELSE [b EXCEPT !.vol.uuid = b.buf.v.uuid]

ltfs_start_mount(x) ==
    LET a == tape_seek(tape_load_tape(x), 0, 0) IN
    IF a.rc # "ok" THEN a
    ELSE IF a.drv.partitions # 2 THEN Fail(a, "LTFS_NOT_PARTITIONED")
    ELSE ltfs_read_labels(a)

\* An error while the XML label is written is returned with the wrong sign,
\* which the callers take for success; the file mark is not written then.
ltfs_write_label(x, p) ==
    LET a == tape_write(tape_seek(x, p, 0), AnsiLabel, TRUE, FALSE)
        b == tape_write_filemark(a, 1, TRUE, FALSE)
        c == tape_write(b, XmlLabel(x.vol.uuid), TRUE, FALSE)
    IN  IF x.rc # "ok" THEN x
        ELSE IF b.rc # "ok" THEN b
        ELSE IF c.rc # "ok" THEN Clear(c)
        ELSE tape_write_filemark(c, 1, TRUE, FALSE)

---------------------------------------------------------------------------
(* Reading and finding an index                                            *)

AtEod(x, eod) == eod > 0 /\ x.pos.block = eod

\* no index: the head stays behind what was read, or before a file mark
NotAnIndex(x) ==
    Fail(IF x.buf = Filemark THEN tape_spacefm(x, -1) ELSE x, "LTFS_INDEX_INVALID")

IsHead(x) == x.buf.k = "R" /\ x.buf.v.t = "head"

\* eod is 0 where the end of data is not known; only a known one excuses a
\* missing file mark
xml_schema_from_tape(x, eod) ==
    LET a == tape_read(x)
        b == tape_read(a)
        c == tape_read(b)
        idx == a.buf.v.idx
    IN  CASE x.rc # "ok" -> x
          [] x.rc = "ok" /\ AtEod(x, eod) -> Fail(x, "LTFS_INDEX_INVALID")
          [] OTHER ->
      IF a.rc # "ok" THEN a
      ELSE IF ~IsHead(a) THEN NotAnIndex(a)
      ELSE IF AtEod(a, eod) THEN Fail(a, "LTFS_INDEX_INVALID")
      ELSE IF b.rc # "ok" THEN b
      ELSE IF b.buf # Data(IndexTail(idx)) THEN NotAnIndex(b)
      ELSE IF AtEod(b, eod) THEN [b EXCEPT !.vol.index = idx, !.fm = FALSE]
      ELSE IF c.rc # "ok" THEN c
      ELSE IF c.buf # Filemark THEN [c EXCEPT !.vol.index = idx, !.fm = FALSE]
      ELSE [tape_spacefm(c, -1) EXCEPT !.vol.index = idx, !.fm = TRUE]

BadPointers(idx, pos) ==
    \/ idx.self # Off(pos.part, pos.block)
    \/ idx.back.p \notin {-1, DP}
    \/ /\ idx.back.p = idx.self.p /\ idx.self.b # 5
       /\ idx.back.b # idx.self.b /\ idx.back.b >= idx.self.b - 2
    \/ idx.back.p # -1 /\ idx.back.b < 5

ltfs_read_index(x, eod) ==
    LET y == xml_schema_from_tape(x, eod)
        idx == y.vol.index
    IN  IF x.rc # "ok" THEN x
        ELSE IF y.rc # "ok" THEN y
        ELSE IF idx.uuid # y.vol.uuid \/ BadPointers(idx, x.pos)
        THEN Fail(y, "LTFS_INDEX_INVALID")
        ELSE IF y.fm THEN tape_spacefm(y, 1) ELSE y

NoIndex(x, eod) == [x |-> x, have |-> FALSE, eod |-> eod, end |-> 0,
                    fm |-> FALSE, after |-> FALSE, index |-> ltfs_index_alloc(0)]

\* from the last file mark backward, one candidate after the other
RECURSIVE SeekFrom(_, _)
SeekFrom(x, eod) ==
    LET a == tape_spacefm(x, 1)
        r == ltfs_read_index(a, eod)
    IN  IF x.rc # "ok" \/ x.pos.block = 3 THEN NoIndex(x, eod)
        ELSE IF a.rc # "ok" THEN NoIndex(a, eod)
        ELSE IF r.rc = "dead" THEN NoIndex(r, eod)
        ELSE IF r.rc # "ok" THEN SeekFrom(tape_spacefm(Clear(r), -2), eod)
        ELSE [x |-> r, have |-> TRUE, eod |-> eod, end |-> r.pos.block,
              fm |-> r.fm, after |-> r.pos.block # eod, index |-> r.vol.index]

\* the generation and place of what was found are the new coherency data
ltfs_seek_index(x, p) ==
    LET e == tape_seek_eod(x, p)
        eod == e.pos.block
        a == tape_spacefm(e, -1)
        b == IF a.pos.block = eod - 1 THEN tape_spacefm(a, -1) ELSE a
        f == SeekFrom(b, eod)
    IN  IF e.rc # "ok" THEN NoIndex(e, eod)
        ELSE IF eod <= 4 THEN NoIndex(e, eod)
        ELSE IF a.rc # "ok" \/ a.pos.block = 3 THEN NoIndex(a, eod)
        ELSE IF ~f.have THEN f
        ELSE [f EXCEPT !.x.vol.coh[p] = [@ EXCEPT !.uuid = x.vol.uuid,
                 !.count = f.index.gen, !.setid = f.index.self.b]]

---------------------------------------------------------------------------
(* The consistency check                                                   *)

LastOf(f) == f.b + 1

Extents(idx) == {e \in {idx.files[n] : n \in Names} \cup idx.lost : e.p # -1}

_ltfs_check_extents(idx, ip_eod, dp_eod) ==
    \A e \in Extents(idx) :
        e.b >= 4 /\ LastOf(e) < (IF e.p = IP THEN ip_eod ELSE dp_eod)

\* the block behind the last one that a file refers to
_ltfs_last_ref(idx, p) ==
    LET here == {LastOf(e) : e \in {f \in Extents(idx) : f.p = p}} IN
    IF here = {} THEN 0 ELSE CHOOSE b \in here : \A c \in here : c <= b

(* Mutant: an index on the index partition is always the one to keep *)
_ltfs_check_pointers_IpWins(x, i, d) ==
    [x |-> x, newer |-> IF i.have THEN IP ELSE DP]

\* Which index is newer.  Only one back pointer of the DP is followed.
_ltfs_check_pointers(x, i, d) ==
    LET ip == i.index
        dp == d.index
        r == ltfs_read_index(tape_seek(x, DP, dp.back.b), 0)
        Says(y, newer) == [x |-> y, newer |-> newer]
        Bad(y) == Says(Fail(y, "LTFS_INDEX_INVALID"), IP)
    IN  IF x.rc # "ok" THEN Says(x, IP)
        ELSE IF ~i.have THEN Says(x, DP)
        ELSE IF ~d.have THEN IF ip.back.p # -1 THEN Bad(x) ELSE Says(x, IP)
        ELSE IF ip.gen >= dp.gen /\ ip.back = dp.self THEN Says(x, IP)
        ELSE IF ip.gen > dp.gen THEN Bad(x)
        ELSE IF ip.gen = dp.gen /\ ip.back.p = -1 THEN Says(x, DP)
        ELSE IF dp.back.b <= ip.back.b THEN Says(x, DP)
        ELSE IF r.rc # "ok" THEN Says(r, DP)
        ELSE IF ip.back.p = -1 /\ r.vol.index.gen < ip.gen THEN Bad(r)
        ELSE Says(r, DP)

\* file marks up to the end of data
RECURSIVE FilemarksAfter(_, _, _)
FilemarksAfter(x, n, last) ==
    LET y == tape_spacefm(x, 1) IN
    IF y.rc = "ok" THEN FilemarksAfter(y, n + 1, y.pos.block)
    ELSE [x |-> IF y.rc = "EDEV_EOD_DETECTED" THEN Clear(y) ELSE y,
          n |-> n, last |-> last]

\* 0 stands for the end of data
_ltfs_find_append_blk_after_idx(x, p, block, fix) ==
    LET s == tape_seek(x, p, block)
        c == FilemarksAfter(s, 0, 0)
    IN  IF x.rc # "ok" THEN [x |-> x, block |-> 0]
        ELSE IF s.rc # "ok" THEN [x |-> s, block |-> 0]
        ELSE IF c.x.rc # "ok" THEN [x |-> c.x, block |-> 0]
        ELSE IF c.n <= 1 THEN [x |-> c.x, block |-> 0]
        ELSE IF c.n = 2 /\ fix THEN [x |-> c.x, block |-> c.last - 1]
        ELSE [x |-> Fail(c.x, "LTFS_OP_TO_INV"), block |-> 0]

\* every record from the first unreferenced block on becomes a file, up to the
\* first one that cannot be read
_ltfs_populate_lost_found(x, p, lastref, eod) ==
    LET from == IF lastref > 4 THEN lastref ELSE 4
        s == tape_seek(x, p, from)
        stop == Min({b \in from .. LastBlock :
                        b >= eod \/ s.files[p][b].k \in {"none", "E"}} \cup {LastBlock})
        new == {[p |-> p, b |-> b, v |-> IF s.files[p][b].v.t = "data"
                                         THEN s.files[p][b].v.v ELSE 0] :
                    b \in {c \in from .. stop - 1 : s.files[p][c].k = "R"}}
    IN  IF x.rc # "ok" THEN x
        ELSE IF s.rc # "ok" THEN s
        ELSE [tape_seek(s, p, stop) EXCEPT !.vol.index.lost = @ \cup new,
                                           !.vol.index.dirty = TRUE]

_ltfs_make_lost_found(x, ip_eod, dp_eod, ip_end, dp_end) ==
    LET From(p, end) == LET last == _ltfs_last_ref(x.vol.index, p) IN
                        IF last >= end THEN last + 1 ELSE end
        a == IF ip_end < ip_eod
             THEN _ltfs_populate_lost_found(x, IP, From(IP, ip_end), ip_eod) ELSE x
        b == IF dp_end < dp_eod
             THEN _ltfs_populate_lost_found(a, DP, From(DP, dp_end), dp_eod) ELSE a
    IN  IF b.rc # "ok" THEN b ELSE ltfs_set_index_dirty(b)

\* the file mark that belongs behind an index at the end of data
CompleteIndex(x, f, p) ==
    IF f.have /\ ~f.after /\ ~f.fm
    THEN tape_write_filemark(tape_seek_eod(x, p), 1, TRUE, TRUE) ELSE x

CompletedEod(f) == IF f.have /\ ~f.after /\ ~f.fm THEN f.eod + 1 ELSE f.eod

(* Mutant: the data partition is treated like the index partition *)
GiveUpBlocks_BothAlike(x, i, ip_eod, d, dp_eod) ==
    LET a == IF i.have /\ i.after
             THEN tape_set_append_position(x, IP, i.index.self.b - 1) ELSE x
    IN  IF d.have /\ d.after
        THEN tape_set_append_position(a, DP, d.index.self.b - 1) ELSE a

\* where the next index goes when unreferenced blocks are given up
GiveUpBlocks(x, i, ip_eod, d, dp_eod) ==
    LET last == _ltfs_last_ref(x.vol.index, IP)
        a == IF i.have /\ i.after
             THEN IF last >= i.end /\ last < ip_eod
                  THEN tape_set_append_position(x, IP, last)
                  ELSE IF last < i.end
                  THEN tape_set_append_position(x, IP, i.index.self.b - 1) ELSE x
             ELSE IF ~i.have /\ ip_eod > 4
             THEN tape_set_append_position(x, IP, 4) ELSE x
    IN  IF (d.have /\ d.after) \/ (~d.have /\ dp_eod > 4)
        THEN tape_set_append_position(a, DP, dp_eod) ELSE a

\* the index that is kept; the IP gets a new one unless it holds the newer
ChosenIndex(i, d, newer) ==
    IF i.have /\ d.have /\ newer = IP THEN i.index
    ELSE [IF d.have THEN d.index ELSE i.index EXCEPT !.dirty = TRUE]

\* a single index must not refer to blocks that are not there
Usable(i, ip_eod, d, dp_eod, idx) ==
    (i.have /\ d.have) \/ _ltfs_check_extents(idx, ip_eod, dp_eod)

\* consistency is restored on the DP first; the result on the IP is ignored
WriteChecked(x, d) ==
    LET a == IF ~d.have \/ d.after THEN ltfs_write_index(x, DP, "SYNC_RECOVERY") ELSE x IN
    IF x.dev.append[DP] # 0 /\ _ltfs_last_ref(x.vol.index, DP) > x.dev.append[DP]
    THEN Fail(x, "LTFS_INDEX_INVALID")
    ELSE IF a.rc # "ok" THEN a
    ELSE Clear(ltfs_write_index(a, IP, "SYNC_RECOVERY"))

\* where writing goes on behind blocks that follow the last index
AppendAfter(x, f, p, fix) ==
    IF f.have /\ f.after
    THEN LET r == _ltfs_find_append_blk_after_idx(x, p, f.index.self.b, fix) IN
         [x |-> tape_set_append_position(r.x, p, IF p = IP THEN f.index.self.b - 1
                                                 ELSE r.block),
          eod |-> r.block]
    ELSE [x |-> x, eod |-> CompletedEod(f)]

ltfs_check_medium(x, fix, deep, extra) ==
    LET i == ltfs_seek_index(x, IP)
        d == ltfs_seek_index(i.x, DP)
        a == CompleteIndex(CompleteIndex(d.x, d, DP), i, IP)
        blocks(f) == (f.have /\ f.after) \/ (~f.have /\ CompletedEod(f) # 4)
        extra_blocks == blocks(d) \/ blocks(i)
        c == _ltfs_check_pointers(a, i, d)
        idx == ChosenIndex(i, d, c.newer)
        dp == AppendAfter([c.x EXCEPT !.vol.index = idx], d, DP, fix)
        ip == AppendAfter(dp.x, i, IP, fix)
        g == IF ~extra_blocks THEN ip.x
             ELSE ltfs_set_index_dirty(
                IF extra THEN _ltfs_make_lost_found(ip.x, ip.eod, dp.eod, i.end, d.end)
                ELSE GiveUpBlocks(ip.x, i, ip.eod, d, dp.eod))
        h == [g EXCEPT !.vol.end = [p \in Parts |->
                 LET f == IF p = IP THEN i ELSE d IN @[p] \/ (f.have /\ ~f.after)]]
    IN  IF i.x.rc # "ok" THEN i.x
        ELSE IF d.x.rc # "ok" THEN d.x
        ELSE IF ~i.have /\ ~d.have THEN Fail(d.x, "LTFS_NO_INDEX")
        ELSE IF a.rc # "ok" THEN a
        ELSE IF ~deep /\ extra_blocks THEN Fail(a, "LTFS_INCONSISTENT")
        ELSE IF c.x.rc # "ok" THEN c.x
        ELSE IF ~Usable(i, CompletedEod(i), d, CompletedEod(d), idx) THEN Fail(c.x, "LTFS_INDEX_INVALID")
        ELSE IF ip.x.rc # "ok" THEN ip.x
        ELSE IF g.rc # "ok" THEN g
        ELSE IF ~h.vol.index.dirty THEN ltfs_update_cart_coherency(h)
        ELSE IF fix THEN WriteChecked(h, d)
        ELSE Fail(h, "LTFS_INCONSISTENT")

===========================================================================
