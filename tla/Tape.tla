------------------------------- MODULE Tape -------------------------------
(***************************************************************************)
(* The tape abstraction of libltfs (tape.c) above the file backend.  The   *)
(* record x of FileTape also holds                                         *)
(*                                                                         *)
(*   dev    struct device_data: append positions (0: at the end of data),  *)
(*          what is known of the space of each partition, write protection *)
(*          and write error, append-only mode, reservation, removal lock   *)
(*                                                                         *)
(* The device lock and the fence are in Revalidation; the file backend     *)
(* never reports a reset, so the loops that repeat a call while NEED_REVAL *)
(* run once.                                                               *)
(***************************************************************************)
EXTENDS FileTape

CONSTANTS Pews           \* programmable early warning size plus 10, in MB

ASSUME TapeAssumption == Pews \in Nat

IS_WRITE_PERM(e) == e \in {"EDEV_RW_PERM", "EDEV_WRITE_PERM",
                           "EDEV_MEDIUM_FORMAT_CORRUPTED"}

\* the state of a device that tape_device_alloc returns
tape_device_alloc ==
    [append |-> [p \in Parts |-> 0], space |-> [p \in Parts |-> "WRITABLE"],
     wprot |-> {}, werr |-> FALSE, aom |-> FALSE, reserved |-> FALSE,
     locked |-> FALSE]

---------------------------------------------------------------------------
(* Reservation and removal                                                 *)

tape_reserve_device(x) ==
    LET y == filedebug_reserve_unit(x) IN
    IF x.rc # "ok" \/ x.dev.reserved THEN x
    ELSE IF y.rc = "ok" THEN [y EXCEPT !.dev.reserved = TRUE] ELSE y

tape_release_device(x) ==
    IF x.dev.reserved
    THEN [filedebug_release_unit(x) EXCEPT !.dev.reserved = FALSE] ELSE x

tape_prevent_medium_removal(x) ==
    LET y == filedebug_prevent_medium_removal(x, TRUE) IN
    IF x.rc # "ok" \/ x.dev.locked THEN x
    ELSE IF y.rc = "ok" THEN [y EXCEPT !.dev.locked = TRUE] ELSE y

\* a drive that is not ready keeps medium_locked set
tape_allow_medium_removal(x, force) ==
    LET y == filedebug_prevent_medium_removal(Clear(x), FALSE) IN
    IF x.dev.locked \/ force
    THEN Fail([y EXCEPT !.dev.locked = y.rc # "ok"], x.rc) ELSE x

\* three attempts to reserve; the first one succeeds or all fail alike
tape_device_open(x) ==
    LET y == tape_reserve_device([x EXCEPT !.drv = filedebug_open]) IN
    IF x.rc # "ok" THEN x
    ELSE IF y.rc # "ok" THEN y ELSE tape_allow_medium_removal(y, TRUE)

---------------------------------------------------------------------------
(* What may be written                                                     *)

tape_read_only(x, p) ==
    CASE x.dev.wprot # {} -> "LTFS_WRITE_PROTECT"
      [] x.dev.wprot = {} /\ x.dev.werr -> "LTFS_WRITE_ERROR"
      [] x.dev.wprot = {} /\ ~x.dev.werr /\ x.dev.space[p] = "LESS" -> "LTFS_LESS_SPACE"
      [] x.dev.wprot = {} /\ ~x.dev.werr /\ x.dev.space[p] = "NO" -> "LTFS_NO_SPACE"
      [] OTHER -> "ok"

tape_force_read_only(x) == [x EXCEPT !.dev.wprot = @ \cup {"FORCE_READ_ONLY"}]

\* a warning of the position is a property of the partition from then on
NoteSpace(x) ==
    LET p == x.pos.part IN
    [x EXCEPT !.dev.space[p] =
        IF x.pos.ew THEN "NO" ELSE IF @ # "NO" /\ x.pos.pew THEN "LESS" ELSE @]

---------------------------------------------------------------------------
(* Positioning                                                             *)

tape_rewind(x) == filedebug_rewind(x)

LocateError(x) == IF IS_WRITE_PERM(x.rc) THEN Fail(x, "LTFS_LOCATE_ERROR") ELSE x

\* no locate to where the head already is, except to the beginning
tape_seek(x, p, b) ==
    LET there == p = x.pos.part /\ b = x.pos.block /\ ~(p = 0 /\ b = 0)
        y == IF there THEN x ELSE filedebug_locate(x, p, b)
        z == IF there THEN y ELSE NoteSpace(y)
    IN  IF x.rc # "ok" THEN x
        ELSE IF y.rc # "ok" THEN LocateError(y)
        ELSE IF z.pos.part # p \/ (b # Max64 /\ b # z.pos.block)
        THEN Fail(z, "LTFS_BAD_LOCATE") ELSE z

tape_seek_eod(x, p) ==
    LET y == filedebug_locate(x, p, Max64) IN
    IF x.rc # "ok" THEN x
    ELSE IF y.rc # "ok" THEN LocateError(y)
    ELSE IF y.pos.part # p THEN Fail(y, "LTFS_BAD_LOCATE")
    ELSE [NoteSpace(y) EXCEPT !.dev.append[p] = y.pos.block]

tape_set_append_position(x, p, b) ==
    IF x.rc # "ok" THEN x ELSE [x EXCEPT !.dev.append[p] = b]

\* a WORM cartridge is only ever appended to
tape_set_ip_append_position(x, p, b) ==
    tape_set_append_position(x, p, IF CartIsWorm THEN 0 ELSE b)

\* a head that cannot be put where writing goes on forbids further writes
tape_seek_append_position(x, p) ==
    LET b == IF x.dev.append[p] = 0 THEN Max64 ELSE x.dev.append[p]
        y == tape_seek(x, p, b)
    IN  IF x.rc # "ok" THEN x
        ELSE IF y.rc # "ok" THEN [y EXCEPT !.dev.werr = TRUE]
        ELSE [y EXCEPT !.dev.append[p] = IF @ = 0 THEN y.pos.block ELSE @]

tape_spacefm(x, n) == filedebug_space(x, n)

\* to the filemark that follows
tape_locate_next_index(x) == tape_spacefm(x, 1)
tape_locate_previous_index(x) == tape_spacefm(tape_spacefm(x, -4), 1)
tape_locate_first_index(x, p) == tape_spacefm(tape_seek(x, p, 4), 1)
tape_locate_last_index(x, p) == tape_spacefm(tape_spacefm(tape_seek_eod(x, p), -2), 1)

tape_update_position(x) == filedebug_readpos(x)

\* where the drive lost the data it had buffered
tape_get_first_untransfered_position(x) ==
    filedebug_get_next_block_to_xfer(filedebug_readpos(x))

---------------------------------------------------------------------------
(* Reading and writing                                                     *)

Refused(x, ignore_less, ignore_nospc) ==
    LET s == x.dev.space[x.pos.part] IN
    CASE x.dev.wprot # {} -> "LTFS_WRITE_PROTECT"
      [] x.dev.wprot = {} /\ x.dev.werr -> "LTFS_WRITE_ERROR"
      [] x.dev.wprot = {} /\ ~x.dev.werr /\ s = "NO" /\ ~ignore_nospc -> "LTFS_NO_SPACE"
      [] x.dev.wprot = {} /\ ~x.dev.werr /\ s = "LESS" /\ ~ignore_less -> "LTFS_LESS_SPACE"
      [] OTHER -> "ok"

\* y is what the backend returned for a write
AfterWrite(y, ignore_less, ignore_nospc) ==
    LET p == y.pos.part
        z == [y EXCEPT !.dev.append[p] = y.pos.block]
    IN  IF y.rc # "ok" THEN [y EXCEPT !.dev.werr = TRUE]
        ELSE IF y.pos.ew
        THEN Fail([z EXCEPT !.dev.space[p] = "NO"],
                  IF ignore_nospc THEN "ok" ELSE "LTFS_NO_SPACE")
        ELSE IF y.pos.pew
        THEN Fail([z EXCEPT !.dev.space[p] = "LESS"],
                  IF ignore_less THEN "ok" ELSE "LTFS_LESS_SPACE")
        ELSE z

tape_write(x, v, ignore_less, ignore_nospc) ==
    LET no == Refused(x, ignore_less, ignore_nospc) IN
    IF x.rc # "ok" THEN x
    ELSE IF no # "ok" THEN Fail(x, no)
    ELSE AfterWrite(filedebug_write(x, v), ignore_less, ignore_nospc)

tape_write_filemark(x, count, ignore_less, ignore_nospc) ==
    LET no == Refused(x, ignore_less, ignore_nospc) IN
    IF x.rc # "ok" THEN x
    ELSE IF no # "ok" THEN Fail(x, no)
    ELSE AfterWrite(filedebug_writefm(x, count), ignore_less, ignore_nospc)

\* without a key manager a record that cannot be decrypted is an error
tape_read(x) == filedebug_read(x)

tape_erase(x) == filedebug_erase(x)

---------------------------------------------------------------------------
(* Loading and formatting                                                  *)

\* unloading (and loading again) is needed to leave the mode of a drive that
\* is in it; the file backend never is
tape_enable_append_only_mode(x, enable) ==
    LET y == IF x.drv.ready /\ enable THEN filedebug_load(x) ELSE x IN
    IF x.rc # "ok" THEN x
    ELSE IF y.rc # "ok" THEN y ELSE [y EXCEPT !.dev.aom = enable]

SpaceOf(x, p) ==
    LET cap == filedebug_remaining_capacity(x)[p] IN
    IF x.drv.partitions = 2 /\ cap = 0 THEN "NO"
    ELSE IF cap <= Pews THEN "LESS" ELSE "WRITABLE"

tape_load_tape(x) ==
    LET a == filedebug_load(x)
        b == tape_prevent_medium_removal(
                [a EXCEPT !.dev.append = [p \in Parts |-> 0]])
        c == filedebug_readpos(b)
    IN  IF x.rc # "ok" THEN x
        ELSE IF a.rc # "ok" THEN a
        ELSE IF c.rc # "ok" THEN c
        ELSE [c EXCEPT !.dev.wprot = IF CartIsReadonly THEN {"PHYSICAL"} ELSE {},
                       !.dev.werr = FALSE,
                       !.dev.space = [p \in Parts |-> SpaceOf(c, p)]]

\* the errors of rewind and unload are overwritten by those of the last call
tape_unload_tape(x, keep_on_drive) ==
    LET a == tape_allow_medium_removal(x, FALSE)
        b == Clear(tape_rewind(a))
        c == IF keep_on_drive THEN b ELSE Clear(filedebug_unload(b))
    IN  IF x.rc # "ok" THEN x ELSE tape_enable_append_only_mode(c, FALSE)

tape_device_close(x) ==
    LET a == tape_allow_medium_removal(Clear(x), FALSE)
        b == tape_release_device(Clear(tape_enable_append_only_mode(a, FALSE)))
    IN  Fail(b, x.rc)

tape_format(x, partitions) ==
    LET y == filedebug_format(filedebug_load(x), partitions) IN
    IF x.rc # "ok" \/ y.rc # "ok" THEN IF x.rc # "ok" THEN x ELSE y
    ELSE [y EXCEPT !.dev.space = [p \in Parts |-> "WRITABLE"]]

tape_unformat(x) == tape_format(x, 1)

tape_unformat_hard(x) ==
    LET y == filedebug_locate(x, 0, 0)
        z == filedebug_format(y, 1)
    IN  IF x.rc # "ok" THEN x
        ELSE IF y.rc # "ok" THEN LocateError(y)
        ELSE IF z.rc # "ok" THEN z
        ELSE [z EXCEPT !.dev.space = [p \in Parts |-> "WRITABLE"]]

tape_reset_capacity(x) == filedebug_setcap(filedebug_load(x))

tape_check_eod_status(x, p) == filedebug_get_eod_status(x, p)

\* Records are read until one cannot be; whatever the reason, the data end
\* there.
tape_recover_eod_status(x) ==
    LET p == x.drv.part
        stop == Min({b \in Blocks : /\ b >= x.drv.block
                                    /\ \/ x.files[p][b].k \in {"none", "E"}
                                       \/ x.drv.eod[p] = b}
                      \cup {LastBlock})
        y == [x EXCEPT !.drv.block = stop]
        z == tape_load_tape(tape_unload_tape(y, FALSE))
    IN  IF x.rc # "ok" THEN x ELSE tape_erase(tape_seek(z, p, stop))

---------------------------------------------------------------------------
(* Cartridge memory                                                        *)

\* no usable value is Max64
tape_get_volume_change_reference(x) ==
    IF x.mam[0].vcr = NoPass THEN Max64 ELSE x.mam[0].vcr

tape_get_cart_coherency(x, p) == filedebug_read_attribute(x, p, "coh")

tape_set_cart_coherency(x, p, coh) == filedebug_write_attribute(x, p, "coh", coh)

\* an attribute that was never written means unlocked
tape_get_cart_volume_lock_status(x) ==
    IF x.mam[0].lock = "none" THEN "UNLOCKED" ELSE x.mam[0].lock

\* the copy in memory is kept when the cartridge memory cannot be written,
\* except for labels and bar codes
update_tape_attribute(x, id, value) ==
    IF x.rc # "ok" THEN x
    ELSE filedebug_write_attribute([x EXCEPT !.vol.attr[id] = value], 0, id, value)

tape_set_cart_volume_lock_status(x, status) ==
    LET cur == tape_get_cart_volume_lock_status(x)
        y == update_tape_attribute(x, "lock", status)
    IN  IF x.rc # "ok" \/ cur = status THEN x
        ELSE IF cur = "PERMLOCKED" THEN Fail(x, "LTFS_UNEXPECTED_VALUE")
        ELSE IF y.rc # "ok" THEN y
        ELSE [y EXCEPT !.vol.lock = status,
                       !.vol.index.lock = IF status \in {"LOCKED", "PERMLOCKED"}
                                          THEN status ELSE @]

\* all attributes are tried; the last error is returned
tape_format_attribute_to_cm(x, attr) ==
    LET a == filedebug_write_attribute(x, 0, "label", attr.label)
        b == filedebug_write_attribute(Clear(a), 0, "lock", attr.lock)
    IN  IF x.rc # "ok" THEN x
        ELSE IF b.rc # "ok" THEN b ELSE Fail(b, a.rc)

\* what cannot be read is empty
tape_load_all_attribute_from_cm(x) ==
    [label |-> IF x.mam[0].label = "none" THEN "" ELSE x.mam[0].label,
     lock |-> tape_get_cart_volume_lock_status(x)]

===========================================================================
