----------------------------- MODULE FileTape -----------------------------
(***************************************************************************)
(* The file backend: a drive and a cartridge emulated with one file per    *)
(* record (filedebug_tc.c).  The operations are functions of one record x  *)
(* that holds the whole state below the volume:                            *)
(*                                                                         *)
(*   files   the directory: the record at each block of each partition     *)
(*           ("none" where there is no file); survives the process         *)
(*   mam     the attr_* files: cartridge memory; survives the process      *)
(*   drv     struct filedebug_data                                         *)
(*   pos     the struct tc_position the caller passed (&dev->position)     *)
(*   rc      "ok", or the error of the last call                           *)
(*   fuel    changes of files and mam that the process has yet to live     *)
(*   gone    history: records that were reported written and never reached *)
(*           the medium                                                    *)
(*                                                                         *)
(* A call on a record whose rc is not "ok" changes nothing, so a sequence  *)
(* of calls that stops at the first error is a nested expression; code     *)
(* that goes on after an error clears rc first (Clear).  When the fuel is  *)
(* used up the process is killed: rc is "dead", which no code can clear,   *)
(* and files and mam keep what they had.  A test of every fuel value is a  *)
(* test of every point at which the process can die.                       *)
(***************************************************************************)
EXTENDS Integers, FiniteSets, FiniteSetsExt

CONSTANTS LastBlock,     \* bound: highest block number of a partition
          Unflushed,     \* THRESHOLD_FORCE_WRITE_NO_WRITE
          Warning,       \* [0..1 -> Nat]: p0_warning and p1_warning
          PWarning,      \* [0..1 -> Nat]: p0_p_warning and p1_p_warning
          CartIsWorm, CartIsReadonly

ASSUME FileTapeAssumption ==
    /\ LastBlock \in Nat /\ Unflushed \in Nat
    /\ Warning \in [0..1 -> Nat] /\ PWarning \in [0..1 -> Nat]
    /\ CartIsWorm \in BOOLEAN /\ CartIsReadonly \in BOOLEAN

Parts == 0..1
Blocks == 0..LastBlock

\* 0xFFFFFFFFFFFFFFFF, which is MISSING_EOD and TAPE_BLOCK_MAX
Max64 == 1000000

None == [k |-> "none"]
Filemark == [k |-> "F"]
Eod == [k |-> "E"]
Data(v) == [k |-> "R", v |-> v]

Fail(x, e) == IF x.rc = "dead" THEN x ELSE [x EXCEPT !.rc = e]
Clear(x) == Fail(x, "ok")

\* one change of the directory or of the cartridge memory
Burn(x) == IF x.rc = "dead" THEN x
           ELSE IF x.fuel = 0 THEN [x EXCEPT !.rc = "dead"]
           ELSE [x EXCEPT !.fuel = @ - 1]

Put(x, p, b, r) ==
    LET y == Burn(x) IN
    IF y.rc = "dead" THEN y ELSE [y EXCEPT !.files[p][b] = r]

---------------------------------------------------------------------------
(* Records and EOD marks                                                   *)

\* all three file names of a block are unlinked
_filedebug_remove_record(x, p, b) ==
    IF x.rc # "ok" \/ x.files[p][b] = None THEN x ELSE Put(x, p, b, None)

\* the records behind the old EOD are unlinked from low to high numbers;
\* without a known EOD they stay
_filedebug_write_eod(x) ==
    LET p == x.drv.part
        b == x.drv.block
        old == x.drv.eod[p]
        y == Put(_filedebug_remove_record(x, p, b), p, b, Eod)
        extra == IF old = Max64 THEN {}
                 ELSE {i \in b+1 .. old : x.files[p][i] # None}
        gone == {i \in extra : Cardinality({j \in extra : j < i}) < y.fuel}
        z == [y EXCEPT !.files[p] = [i \in Blocks |->
                                        IF i \in gone THEN None ELSE @[i]],
                       !.fuel = @ - Cardinality(gone),
                       !.rc = IF gone = extra THEN @ ELSE "dead"]
    IN  IF x.rc # "ok" THEN x
        ELSE IF y.rc # "ok" THEN y
        ELSE IF z.rc # "ok" THEN z
        ELSE [z EXCEPT !.drv.last[p] = b - 1, !.drv.eod[p] = b]

\* The first block that holds no record, or the first EOD mark.  Where the
\* records end without a mark, last_block is set to that block, one more
\* than the number of the last record.
filedebug_search_eod(x, p) ==
    LET b == Min({i \in Blocks : x.files[p][i].k \in {"none", "E"}}
                    \cup {LastBlock})
        y == [x EXCEPT !.drv.part = p, !.drv.block = b]
    IN  IF x.rc # "ok" THEN x
        ELSE IF x.files[p][b].k = "none" /\ b # 0
        THEN [y EXCEPT !.drv.last[p] = b, !.drv.eod[p] = Max64]
        ELSE _filedebug_write_eod(y)

---------------------------------------------------------------------------
(* Cartridge memory                                                        *)

\* an attr_* file that does not exist
NoPass == -1
ZeroCoh == [count |-> 0, setid |-> 0, version |-> 0, vcr |-> 0, uuid |-> 0]
NoCoh == [ZeroCoh EXCEPT !.version = -1]
BlankMemory == [vcr |-> NoPass, coh |-> NoCoh, lock |-> "none", label |-> "none"]

filedebug_read_attribute(x, p, id) ==
    IF x.rc # "ok" THEN x
    ELSE IF x.mam[p][id] = BlankMemory[id] THEN Fail(x, "EDEV_INVALID_FIELD_CDB") ELSE x

filedebug_write_attribute(x, p, id, value) ==
    LET y == Burn(x) IN
    IF x.rc # "ok" THEN x
    ELSE IF y.rc # "ok" THEN y ELSE [y EXCEPT !.mam[p][id] = value]

_set_wp(x, wp) == filedebug_write_attribute(x, 0, "vcr", wp)

\* the write pass of a cartridge without one starts at 1; the caller's
\* variable stays 0
_get_wp(x) ==
    LET y == filedebug_read_attribute(x, 0, "vcr") IN
    IF y.rc = "ok" THEN [y EXCEPT !.drv.wp = x.mam[0].vcr]
    ELSE [_set_wp(Clear(y), 1) EXCEPT !.drv.wp = 0]

\* the write pass counts the loads with at least one write
NextPass(x) ==
    IF x.rc = "ok" /\ x.drv.wpprev = x.drv.wp
    THEN _set_wp([x EXCEPT !.drv.wp = @ + 1], x.drv.wp + 1)
    ELSE x

---------------------------------------------------------------------------
(* Reading, writing and moving                                             *)

\* Early warning flags are raised and never lowered here.  A write reports the
\* programmable warning only at the very block, a filemark also behind it.
Warn(x, exactly) ==
    IF x.rc # "ok" THEN x
    ELSE [x EXCEPT
        !.pos.ew = @ \/ x.drv.block >= Warning[x.drv.part],
        !.pos.pew = @ \/ x.drv.block = PWarning[x.drv.part]
                      \/ (~exactly /\ x.drv.block >= PWarning[x.drv.part])]

\* a record is returned in x.buf, a filemark as an empty one
filedebug_read(x) ==
    LET p == x.drv.part
        b == x.drv.block
        r == x.files[p][b]
        y == IF x.drv.frp # 0 THEN [x EXCEPT !.drv.rcnt = @ + 1] ELSE x
    IN  IF x.rc # "ok" THEN x
        ELSE IF ~x.drv.ready THEN Fail(x, "EDEV_NOT_READY")
        ELSE IF y.drv.frp # 0 /\ y.drv.rcnt > y.drv.frp
        THEN Fail(y, IF y.drv.errtype # 0 THEN "EDEV_READ_PERM"
                     ELSE "EDEV_NO_SENSE")
        ELSE IF y.drv.eod[p] = b THEN Fail(y, "EDEV_EOD_DETECTED")
        ELSE CASE r.k = "E" -> Fail(y, "EDEV_EOD_NOT_FOUND")
               [] r.k = "none" -> Fail(y, "EDEV_RW_PERM")
               [] OTHER -> [y EXCEPT !.drv.block = @ + 1, !.pos.block = b + 1,
                                     !.buf = r]

\* Writes that a real drive would lose from its buffer are reported good and
\* leave no record; the next one fails.
filedebug_write(x, v) ==
    LET p == x.drv.part
        y == IF x.drv.fwp # 0 THEN [x EXCEPT !.drv.wcnt = @ + 1] ELSE x
        a == NextPass(_filedebug_remove_record(y, p, y.drv.block))
        b == Put(a, p, y.drv.block, Data(v))
        c == _filedebug_write_eod([b EXCEPT !.drv.block = @ + 1,
                                            !.pos.block = b.drv.block + 1])
    IN  IF x.rc # "ok" THEN x
        ELSE IF ~x.drv.ready THEN Fail(x, "EDEV_NOT_READY")
        ELSE IF CartIsWorm /\ x.drv.eod[x.pos.part] # x.pos.block
        THEN Fail(x, "EDEV_WRITE_PROTECTED_WORM")
        ELSE IF CartIsReadonly THEN Fail(x, "EDEV_WRITE_PROTECTED")
        ELSE IF y.drv.fwp # 0 /\ y.drv.wcnt > y.drv.fwp
        THEN Fail(y, IF y.drv.errtype # 0 THEN "EDEV_NO_SENSE"
                     ELSE "EDEV_WRITE_PERM")
        ELSE IF y.drv.fwp # 0 /\ y.drv.wcnt > y.drv.fwp - Unflushed
        THEN [y EXCEPT !.drv.block = @ + 1, !.pos.block = y.drv.block + 1,
                       !.gone = @ \cup {v}]
        ELSE IF b.rc # "ok" THEN b
        ELSE Warn(c, TRUE)

\* libltfs writes no filemark or one
filedebug_writefm(x, count) ==
    LET p == x.drv.part
        a == _filedebug_remove_record(NextPass(x), p, x.drv.block)
        b == Put(a, p, x.drv.block, Filemark)
        c == _filedebug_write_eod([b EXCEPT !.drv.block = @ + 1,
                                            !.pos.block = b.drv.block + 1])
    IN  IF x.rc # "ok" THEN x
        ELSE IF ~x.drv.ready THEN Fail(x, "EDEV_NOT_READY")
        ELSE IF count = 0 THEN x
        ELSE IF b.rc # "ok" THEN b
        ELSE Warn(c, FALSE)

NoForcedErrors(x) ==
    [x EXCEPT !.drv.pcclr = FALSE, !.drv.fwp = 0, !.drv.frp = 0]

filedebug_rewind(x) ==
    IF x.rc # "ok" THEN x
    ELSE IF ~x.drv.ready THEN Fail(x, "EDEV_NOT_READY")
    ELSE [NoForcedErrors(x) EXCEPT !.drv.block = 0, !.drv.wcnt = 0,
             !.drv.rcnt = 0, !.pos.block = 0, !.pos.ew = FALSE, !.pos.pew = FALSE]

\* behind the last record the position is the end of data, or one block
\* behind last_block where the EOD mark is missing
filedebug_locate(x, p, dest) ==
    LET y == IF x.drv.part # p /\ x.drv.pcclr
             THEN [NoForcedErrors(x) EXCEPT !.drv.errtype = 0] ELSE x
        b == IF x.drv.eod[p] = Max64 /\ x.drv.last[p] < dest
             THEN x.drv.last[p] + 1
             ELSE IF x.drv.eod[p] < dest THEN x.drv.eod[p] ELSE dest
    IN  IF x.rc # "ok" THEN x
        ELSE IF ~x.drv.ready THEN Fail(x, "EDEV_NOT_READY")
        ELSE IF p \notin Parts THEN Fail(x, "EDEV_INVALID_ARG")
        ELSE Warn([y EXCEPT !.drv.part = p, !.drv.block = b,
                            !.pos.part = p, !.pos.block = b], FALSE)

\* forward: to the block behind the n-th filemark
SpaceForward(x, n) ==
    LET p == x.drv.part
        stop == IF x.drv.eod[p] >= x.drv.block /\ x.drv.eod[p] <= x.drv.last[p] + 1
                THEN x.drv.eod[p]
                ELSE IF x.drv.last[p] + 1 >= x.drv.block THEN x.drv.last[p] + 1
                ELSE x.drv.eod[p]
        fms == {i \in x.drv.block .. Min({stop, LastBlock + 1}) - 1 :
                    x.files[p][i] = Filemark}
    IN  IF Cardinality(fms) >= n
        THEN [x EXCEPT !.drv.block = 1 +
                 CHOOSE i \in fms : Cardinality({j \in fms : j <= i}) = n]
        ELSE Fail([x EXCEPT !.drv.block = stop],
                  IF stop = x.drv.eod[p] THEN "EDEV_EOD_DETECTED"
                  ELSE "EDEV_RW_PERM")

\* backward: onto the n-th filemark before the current block
SpaceBackward(x, n) ==
    LET p == x.drv.part
        from == IF x.drv.block > 0 THEN x.drv.block - 1 ELSE 0
        fms == {i \in 0 .. Min({from, LastBlock}) : x.files[p][i] = Filemark}
    IN  IF Cardinality(fms) >= n
        THEN [x EXCEPT !.drv.block =
                 CHOOSE i \in fms : Cardinality({j \in fms : j >= i}) = n]
        ELSE Fail([x EXCEPT !.drv.block = 0], "EDEV_BOP_DETECTED")

_filedebug_space_fm(x, n) ==
    IF n = 0 THEN x ELSE IF n > 0 THEN SpaceForward(x, n) ELSE SpaceBackward(x, -n)

\* the caller's position follows also when the call fails
filedebug_space(x, n) ==
    LET y == _filedebug_space_fm(x, n) IN
    IF x.rc # "ok" THEN x
    ELSE IF ~x.drv.ready THEN Fail(x, "EDEV_NOT_READY")
    ELSE IF x.drv.block = Max64 THEN Fail(x, "EDEV_RW_PERM")
    ELSE Fail(Warn([Clear(y) EXCEPT !.pos.block = y.drv.block], FALSE), y.rc)

filedebug_erase(x) ==
    IF x.rc # "ok" THEN x
    ELSE IF ~x.drv.ready THEN Fail(x, "EDEV_NOT_READY")
    ELSE _filedebug_write_eod([x EXCEPT !.pos.block = x.drv.block])

filedebug_readpos(x) ==
    IF x.rc # "ok" THEN x
    ELSE IF ~x.drv.ready THEN Fail(x, "EDEV_NOT_READY")
    ELSE [x EXCEPT !.pos.part = x.drv.part, !.pos.block = x.drv.block]

\* the block behind the last one that reached the medium, if as many as that
\* were lost; block numbers are unsigned
filedebug_get_next_block_to_xfer(x) ==
    [part |-> x.drv.part, block |-> (x.drv.block - Unflushed) % Max64]

---------------------------------------------------------------------------
(* Loading, formatting and the rest                                        *)

filedebug_load(x) ==
    LET home == [x EXCEPT !.drv.part = 0, !.drv.block = 0]
        a == filedebug_search_eod(filedebug_search_eod(
                [x EXCEPT !.drv.ready = TRUE], 0), 1)
        b == [a EXCEPT !.drv.part = 0, !.drv.block = 0,
                       !.drv.partitions = IF a.drv.eod[1] = 0 THEN 1 ELSE 2,
                       !.pos.part = 0, !.pos.block = 0]
        c == _get_wp(b)
    IN  IF x.rc # "ok" THEN x
        ELSE IF x.drv.ready
        THEN [NoForcedErrors(home) EXCEPT !.drv.wcnt = 0, !.drv.rcnt = 0]
        ELSE IF a.rc # "ok" THEN Fail(a, "EDEV_INTERNAL_ERROR")
        ELSE IF c.rc # "ok" THEN Fail(c, "EDEV_INTERNAL_ERROR")
        ELSE [c EXCEPT !.drv.wpprev = c.drv.wp]

filedebug_unload(x) ==
    IF x.rc # "ok" THEN x
    ELSE [NoForcedErrors(x) EXCEPT !.drv.ready = FALSE,
             !.drv.part = 0, !.drv.block = 0, !.drv.wcnt = 0, !.drv.rcnt = 0,
             !.pos.part = 0, !.pos.block = 0]

EraseAll(x) ==
    filedebug_erase([filedebug_erase(
        [x EXCEPT !.drv.part = 1, !.drv.block = 0])
            EXCEPT !.drv.part = 0, !.drv.block = 0])

\* the errors of erase are not looked at
filedebug_format(x, partitions) ==
    IF x.rc # "ok" THEN x
    ELSE IF x.drv.part # 0 \/ x.drv.block # 0 THEN Fail(x, "EDEV_ILLEGAL_REQUEST")
    ELSE IF CartIsWorm /\ (x.drv.eod[0] # 0 \/ x.drv.eod[1] # 0)
    THEN Fail(x, "EDEV_WRITE_PROTECTED_WORM")
    ELSE IF CartIsReadonly THEN Fail(x, "EDEV_WRITE_PROTECTED")
    ELSE Clear(EraseAll([x EXCEPT !.drv.partitions = partitions]))

filedebug_setcap(x) ==
    IF x.rc # "ok" THEN x
    ELSE IF x.drv.part # 0 \/ x.drv.block # 0 THEN Fail(x, "EDEV_ILLEGAL_REQUEST")
    ELSE Clear(EraseAll([x EXCEPT !.drv.partitions = 1]))

\* two blocks are one MB; the subtraction of 64-bit numbers wraps
filedebug_remaining_capacity(x) ==
    [p \in Parts |->
        IF x.drv.partitions # 2 THEN 0
        ELSE (Warning[p] \div 2 - x.drv.eod[p] \div 2) % Max64]

filedebug_get_eod_status(x, p) ==
    IF x.drv.eod[p] = Max64 THEN "EOD_MISSING" ELSE "EOD_GOOD"

\* ltfs.vendor.IBM.forceErrorWrite, forceErrorType and forceErrorRead
filedebug_set_xattr(x, name, value) ==
    LET n == IF value < 0 THEN -value ELSE value IN
    IF x.rc # "ok" THEN x
    ELSE CASE name = "forceErrorWrite" ->
                [x EXCEPT !.drv.fwp = n, !.drv.pcclr = value < 0, !.drv.wcnt = 0]
           [] name = "forceErrorRead" ->
                [x EXCEPT !.drv.frp = n, !.drv.pcclr = value < 0, !.drv.rcnt = 0]
           [] name = "forceErrorType" -> [x EXCEPT !.drv.errtype = value]

filedebug_reserve_unit(x) ==
    IF x.rc # "ok" THEN x
    ELSE IF x.drv.reserved THEN Fail(x, "EDEV_ILLEGAL_REQUEST")
    ELSE [x EXCEPT !.drv.reserved = TRUE]

filedebug_release_unit(x) == [x EXCEPT !.drv.reserved = FALSE]

filedebug_prevent_medium_removal(x, locked) ==
    IF x.rc # "ok" THEN x
    ELSE IF ~x.drv.ready THEN Fail(x, "EDEV_NOT_READY")
    ELSE [x EXCEPT !.drv.locked = locked]

filedebug_test_unit_ready(x) ==
    IF x.rc = "ok" /\ ~x.drv.ready THEN Fail(x, "EDEV_NEED_INITIALIZE") ELSE x

\* the state of a handle that filedebug_open returns
filedebug_open ==
    [ready |-> FALSE, part |-> 0, block |-> 0, last |-> [p \in Parts |-> 0],
     eod |-> [p \in Parts |-> 0], partitions |-> 0, wpprev |-> 0, wp |-> 0,
     pcclr |-> FALSE, fwp |-> 0, wcnt |-> 0, frp |-> 0, rcnt |-> 0,
     errtype |-> 0, reserved |-> FALSE, locked |-> FALSE]

===========================================================================
