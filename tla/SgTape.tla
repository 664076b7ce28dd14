------------------------------- MODULE SgTape -------------------------------
(***************************************************************************)
(* The Linux sg driver, src/tape_drivers/linux/sg/sg_tape.c: every         *)
(* function of its operation table and the functions they call, each as a  *)
(* function from the state before the call to the state after it (see      *)
(* ScsiDrive).  Command blocks, messages and profiling are left out; the   *)
(* private data keeps                                                      *)
(*   crc, dumps, ibm, lto   the options and the kind of the drive          *)
(*   at          the path the driver was opened on (priv->info)            *)
(*   recon       is_reconnecting       nest   recursive_counter            *)
(*   reserved, locked, loaded, worm, sili, keyset  flags of that name      *)
(*   fcrc        the checksum functions are set                            *)
(*   fw, fr, wc, rdc, etype, bypc  the forced errors and their counters    *)
(*   alert, acq  the latched tape alert, a cached performance value        *)
(*   off         capacity_offset                                           *)
(***************************************************************************)
EXTENDS ScsiDrive

\* THRESHOLD_FORCE_WRITE_NO_WRITE, 20 in the code.
Threshold == 2

MaxTakeDumpAttempts == 10

SgPriv(opt) ==
    [crc |-> opt.crc, dumps |-> opt.dumps, ibm |-> opt.ibm, lto |-> opt.lto, at |-> 1, recon |-> FALSE, nest |-> 0,
     reserved |-> FALSE, locked |-> FALSE, loaded |-> FALSE, worm |-> FALSE, sili |-> FALSE, keyset |-> FALSE,
     fcrc |-> FALSE, fw |-> 0, fr |-> 0, wc |-> 0, rdc |-> 0, etype |-> 0, bypc |-> FALSE, alert |-> FALSE,
     acq |-> FALSE, off |-> 0]

(***************************************************************************)
(* Commands and their errors.                                              *)
(***************************************************************************)
\* A host that asks for a retry gets one.
RECURSIVE IssueTimes(_, _, _)
IssueTimes(x, c, retry) ==
    Go(Transport(x, c),
       LAMBDA y : CASE y.rc = "ENODEV" -> Ret(y, "CONNECTION_LOST")
                    [] y.rc = "ENOMEM" -> Ret(y, "BUFFER_ALLOCATE_ERROR")
                    [] y.rc = "SOFT_ERROR" -> IF retry = 0 THEN IssueTimes(y, c, 1) ELSE Ret(y, "HOST_ERROR")
                    [] OTHER -> y)

sg_issue_cdb_command(x, c) == IF x.fd = 0 THEN Ret(x, "NO_CONNECTION") ELSE IssueTimes(x, c, 0)

\* The result of _process_errors replaces the error when it is one itself.
RECURSIVE _process_errors(_, _, _)

\* Every command is issued this way unless its function treats an error first.
Command(x, c) ==
    Go(sg_issue_cdb_command(x, c), LAMBDA y : IF Good(y) THEN y ELSE _process_errors(y, TRUE, TRUE))

_cdb_read_buffer(x) == Command(x, C("READ_BUFFER", 0, 0))
_cdb_force_dump(x) == Command(x, C("FORCE_DUMP", 0, 0))

is_dump_required(x) == x.rc \in SenseErrors
CaptureUnforced(x) == x.rc \in MediumOrHardware

\* The capacity of the buffer, then its data (a single transfer).
_get_dump(x) == _cdb_read_buffer(_cdb_read_buffer(x))

_take_dump(x, unforced) ==
    IF x.p.nest > MaxTakeDumpAttempts THEN x
    ELSE IF ~x.p.ibm THEN [x EXCEPT !.p.nest = @ + 1]
    ELSE LET y == [x EXCEPT !.p.nest = @ + 1]
             Force(z) == KeepResult(x, [_get_dump(_cdb_force_dump(z)) EXCEPT !.p.nest = 0])
         IN  Force(IF unforced THEN _get_dump(y) ELSE y)

(***************************************************************************)
(* Opening a path, clearing unit attentions, reservations.                 *)
(***************************************************************************)
increment_openfactor(x, q) == [x EXCEPT !.of[q] = @ + 1]
decrement_openfactor(x, q) == [x EXCEPT !.of[q] = IF @ > 0 THEN @ - 1 ELSE 0]
get_openfactor(x, q) == x.of[q]

_raw_dev_open(x, q) ==
    IF q \in x.paths THEN [x EXCEPT !.fd = q, !.rc = "ok"] ELSE [x EXCEPT !.fd = 0, !.rc = "DEVICE_UNOPENABLE"]

sg_get_drive_identifier(x) ==
    Then(sg_issue_cdb_command(x, C("INQUIRY", 0, 0)), LAMBDA y : sg_issue_cdb_command(y, C("INQUIRY", 128, 0)))

_raw_open(x, q) ==
    Then(_raw_dev_open(x, q),
         LAMBDA y : Go(sg_get_drive_identifier(y),
                       LAMBDA z : IF Good(z) THEN [z EXCEPT !.p.at = q] ELSE [z EXCEPT !.fd = 0]))

_raw_tur(x) == sg_issue_cdb_command(x, C("TUR", 0, 0))

\* At most three TEST UNIT READY, until one is good or finds no cartridge.
RECURSIVE TurTimes(_, _)
TurTimes(x, n) ==
    Go(_raw_tur(x), LAMBDA y : IF n = 1 \/ y.rc \in {"ok", "NO_MEDIUM"} THEN y ELSE TurTimes(y, n - 1))

_clear_por_raw(x) == TurTimes(x, 3)

\* Three equal answers in a row that are no unit attention.
RECURSIVE StableTur(_, _, _)
StableTur(x, last, i) ==
    IF i = 3 THEN Ret(x, last)
    ELSE Go(_raw_tur(x),
            LAMBDA y : CASE i > 0 /\ y.rc = last -> StableTur(y, last, i + 1)
                         [] y.rc \in UnitAttentions -> StableTur(y, "none", 0)
                         [] OTHER -> StableTur(y, y.rc, 1))

_get_stable_tur_response_raw(x) == StableTur(x, "none", 0)

sg_get_device_list(x) == x.paths

_order_cmp(x, q, r) ==
    \/ get_openfactor(x, q) < get_openfactor(x, r)
    \/ get_openfactor(x, q) = get_openfactor(x, r) /\ q < r

\* The paths of the drive in the order they are tried.
_create_open_order(x) ==
    LET S == sg_get_device_list(x)
        Rank(q) == Cardinality({r \in S : _order_cmp(x, r, q)})
    IN  [i \in 1..Cardinality(S) |-> CHOOSE q \in S : Rank(q) = i - 1]

_cdb_pri(x) == Command(x, C("PRI", 0, 0))

\* The answer is the nexus that holds the reservation.
_fetch_reservation_key(x) ==
    Then(_cdb_pri(x), LAMBDA y : IF y.ans = 0 THEN Ret(y, "NO_RESERVATION_HOLDER") ELSE y)

\* A conflict of a reserve is looked into and otherwise left to the caller.
_cdb_pro(x, action, key) ==
    Go(sg_issue_cdb_command(x, C("PRO", action, key)),
       LAMBDA y : CASE Good(y) -> y
                    [] y.rc = "RESERVATION_CONFLICT" /\ action = "reserve" -> KeepResult(y, _fetch_reservation_key(y))
                    [] OTHER -> _process_errors(y, TRUE, TRUE))

RECURSIVE _register_key(_, _)
_register_key(x, key) ==
    Go(_cdb_pro(x, "register", key),
       LAMBDA y : IF y.rc \in {"RESERVATION_PREEMPTED", "RESERVATION_RELEASED", "REGISTRATION_PREEMPTED"}
                  THEN _register_key(y, key) ELSE y)

\* The reserve is repeated once, with the key registered again.
RECURSIVE ReserveTimes(_, _)
ReserveTimes(x, count) ==
    Go(_cdb_pro(x, "reserve", TRUE),
       LAMBDA y : IF count = 0 /\ y.rc \in {"RESERVATION_PREEMPTED", "REGISTRATION_PREEMPTED", "RESERVATION_CONFLICT"}
                  THEN ReserveTimes(_register_key(y, TRUE), 1) ELSE y)

\* A changed sg_reserve: the driver believes its own flag.
sg_reserve_Cached(x) ==
    IF x.p.reserved THEN Ret(x, "ok") ELSE Then(ReserveTimes(x, 0), LAMBDA y : [y EXCEPT !.p.reserved = TRUE])

sg_reserve(x) == Then(ReserveTimes(x, 0), LAMBDA y : [y EXCEPT !.p.reserved = TRUE])
sg_release(x) == Then(_cdb_pro(x, "release", TRUE), LAMBDA y : [y EXCEPT !.p.reserved = FALSE])

\* The first path, in the order given, that can be opened.
RECURSIVE OpenFirst(_, _)
OpenFirst(x, order) ==
    Go(_raw_open(x, Head(order)), LAMBDA y : IF Good(y) \/ Tail(order) = << >> THEN y ELSE OpenFirst(y, Tail(order)))

\* A changed RecoverReservation: the key is registered, the old path is not
\* preempted.
RecoverReservation_NoPreempt(x) == Ret(_clear_por_raw(_register_key(x, TRUE)), "NEED_FAILOVER")

\* Another path was chosen: the reservation is taken over from the old one.
RecoverReservation(x) ==
    Then(_cdb_pro(_register_key(x, TRUE), "preempt", TRUE), LAMBDA y : Ret(_clear_por_raw(y), "NEED_FAILOVER"))

\* Nobody holds the drive: it has lost its power.
ReserveAgain(x) ==
    Then(sg_reserve(_register_key(x, TRUE)), LAMBDA y : Ret(_clear_por_raw(y), "REAL_POWER_ON_RESET"))

\* The same path again, or the old reservation does not bind the new one.
SamePath(x) ==
    Go(_fetch_reservation_key(x),
       LAMBDA y : IF y.rc = "NO_RESERVATION_HOLDER" THEN ReserveAgain(y) ELSE Ret(_clear_por_raw(y), "NEED_FAILOVER"))

\* A path is open again: whose is the drive now?
RECURSIVE CheckConflict(_, _)
CheckConflict(x, count) ==
    Go(_get_stable_tur_response_raw(_clear_por_raw(x)),
       LAMBDA y : CASE y.rc = "RESERVATION_CONFLICT" -> RecoverReservation(y)
                    [] count = 1 -> CheckConflict(y, 2)
                    [] OTHER -> SamePath(y))

\* A changed _reconnect_device: the old path still counts as open.
_reconnect_device_Counted(x) ==
    LET closed == [x EXCEPT !.fd = 0, !.p.at = 1]
        Open(order) == IF order = << >> THEN Ret(closed, "NO_CONNECTION") ELSE OpenFirst(closed, order)
    IN  Then(Open(_create_open_order(closed)), LAMBDA y : CheckConflict(increment_openfactor(y, y.p.at), 1))

_reconnect_device(x) ==
    LET closed == [decrement_openfactor([x EXCEPT !.fd = 0], x.p.at) EXCEPT !.p.at = 1]
        Open(order) == IF order = << >> THEN Ret(closed, "NO_CONNECTION") ELSE OpenFirst(closed, order)
    IN  Then(Open(_create_open_order(closed)), LAMBDA y : CheckConflict(increment_openfactor(y, y.p.at), 1))

_process_errors(x, print, dump) ==
    CASE x.rc = "NO_CONNECTION" -> x
      [] x.rc = "CONNECTION_LOST" /\ ~x.p.recon ->
           [_reconnect_device([x EXCEPT !.p.recon = TRUE]) EXCEPT !.p.recon = FALSE]
      [] print /\ dump /\ x.p.dumps /\ is_dump_required(x) -> _take_dump(x, CaptureUnforced(x))
      [] OTHER -> x

(***************************************************************************)
(* Position and movement.                                                  *)
(***************************************************************************)
sg_readpos(x) == Then(Command(x, C("READPOS", 0, 0)), LAMBDA y : [y EXCEPT !.pos = y.ans])

\* The position read into a variable of the caller; the answer is in ans.
ReadPosition(x) == [sg_readpos(x) EXCEPT !.pos = x.pos]

ClearForcePerm(x) == [x EXCEPT !.p.bypc = FALSE, !.p.fw = 0, !.p.fr = 0, !.p.wc = 0, !.p.rdc = 0]

sg_rewind(x) == Then(Command(x, C("REWIND", 0, 0)), LAMBDA y : sg_readpos(ClearForcePerm(y)))

\* The position is read whatever came of the command, and so is its error lost.
ThenReadPosition(x) == Go(sg_readpos(x), LAMBDA y : IF Good(x) THEN y ELSE KeepResult(x, y))

sg_locate(x, part, block) ==
    Go(sg_issue_cdb_command(IF x.pos.part # part /\ x.p.bypc THEN ClearForcePerm(x) ELSE x, C("LOCATE", part, block)),
       LAMBDA y : ThenReadPosition(CASE Good(y) -> y
                                     [] block = BlockMax /\ y.rc = "EOD_DETECTED" -> Ret(y, "ok")
                                     [] OTHER -> _process_errors(y, TRUE, TRUE)))

\* A changed sg_space: a unit attention has the command sent again.
sg_space_Again(x, type, count) ==
    Go(Command(x, C("SPACE", type, count)),
       LAMBDA y : Then(IF y.rc \in UnitAttentions THEN Command(y, C("SPACE", type, count)) ELSE y, sg_readpos))

sg_space(x, type, count) == Then(Command(x, C("SPACE", type, count)), sg_readpos)

(***************************************************************************)
(* Reading and writing records.                                            *)
(***************************************************************************)
\* The kernel had no memory for a command: find out whether the drive got it,
\* and go back one block when it did.
_handle_block_allocation_failure(x) ==
    LET Landed(y, block) == Ret(y, IF block = y.ans.block THEN "RETRY" ELSE "BAD_LOCATE")
        BackOne(y) == Then(sg_space(y, "b", 1), LAMBDA z : Then(ReadPosition(z), LAMBDA w : Landed(w, z.pos.block)))
    IN  Then(ReadPosition(x),
             LAMBDA y : CASE y.ans.part # x.pos.part -> [y EXCEPT !.n = 0]
                          [] y.ans.block = x.pos.block -> Ret(y, "RETRY")
                          [] y.ans.block - 1 = x.pos.block -> BackOne(y)
                          [] OTHER -> Ret(y, "BUFFER_ALLOCATE_ERROR"))

\* A record is longer than the buffer, counting checksums.
Overruns(x, size) ==
    LET stored == IF x.n = Stray THEN 10 * Full + 4 ELSE 10 * x.n
    IN  stored + (IF x.d.lbp THEN 4 ELSE 0) > 10 * size + (IF x.p.crc THEN 4 ELSE 0)

_cdb_read(x, size) ==
    LET Outcome(y) ==
          CASE y.rc \in {"ok", "FILEMARK_DETECTED", "LENGTH_MISMATCH"} -> y
            [] y.rc = "CLEANING_REQUIRED" -> [y EXCEPT !.rc = "ok", !.n = 0]
            [] y.rc = "KEY_REQUIRED" /\ ~y.p.keyset -> y
            [] OTHER -> _process_errors(y, TRUE, TRUE)
    IN  Go(sg_issue_cdb_command(x, C("READ", size, 0)),
           LAMBDA y : Outcome(IF Good(y) /\ Overruns(y, size) THEN Ret(y, "OVERRUN") ELSE y))

\* A checksum is present and right in what was read.
ChecksumGood(x) == x.d.lbp \/ x.n = Stray

\* A changed ReadDone: a filemark is not counted as a block.
ReadDone_NoMark(x) ==
    IF x.rc = "FILEMARK_DETECTED" THEN [x EXCEPT !.pos.fm = @ + 1, !.rc = "ok", !.n = 0]
    ELSE Then(x, LAMBDA y : [y EXCEPT !.pos.block = @ + 1])

\* What sg_read does with the outcome of its last _cdb_read.
ReadDone(x) ==
    LET Counted(y) ==
          IF y.p.crc /\ y.n > 0 /\ y.p.fcrc /\ ~ChecksumGood(y) THEN Ret(_take_dump(y, FALSE), "LBP_READ_ERROR") ELSE y
        Marked == IF x.rc = "FILEMARK_DETECTED" THEN [x EXCEPT !.pos.fm = @ + 1, !.rc = "ok", !.n = 0] ELSE x
    IN  Then(Marked, LAMBDA y : Counted([y EXCEPT !.pos.block = @ + 1]))

\* The first block of the tape was read in full although its size may differ:
\* once more, without suppressing the length error.
RereadFirst(x, size) ==
    Then(sg_locate(x, x.pos.part, 0), LAMBDA y : ReadDone(_cdb_read([y EXCEPT !.p.sili = FALSE], size)))

\* retry is pos_retry, <<0, 0>> when no retry was made.
RECURSIVE ReadFrom(_, _, _, _)
ReadFrom(x, size, unusual, retry) ==
    Go(_cdb_read(x, size),
       LAMBDA y :
         CASE y.rc = "LENGTH_MISMATCH" ->
                IF retry # <<0, 0>> THEN KeepResult(y, sg_readpos(y))
                ELSE Then(sg_locate(y, y.pos.part, y.pos.block),
                          LAMBDA z : ReadFrom(z, size, unusual, <<y.pos.part, y.pos.block>>))
           [] Good(y) /\ y.pos.block = 0 /\ unusual /\ y.n = size /\ ~y.d.lbp -> RereadFirst(y, size)
           [] y.rc = "BUFFER_ALLOCATE_ERROR" ->
                Go(_handle_block_allocation_failure(y),
                   LAMBDA z : IF z.rc = "RETRY" THEN ReadFrom(z, size, unusual, retry) ELSE ReadDone(z))
           [] OTHER -> ReadDone(y))

ForcedReadError(x) == x.p.fr > 0 /\ x.p.rdc + 1 > x.p.fr

sg_read(x, size, unusual) ==
    LET y == IF x.p.fr > 0 THEN [x EXCEPT !.p.rdc = @ + 1] ELSE x
    IN  IF ForcedReadError(x) THEN Ret(y, IF x.p.etype # 0 THEN "NO_SENSE" ELSE "READ_PERM")
        ELSE ReadFrom(y, size, unusual, <<0, 0>>)

\* Early warnings and a request for cleaning are no errors of a write; the
\* answer is the pair of early warnings.
Warned(x) ==
    CASE x.rc = "EARLY_WARNING" -> Answer(x, <<TRUE, TRUE>>)
      [] x.rc = "PROG_EARLY_WARNING" -> Answer(x, <<FALSE, TRUE>>)
      [] x.rc \in {"ok", "CLEANING_REQUIRED"} -> Answer(x, <<FALSE, FALSE>>)
      [] OTHER -> _process_errors(x, TRUE, TRUE)

Checksum(x) == IF ~x.p.crc THEN "none" ELSE IF x.p.fcrc THEN "crc" ELSE "junk"

_cdb_write(x, size) == Warned(sg_issue_cdb_command(x, C("WRITE", size, Checksum(x))))

\* A changed CheckFailover: the command is taken for done, and the position for
\* the one behind it.
CheckFailover_Trust(x, count) == Go(sg_readpos(x), LAMBDA y : IF Good(y) THEN y ELSE KeepResult(x, y))

\* After a failover the position tells whether the command was carried out.
CheckFailover(x, count) ==
    Go(ReadPosition(x),
       LAMBDA y : CASE ~Good(y) -> KeepResult(x, y)
                    [] y.ans.part = x.pos.part /\ y.ans.block = x.pos.block + count ->
                         [y EXCEPT !.pos.block = @ + 1, !.pos.ew = y.ans.ew, !.pos.pew = y.ans.pew]
                    [] OTHER -> Ret(y, "POR_OR_BUS_RESET"))

\* Repeated while the kernel has no memory (MAX_RETRY is not reached here).
RECURSIVE WriteFrom(_, _)
WriteFrom(x, size) ==
    Go(_cdb_write(x, size),
       LAMBDA y : CASE Good(y) -> [y EXCEPT !.pos.block = @ + 1, !.pos.ew = y.ans[1], !.pos.pew = y.ans[2]]
                    [] y.rc = "NEED_FAILOVER" -> CheckFailover(y, 1)
                    [] y.rc = "BUFFER_ALLOCATE_ERROR" ->
                         Go(_handle_block_allocation_failure(y),
                            LAMBDA z : IF z.rc = "RETRY" THEN WriteFrom(z, size) ELSE z)
                    [] OTHER -> y)

sg_write(x, size) ==
    LET y == IF x.p.fw > 0 THEN [x EXCEPT !.p.wc = @ + 1] ELSE x
    IN  CASE y.p.fw > 0 /\ y.p.wc > y.p.fw -> Ret(y, IF y.p.etype # 0 THEN "NO_SENSE" ELSE "WRITE_PERM")
          [] y.p.fw > 0 /\ y.p.wc > y.p.fw - Threshold -> [y EXCEPT !.pos.block = @ + 1, !.rc = "ok"]
          [] OTHER -> WriteFrom(y, size)

sg_writefm(x, count) ==
    Go(Warned(sg_issue_cdb_command(x, C("WRITEFM", count, 0))),
       LAMBDA y : CASE Good(y) -> Then(sg_readpos(y),
                                       LAMBDA z : [z EXCEPT !.pos.ew = @ \/ y.ans[1], !.pos.pew = @ \/ y.ans[2]])
                    [] y.rc = "NEED_FAILOVER" -> CheckFailover(y, count)
                    [] OTHER -> y)

(***************************************************************************)
(* The remaining commands.                                                 *)
(***************************************************************************)
sg_reopen(x) == Ret(x, "ok")
sg_close_raw(x) == [x EXCEPT !.fd = 0, !.rc = "ok"]
sg_is_connected(x, q) == Ret(x, IF q \in x.paths THEN "ok" ELSE "ENOENT")
sg_inquiry_page(x) == Command(x, C("INQUIRY", 0, 0))
sg_inquiry(x) == sg_inquiry_page(x)

\* No message and no dump for any error.
sg_test_unit_ready(x) ==
    Go(sg_issue_cdb_command(x, C("TUR", 0, 0)), LAMBDA y : IF Good(y) THEN y ELSE _process_errors(y, FALSE, FALSE))

_cdb_request_sense(x) == Command(x, C("REQUEST_SENSE", 0, 0))

\* A long erase is polled until REQUEST SENSE no longer says it is in progress
\* (at the first poll here); its error is then processed a second time.
sg_erase(x, long) ==
    LET Polled(y) == IF long /\ Good(y) THEN _cdb_request_sense(y) ELSE y
    IN  Go(Polled(sg_issue_cdb_command(x, C("ERASE", 0, 0))),
           LAMBDA y : IF Good(y) THEN y ELSE _process_errors(y, TRUE, TRUE))

\* A medium change is what a load or an unload is expected to report.
_cdb_load_unload(x, load) ==
    Go(sg_issue_cdb_command(x, C(IF load THEN "LOAD" ELSE "UNLOAD", 0, 0)),
       LAMBDA y : IF y.rc \in {"ok", "MEDIUM_MAY_BE_CHANGED"} THEN Ret(y, "ok") ELSE _process_errors(y, TRUE, TRUE))

\* Both return a length, which is never 0.
sg_logsense(x) == [Command(x, C("LOG_SENSE", 0, 0)) EXCEPT !.n = 1]
sg_modesense(x) == [Command(x, C("MODE_SENSE", 0, 0)) EXCEPT !.n = 1]
sg_modeselect(x) == Command(x, C("MODE_SELECT", 0, 0))

\* An error of the position is not looked at.
sg_load(x) ==
    LET Positioned(y) == KeepResult(y, sg_readpos(y))
        Loaded(y) == [y EXCEPT !.p.loaded = TRUE, !.p.alert = FALSE]
    IN  Then(Positioned(ClearForcePerm(_cdb_load_unload(x, TRUE))),
             LAMBDA y : Then(sg_modesense(Loaded(y)), LAMBDA z : [z EXCEPT !.p.worm = @ \/ z.ans.flag]))

sg_unload(x) ==
    Go(ClearForcePerm(_cdb_load_unload(x, FALSE)),
       LAMBDA y : IF ~Good(y) THEN KeepResult(y, sg_readpos(y))
                  ELSE [y EXCEPT !.p.loaded = FALSE, !.p.alert = FALSE, !.pos.part = 0, !.pos.block = 0])

\* An enterprise drive is scaled, unless the cartridge is short or WORM.
sg_setcap(x) ==
    IF x.p.lto THEN Command(x, C("SETCAP", 0, 0))
    ELSE Then(sg_modesense(x), LAMBDA y : IF y.ans.flag THEN y ELSE sg_modeselect(y))

\* The mode sense never returns 0, so the kind of the cartridge is not updated.
sg_format(x) == Go(Command(x, C("FORMAT", 0, 0)), LAMBDA y : KeepResult(y, sg_modesense(y)))

\* A parameter of a log page; the answer of the page stays in ans.
_parse_logPage(x) == IF x.ans.found THEN Ret(x, "ok") ELSE Ret(x, "INTERNAL_ERROR")

\* Capacity left in the data partition of the model's cartridge.
Remaining == 3

sg_remaining_capacity(x) ==
    LET offset == IF Remaining < x.p.off THEN Remaining ELSE x.p.off
    IN  Then(sg_logsense(x), LAMBDA y : Then(_parse_logPage(y), LAMBDA z : Answer(z, Remaining - offset)))

_cdb_prevent_allow_medium_removal(x, prevent) ==
    Then(Command(x, C("PREVENT", prevent, 0)), LAMBDA y : [y EXCEPT !.p.locked = prevent])

sg_prevent_medium_removal(x) == _cdb_prevent_allow_medium_removal(x, TRUE)
sg_allow_medium_removal(x) == _cdb_prevent_allow_medium_removal(x, FALSE)

sg_write_attribute(x, v) == Command(x, C("WRITE_ATTRIBUTE", v, 0))

sg_read_attribute(x) ==
    Go(sg_issue_cdb_command(x, C("READ_ATTRIBUTE", 0, 0)),
       LAMBDA y : IF Good(y) THEN y ELSE _process_errors(y, TRUE, y.rc # "INVALID_FIELD_CDB"))

sg_allow_overwrite(x, block) ==
    Go(sg_issue_cdb_command(x, C("ALLOW_OVERWRITE", block, 0)),
       LAMBDA y : CASE Good(y) -> y
                    [] block = BlockMax /\ y.rc = "EOD_DETECTED" -> Ret(y, "ok")
                    [] OTHER -> _process_errors(y, TRUE, TRUE))

sg_set_compression(x) == Then(sg_modesense(x), sg_modeselect)

\* A changed _set_lbp: a setting the driver has already made is not repeated.
_set_lbp_Cached(x, enable) ==
    IF x.p.fcrc = enable THEN Ret(x, "ok")
    ELSE Then(Command(x, C("SET_LBP", enable, 0)), LAMBDA w : [w EXCEPT !.p.fcrc = enable])

\* The enterprise drive is asked for the method first.
_set_lbp(x, enable) ==
    Then(IF x.p.lto THEN Ret(x, "ok") ELSE sg_modesense(x),
         LAMBDA y : Then(sg_modesense(y),
                         LAMBDA z : Then(Command(z, C("SET_LBP", enable, 0)),
                                         LAMBDA w : [w EXCEPT !.p.fcrc = enable])))

\* Reading across the end of data is switched off on an enterprise drive.
sg_set_default(x) ==
    LET y == [x EXCEPT !.p.sili = TRUE, !.rc = "ok"]
    IN  Then(IF x.p.lto THEN y ELSE Then(sg_modesense(y), sg_modeselect),
             LAMBDA z : IF x.p.ibm THEN _set_lbp(z, x.p.crc) ELSE z)

\* Two log pages whose errors are only logged.
sg_get_cartridge_health(x) == Ret(sg_logsense(sg_logsense(x)), "ok")

sg_get_tape_alert(x) ==
    LET Latch(y) == [y EXCEPT !.p.alert = @ \/ (Good(y) /\ y.ans.flag)]
    IN  Go(Latch(sg_logsense(x)), LAMBDA y : [y EXCEPT !.ans = y.p.alert])

sg_clear_tape_alert(x) == [x EXCEPT !.p.alert = FALSE, !.rc = "ok"]

\* The performance value is fetched once; an error has it fetched again.
sg_get_xattr(x) ==
    LET Found(y) == IF y.ans.found THEN y ELSE Ret(y, "NO_XATTR")
    IN  IF x.p.acq THEN Ret(x, "ok")
        ELSE Go(Then(sg_logsense(x), Found), LAMBDA y : [y EXCEPT !.p.acq = Good(y)])

\* v < 0 asks for the error to be cleared by a change of partition.
Magnitude(v) == IF v < 0 THEN -v ELSE v
sg_set_xattr(x, name, v) ==
    LET Floor == IF Magnitude(v) = 0 \/ Magnitude(v) >= Threshold THEN Magnitude(v) ELSE Threshold
        y == Ret(x, "ok")
    IN  CASE name = "forceErrorWrite" -> [y EXCEPT !.p.fw = Floor, !.p.bypc = v < 0, !.p.wc = 0]
          [] name = "forceErrorRead" -> [y EXCEPT !.p.fr = Magnitude(v), !.p.bypc = v < 0, !.p.rdc = 0]
          [] name = "forceErrorType" -> [y EXCEPT !.p.etype = v]
          [] name = "capOffset" -> [y EXCEPT !.p.off = v]
          [] OTHER -> Ret(x, "NO_XATTR")

_cdb_read_block_limits(x) == Command(x, C("BLOCK_LIMITS", 0, 0))

\* Write protection comes from a mode page; the block limits' error is lost.
sg_get_parameters(x) ==
    Then(IF x.p.loaded THEN sg_modesense(x) ELSE Ret(x, "ok"), LAMBDA y : Ret(_cdb_read_block_limits(y), "ok"))

sg_get_eod_status(x) ==
    Go(sg_logsense(x),
       LAMBDA y : Answer(y, CASE ~Good(y) -> "EOD_UNKNOWN"
                              [] ~y.ans.found -> "EOD_UNKNOWN"
                              [] y.ans.flag -> "EOD_MISSING"
                              [] OTHER -> "EOD_GOOD"))

sg_parse_opts(x, crc) == [x EXCEPT !.p.crc = crc, !.rc = "ok"]

_cdb_spin(x) == Command(x, C("SPIN", 0, 0))
_cdb_spout(x, set) == Command(x, C("SPOUT", set, 0))

\* Application managed encryption: the answer; a mode sense that returns a
\* length is taken for a failure.
is_ame(x) == Go(sg_modesense(x), LAMBDA y : [y EXCEPT !.ans = Good(y) /\ y.n = 0])

is_encryption_capable(x) ==
    IF x.p.lto THEN Ret(x, "INTERNAL_ERROR")
    ELSE Go(is_ame(x), LAMBDA y : Ret(y, IF y.ans THEN "ok" ELSE "INTERNAL_ERROR"))

sg_set_key(x, set) ==
    LET Stored(y) == sg_modesense([y EXCEPT !.p.keyset = set])
        Sensed(y) == IF y.n # 0 THEN y ELSE Then(_cdb_spout(y, set), Stored)
    IN  Then(is_encryption_capable(x), LAMBDA y : Then(sg_modesense(y), Sensed))

sg_get_keyalias(x) == Then(is_encryption_capable(x), LAMBDA y : Then(_cdb_spin(y), _cdb_spin))

sg_takedump_drive(x, unforced) == Ret(_take_dump(x, unforced), "ok")

\* What the cartridge and the drive allow is a table of ibm_tape.c.
sg_is_mountable(x) == Answer(x, "MEDIUM_WRITABLE")
sg_is_readonly(x) == Answer(x, FALSE)
sg_get_worm_status(x) == IF x.p.loaded THEN Answer(x, x.p.worm) ELSE [x EXCEPT !.rc = "UNKNOWN", !.ans = FALSE]
sg_get_serialnumber(x) == Ret(x, "ok")
sg_get_info(x) == Answer(x, x.p.at)
sg_set_profiler(x) == Ret(x, "ok")

sg_get_next_block_to_xfer(x) ==
    Then(Command(x, C("READPOS", 0, 0)), LAMBDA y : [y EXCEPT !.pos.part = y.ans.part, !.pos.block = y.ans.block])

\* Recommended access order; LTO generations up to 8 have none.
sg_grao(x) == IF x.p.lto THEN Ret(x, "UNSUPPORTED_COMMAND") ELSE Command(x, C("GRAO", 0, 0))
sg_rrao(x) == IF x.p.lto THEN Ret(x, "UNSUPPORTED_COMMAND") ELSE Command(x, C("RRAO", 0, 0))

(***************************************************************************)
(* Open and close.                                                         *)
(***************************************************************************)
_cdb_rsoc(x) == Command(x, C("RSOC", 0, 0))

\* One path of a drive given by its serial number: it is taken when nobody
\* holds the drive, or this host does and can reserve it again.
OpenBySerial(x, q) ==
    LET Closed(y) == [y EXCEPT !.fd = 0]
        Mine(y) == Go(_cdb_pro(y, "reserve", TRUE), LAMBDA z : IF Good(z) THEN [z EXCEPT !.p.reserved = TRUE] ELSE Closed(z))
    IN  Then(_raw_open(x, q),
             LAMBDA o : Go(_fetch_reservation_key(_clear_por_raw(o)),
                           LAMBDA y : CASE y.rc = "NO_RESERVATION_HOLDER" -> Ret(y, "ok")
                                        [] ~Good(y) -> Closed(y)
                                        [] y.ans \in Paths -> Mine(y)
                                        [] OTHER -> Closed(y)))

RECURSIVE TryPaths(_, _)
TryPaths(x, order) ==
    Go(OpenBySerial(x, Head(order)), LAMBDA y : IF y.fd # 0 \/ Tail(order) = << >> THEN y ELSE TryPaths(y, Tail(order)))

\* The supported commands, the unit attentions, the key, the defaults; none of
\* their results fails the open.
FinishOpen(x) ==
    [_register_key(_clear_por_raw(_cdb_rsoc(increment_openfactor(x, x.p.at))), TRUE)
     EXCEPT !.p.bypc = FALSE, !.p.fw = 0, !.p.fr = 0, !.p.etype = 0, !.rc = "ok"]

\* name is a path, or 0 for a serial number.
sg_open(x, name) ==
    LET Search(order) == IF order = << >> THEN Ret(x, "DEVICE_UNOPENABLE") ELSE TryPaths(x, order)
        Opened(y) == IF y.fd # 0 THEN FinishOpen(y) ELSE IF Good(y) THEN Ret(y, "UNKNOWN") ELSE y
    IN  Opened(IF name \in x.paths THEN _raw_open(x, name) ELSE Search(_create_open_order(x)))

\* The result is an error whatever happens.
sg_close(x) ==
    LET Closed(y) == decrement_openfactor([y EXCEPT !.fd = 0], y.p.at)
    IN  [Closed(_register_key(_set_lbp(x, FALSE), FALSE)) EXCEPT !.p = [SgPriv(x.p) EXCEPT !.off = x.p.off], !.rc = "UNKNOWN"]

\* The operation table: op is the entry, a its argument.
sg_handler(x, op, a) ==
    CASE op = "open" -> sg_open(x, a)
      [] op = "reopen" -> sg_reopen(x)
      [] op = "close" -> sg_close(x)
      [] op = "close_raw" -> sg_close_raw(x)
      [] op = "is_connected" -> sg_is_connected(x, a)
      [] op = "inquiry" -> sg_inquiry(x)
      [] op = "inquiry_page" -> sg_inquiry_page(x)
      [] op = "test_unit_ready" -> sg_test_unit_ready(x)
      [] op = "read" -> sg_read(x, Full, a)
      [] op = "write" -> sg_write(x, a)
      [] op = "writefm" -> sg_writefm(x, a)
      [] op = "rewind" -> sg_rewind(x)
      [] op = "locate" -> sg_locate(x, a[1], a[2])
      [] op = "space" -> sg_space(x, a[1], a[2])
      [] op = "erase" -> sg_erase(x, a)
      [] op = "load" -> sg_load(x)
      [] op = "unload" -> sg_unload(x)
      [] op = "readpos" -> sg_readpos(x)
      [] op = "setcap" -> sg_setcap(x)
      [] op = "format" -> sg_format(x)
      [] op = "remaining_capacity" -> sg_remaining_capacity(x)
      [] op = "logsense" -> sg_logsense(x)
      [] op = "modesense" -> sg_modesense(x)
      [] op = "modeselect" -> sg_modeselect(x)
      [] op = "reserve_unit" -> sg_reserve(x)
      [] op = "release_unit" -> sg_release(x)
      [] op = "prevent_medium_removal" -> sg_prevent_medium_removal(x)
      [] op = "allow_medium_removal" -> sg_allow_medium_removal(x)
      [] op = "write_attribute" -> sg_write_attribute(x, a)
      [] op = "read_attribute" -> sg_read_attribute(x)
      [] op = "allow_overwrite" -> sg_allow_overwrite(x, a)
      [] op = "grao" -> sg_grao(x)
      [] op = "rrao" -> sg_rrao(x)
      [] op = "set_compression" -> sg_set_compression(x)
      [] op = "set_default" -> sg_set_default(x)
      [] op = "get_cartridge_health" -> sg_get_cartridge_health(x)
      [] op = "get_tape_alert" -> sg_get_tape_alert(x)
      [] op = "clear_tape_alert" -> sg_clear_tape_alert(x)
      [] op = "get_xattr" -> sg_get_xattr(x)
      [] op = "set_xattr" -> sg_set_xattr(x, a[1], a[2])
      [] op = "get_parameters" -> sg_get_parameters(x)
      [] op = "get_eod_status" -> sg_get_eod_status(x)
      [] op = "parse_opts" -> sg_parse_opts(x, a)
      [] op = "set_key" -> sg_set_key(x, a)
      [] op = "get_keyalias" -> sg_get_keyalias(x)
      [] op = "takedump_drive" -> sg_takedump_drive(x, a)
      [] op = "is_mountable" -> sg_is_mountable(x)
      [] op = "get_worm_status" -> sg_get_worm_status(x)
      [] op = "get_serialnumber" -> sg_get_serialnumber(x)
      [] op = "get_info" -> sg_get_info(x)
      [] op = "set_profiler" -> sg_set_profiler(x)
      [] op = "get_next_block_to_xfer" -> sg_get_next_block_to_xfer(x)
      [] op = "is_readonly" -> sg_is_readonly(x)
=============================================================================
