----------------------------- MODULE ScsipiTape -----------------------------
(***************************************************************************)
(* The NetBSD driver, src/tape_drivers/netbsd/scsipi-ibmtape, in the form  *)
(* of SgTape (see there for the private data).  The kernel tells less than *)
(* that of Linux: every failure of a request and every status but a check  *)
(* condition is one error, so that a lost connection and a reservation     *)
(* conflict are never recognised, and what the driver would do then (the   *)
(* reconnection, the repeated reserve) is never done.                      *)
(***************************************************************************)
EXTENDS ScsiDrive

\* THRESHOLD_FORCE_WRITE_NO_WRITE, 20 in the code.
Threshold == 2

ScsipiPriv(opt) ==
    [crc |-> opt.crc, dumps |-> opt.dumps, lto |-> opt.lto, at |-> 1, recon |-> FALSE,
     reserved |-> FALSE, locked |-> FALSE, loaded |-> FALSE, worm |-> FALSE, sili |-> FALSE, keyset |-> FALSE,
     fcrc |-> FALSE, fw |-> 0, fr |-> 0, wc |-> 0, rdc |-> 0, etype |-> 0, bypc |-> FALSE, alert |-> FALSE,
     acq |-> FALSE, off |-> 0]

(***************************************************************************)
(* Commands and their errors.                                              *)
(***************************************************************************)
scsipi_issue_cdb_command(x, c) ==
    IF x.fd = 0 THEN Ret(x, "DRIVER_ERROR")
    ELSE Go(Transport(x, c),
            LAMBDA y : IF y.rc \in {"ENODEV", "ENOMEM", "SOFT_ERROR", "RESERVATION_CONFLICT"} THEN Ret(y, "DRIVER_ERROR") ELSE y)

\* The result of _process_errors replaces the error when it is one itself.
RECURSIVE _process_errors(_, _, _)

\* Every command is issued this way unless its function treats an error first.
Command(x, c) ==
    Go(scsipi_issue_cdb_command(x, c), LAMBDA y : IF Good(y) THEN y ELSE _process_errors(y, TRUE, TRUE))

_cdb_read_buffer(x) == Command(x, C("READ_BUFFER", 0, 0))
_cdb_force_dump(x) == Command(x, C("FORCE_DUMP", 0, 0))

is_dump_required(x) == x.rc \in SenseErrors
CaptureUnforced(x) == x.rc \in MediumOrHardware

\* The capacity of the buffer, then its data (a single transfer).
_get_dump(x) == _cdb_read_buffer(_cdb_read_buffer(x))

_take_dump(x, unforced) ==
    LET Force(z) == KeepResult(x, _get_dump(_cdb_force_dump(z)))
    IN  Force(IF unforced THEN _get_dump(x) ELSE x)

(***************************************************************************)
(* Opening a path, clearing unit attentions, reservations.                 *)
(***************************************************************************)
_raw_dev_open(x, q) ==
    IF q \in x.paths THEN [x EXCEPT !.fd = q, !.rc = "ok"] ELSE [x EXCEPT !.fd = 0, !.rc = "DEVICE_UNOPENABLE"]

scsipi_get_drive_identifier(x) ==
    Then(scsipi_issue_cdb_command(x, C("INQUIRY", 0, 0)), LAMBDA y : scsipi_issue_cdb_command(y, C("INQUIRY", 128, 0)))

_raw_open(x, q) ==
    Then(_raw_dev_open(x, q),
         LAMBDA y : Go(scsipi_get_drive_identifier(y),
                       LAMBDA z : IF Good(z) THEN [z EXCEPT !.p.at = q] ELSE [z EXCEPT !.fd = 0]))

_raw_tur(x) == scsipi_issue_cdb_command(x, C("TUR", 0, 0))

\* At most three TEST UNIT READY, until one is good or finds no cartridge.
RECURSIVE TurTimes(_, _)
TurTimes(x, n) ==
    Go(_raw_tur(x), LAMBDA y : IF n = 1 \/ y.rc \in {"ok", "NO_MEDIUM"} THEN y ELSE TurTimes(y, n - 1))

_clear_por_raw(x) == TurTimes(x, 3)

scsipi_ibmtape_get_device_list(x) == x.paths

_cdb_pri(x) == Command(x, C("PRI", 0, 0))

\* The answer is the nexus that holds the reservation.
_fetch_reservation_key(x) ==
    Then(_cdb_pri(x), LAMBDA y : IF y.ans = 0 THEN Ret(y, "NO_RESERVATION_HOLDER") ELSE y)

\* A conflict of a reserve is looked into and otherwise left to the caller.
_cdb_pro(x, action, key) ==
    Go(scsipi_issue_cdb_command(x, C("PRO", action, key)),
       LAMBDA y : CASE Good(y) -> y
                    [] y.rc = "RESERVATION_CONFLICT" /\ action = "reserve" -> KeepResult(y, _fetch_reservation_key(y))
                    [] OTHER -> _process_errors(y, TRUE, TRUE))

RECURSIVE _register_key(_, _)
_register_key(x, key) ==
    Go(_cdb_pro(x, "register", key),
       LAMBDA y : IF y.rc \in {"RESERVATION_PREEMPTED", "RESERVATION_RELEASED", "REGISTRATION_PREEMPTED"}
                  THEN _register_key(y, key) ELSE y)

\* The reserve is repeated once, with the key registered again.
RECURSIVE ReserveTimes(_, _)
ReserveTimes(x, count) ==
    Go(_cdb_pro(x, "reserve", TRUE),
       LAMBDA y : IF count = 0 /\ y.rc \in {"RESERVATION_PREEMPTED", "REGISTRATION_PREEMPTED", "RESERVATION_CONFLICT"}
                  THEN ReserveTimes(_register_key(y, TRUE), 1) ELSE y)

scsipi_ibmtape_reserve(x) == Then(ReserveTimes(x, 0), LAMBDA y : [y EXCEPT !.p.reserved = TRUE])
scsipi_ibmtape_release(x) == Then(_cdb_pro(x, "release", TRUE), LAMBDA y : [y EXCEPT !.p.reserved = FALSE])

\* Another path was chosen: the reservation is taken over from the old one.
RecoverReservation(x) ==
    Then(_cdb_pro(_register_key(x, TRUE), "preempt", TRUE), LAMBDA y : Ret(_clear_por_raw(y), "NEED_FAILOVER"))

\* Nobody holds the drive: it has lost its power.
ReserveAgain(x) ==
    Then(scsipi_ibmtape_reserve(_register_key(x, TRUE)), LAMBDA y : Ret(_clear_por_raw(y), "REAL_POWER_ON_RESET"))

\* The same path again, or the old reservation does not bind the new one.
SamePath(x) ==
    Go(_fetch_reservation_key(x),
       LAMBDA y : IF y.rc = "NO_RESERVATION_HOLDER" THEN ReserveAgain(y) ELSE Ret(_clear_por_raw(y), "NEED_FAILOVER"))

\* The first path found that leads to the drive is opened and tried once.
_reconnect_device(x) ==
    LET closed == [x EXCEPT !.fd = 0]
        S == scsipi_ibmtape_get_device_list(x)
        Tried(y) == Go(_raw_tur(_clear_por_raw(y)),
                       LAMBDA z : IF z.rc = "RESERVATION_CONFLICT" THEN RecoverReservation(z) ELSE SamePath(_clear_por_raw(z)))
    IN  IF S = {} THEN Ret(closed, "LTFS_NO_DEVICE")
        ELSE Then(_raw_open(closed, CHOOSE q \in S : \A r \in S : q <= r), Tried)

_process_errors(x, print, dump) ==
    CASE x.rc = "CONNECTION_LOST" /\ ~x.p.recon ->
           [_reconnect_device([x EXCEPT !.p.recon = TRUE]) EXCEPT !.p.recon = FALSE]
      [] print /\ dump /\ x.p.dumps /\ is_dump_required(x) -> _take_dump(x, CaptureUnforced(x))
      [] OTHER -> x

(***************************************************************************)
(* Position and movement.                                                  *)
(***************************************************************************)
scsipi_ibmtape_readpos(x) == Then(Command(x, C("READPOS", 0, 0)), LAMBDA y : [y EXCEPT !.pos = y.ans])

\* The position read into a variable of the caller; the answer is in ans.
ReadPosition(x) == [scsipi_ibmtape_readpos(x) EXCEPT !.pos = x.pos]

ClearForcePerm(x) == [x EXCEPT !.p.bypc = FALSE, !.p.fw = 0, !.p.fr = 0, !.p.wc = 0, !.p.rdc = 0]

scsipi_ibmtape_rewind(x) == Then(Command(x, C("REWIND", 0, 0)), LAMBDA y : scsipi_ibmtape_readpos(ClearForcePerm(y)))

\* The position is read whatever came of the command, and so is its error lost.
ThenReadPosition(x) == Go(scsipi_ibmtape_readpos(x), LAMBDA y : IF Good(x) THEN y ELSE KeepResult(x, y))

scsipi_ibmtape_locate(x, part, block) ==
    Go(scsipi_issue_cdb_command(IF x.pos.part # part /\ x.p.bypc THEN ClearForcePerm(x) ELSE x, C("LOCATE", part, block)),
       LAMBDA y : ThenReadPosition(CASE Good(y) -> y
                                     [] block = BlockMax /\ y.rc = "EOD_DETECTED" -> Ret(y, "ok")
                                     [] OTHER -> _process_errors(y, TRUE, TRUE)))

scsipi_ibmtape_space(x, type, count) == Then(Command(x, C("SPACE", type, count)), scsipi_ibmtape_readpos)

(***************************************************************************)
(* Reading and writing records.                                            *)
(***************************************************************************)
\* The kernel had no memory for a command: find out whether the drive got it,
\* and go back one block when it did.
_handle_block_allocation_failure(x) ==
    LET Landed(y, block) == Ret(y, IF block = y.ans.block THEN "RETRY" ELSE "BAD_LOCATE")
        BackOne(y) == Then(scsipi_ibmtape_space(y, "b", 1), LAMBDA z : Then(ReadPosition(z), LAMBDA w : Landed(w, z.pos.block)))
    IN  Then(ReadPosition(x),
             LAMBDA y : CASE y.ans.part # x.pos.part -> [y EXCEPT !.n = 0]
                          [] y.ans.block = x.pos.block -> Ret(y, "RETRY")
                          [] y.ans.block - 1 = x.pos.block -> BackOne(y)
                          [] OTHER -> Ret(y, "BUFFER_ALLOCATE_ERROR"))

\* A record is longer than the buffer, counting checksums.
Overruns(x, size) ==
    LET stored == IF x.n = Stray THEN 10 * Full + 4 ELSE 10 * x.n
    IN  stored + (IF x.d.lbp THEN 4 ELSE 0) > 10 * size + (IF x.p.crc THEN 4 ELSE 0)

\* When the length error is suppressed (sili) the length asked for is reported
\* whatever the record held.
_cdb_read(x, size, sili) ==
    LET Outcome(y) ==
          CASE y.rc \in {"FILEMARK_DETECTED", "LENGTH_MISMATCH"} -> y
            [] Good(y) -> IF sili /\ y.p.sili THEN [y EXCEPT !.n = size] ELSE y
            [] y.rc = "CLEANING_REQUIRED" -> [y EXCEPT !.rc = "ok", !.n = 0]
            [] y.rc = "KEY_REQUIRED" /\ ~y.p.keyset -> y
            [] OTHER -> _process_errors(y, TRUE, TRUE)
    IN  Go(scsipi_issue_cdb_command(x, C("READ", size, 0)),
           LAMBDA y : Outcome(IF Good(y) /\ Overruns(y, size) THEN Ret(y, "OVERRUN") ELSE y))

\* A checksum is present and right in what was read.
ChecksumGood(x) == x.d.lbp \/ x.n = Stray

\* What scsipi_ibmtape_read does with the outcome of its last _cdb_read.
ReadDone(x) ==
    LET Counted(y) ==
          IF y.p.crc /\ y.n > 0 /\ y.p.fcrc /\ ~ChecksumGood(y) THEN Ret(_take_dump(y, FALSE), "LBP_READ_ERROR") ELSE y
        Marked == IF x.rc = "FILEMARK_DETECTED" THEN [x EXCEPT !.pos.fm = @ + 1, !.rc = "ok", !.n = 0] ELSE x
    IN  Then(Marked, LAMBDA y : Counted([y EXCEPT !.pos.block = @ + 1]))

\* The first block of the tape was read in full although its size may differ:
\* once more, without suppressing the length error.
RereadFirst(x, size) ==
    Then(scsipi_ibmtape_locate(x, x.pos.part, 0), LAMBDA y : ReadDone(_cdb_read([y EXCEPT !.p.sili = FALSE], size, TRUE)))

\* retry is pos_retry, <<0, 0>> when no retry was made.
RECURSIVE ReadFrom(_, _, _, _)
ReadFrom(x, size, unusual, retry) ==
    Go(_cdb_read(x, size, unusual),
       LAMBDA y :
         CASE y.rc = "LENGTH_MISMATCH" ->
                IF retry # <<0, 0>> THEN KeepResult(y, scsipi_ibmtape_readpos(y))
                ELSE Then(scsipi_ibmtape_locate(y, y.pos.part, y.pos.block),
                          LAMBDA z : ReadFrom(z, size, unusual, <<y.pos.part, y.pos.block>>))
           [] Good(y) /\ y.pos.block = 0 /\ unusual /\ y.n = size /\ ~y.d.lbp -> RereadFirst(y, size)
           [] y.rc = "BUFFER_ALLOCATE_ERROR" ->
                Go(_handle_block_allocation_failure(y),
                   LAMBDA z : IF z.rc = "RETRY" THEN ReadFrom(z, size, unusual, retry) ELSE ReadDone(z))
           [] OTHER -> ReadDone(y))

ForcedReadError(x) == x.p.fr > 0 /\ x.p.rdc + 1 > x.p.fr

scsipi_ibmtape_read(x, size, unusual) ==
    LET y == IF x.p.fr > 0 THEN [x EXCEPT !.p.rdc = @ + 1] ELSE x
    IN  IF ForcedReadError(x) THEN Ret(y, IF x.p.etype # 0 THEN "NO_SENSE" ELSE "READ_PERM")
        ELSE ReadFrom(y, size, unusual, <<0, 0>>)

\* Early warnings and a request for cleaning are no errors of a write; the
\* answer is the pair of early warnings.
Warned(x) ==
    CASE x.rc = "EARLY_WARNING" -> Answer(x, <<TRUE, TRUE>>)
      [] x.rc = "PROG_EARLY_WARNING" -> Answer(x, <<FALSE, TRUE>>)
      [] x.rc \in {"ok", "CLEANING_REQUIRED"} -> Answer(x, <<FALSE, FALSE>>)
      [] OTHER -> _process_errors(x, TRUE, TRUE)

Checksum(x) == IF ~x.p.crc THEN "none" ELSE IF x.p.fcrc THEN "crc" ELSE "junk"

_cdb_write(x, size) == Warned(scsipi_issue_cdb_command(x, C("WRITE", size, Checksum(x))))

\* After a failover the position tells whether the command was carried out.
CheckFailover(x, count) ==
    Go(ReadPosition(x),
       LAMBDA y : CASE ~Good(y) -> KeepResult(x, y)
                    [] y.ans.part = x.pos.part /\ y.ans.block = x.pos.block + count ->
                         [y EXCEPT !.pos.block = @ + 1, !.pos.ew = y.ans.ew, !.pos.pew = y.ans.pew]
                    [] OTHER -> Ret(y, "POR_OR_BUS_RESET"))

RECURSIVE WriteFrom(_, _)
WriteFrom(x, size) ==
    Go(_cdb_write(x, size),
       LAMBDA y : CASE Good(y) -> [y EXCEPT !.pos.block = @ + 1, !.pos.ew = y.ans[1], !.pos.pew = y.ans[2]]
                    [] y.rc = "NEED_FAILOVER" -> CheckFailover(y, 1)
                    [] y.rc = "BUFFER_ALLOCATE_ERROR" ->
                         Go(_handle_block_allocation_failure(y),
                            LAMBDA z : IF z.rc = "RETRY" THEN WriteFrom(z, size) ELSE z)
                    [] OTHER -> y)

scsipi_ibmtape_write(x, size) ==
    LET y == IF x.p.fw > 0 THEN [x EXCEPT !.p.wc = @ + 1] ELSE x
    IN  CASE y.p.fw > 0 /\ y.p.wc > y.p.fw -> Ret(y, IF y.p.etype # 0 THEN "NO_SENSE" ELSE "WRITE_PERM")
          [] y.p.fw > 0 /\ y.p.wc > y.p.fw - Threshold -> [y EXCEPT !.pos.block = @ + 1, !.rc = "ok"]
          [] OTHER -> WriteFrom(y, size)

scsipi_ibmtape_writefm(x, count) ==
    Go(Warned(scsipi_issue_cdb_command(x, C("WRITEFM", count, 0))),
       LAMBDA y : CASE Good(y) -> Then(scsipi_ibmtape_readpos(y),
                                       LAMBDA z : [z EXCEPT !.pos.ew = @ \/ y.ans[1], !.pos.pew = @ \/ y.ans[2]])
                    [] y.rc = "NEED_FAILOVER" -> CheckFailover(y, count)
                    [] OTHER -> y)

(***************************************************************************)
(* The remaining commands.                                                 *)
(***************************************************************************)
scsipi_ibmtape_reopen(x) == Ret(x, "ok")
scsipi_ibmtape_close_raw(x) == [x EXCEPT !.fd = 0, !.rc = "ok"]
scsipi_ibmtape_is_connected(x, q) == Ret(x, IF q \in x.paths THEN "ok" ELSE "ENOENT")
scsipi_ibmtape_inquiry_page(x) == Command(x, C("INQUIRY", 0, 0))
scsipi_ibmtape_inquiry(x) == scsipi_ibmtape_inquiry_page(x)

\* No message and no dump for any error.
scsipi_ibmtape_test_unit_ready(x) ==
    Go(scsipi_issue_cdb_command(x, C("TUR", 0, 0)), LAMBDA y : IF Good(y) THEN y ELSE _process_errors(y, FALSE, FALSE))

_cdb_request_sense(x) == Command(x, C("REQUEST_SENSE", 0, 0))

\* A long erase is polled until REQUEST SENSE no longer says it is in progress
\* (at the first poll here); its error is then processed a second time.
scsipi_ibmtape_erase(x, long) ==
    LET Polled(y) == IF long /\ Good(y) THEN _cdb_request_sense(y) ELSE y
    IN  Go(Polled(scsipi_issue_cdb_command(x, C("ERASE", 0, 0))),
           LAMBDA y : IF Good(y) THEN y ELSE _process_errors(y, TRUE, TRUE))

\* A medium change is what a load or an unload is expected to report.
_cdb_load_unload(x, load) ==
    Go(scsipi_issue_cdb_command(x, C(IF load THEN "LOAD" ELSE "UNLOAD", 0, 0)),
       LAMBDA y : IF y.rc \in {"ok", "MEDIUM_MAY_BE_CHANGED"} THEN Ret(y, "ok") ELSE _process_errors(y, TRUE, TRUE))

\* The length of a log page is never 0.
scsipi_ibmtape_logsense(x) == [Command(x, C("LOG_SENSE", 0, 0)) EXCEPT !.n = 1]
scsipi_ibmtape_modesense(x) == [Command(x, C("MODE_SENSE", 0, 0)) EXCEPT !.n = 0]
scsipi_ibmtape_modeselect(x) == Command(x, C("MODE_SELECT", 0, 0))

\* The page tells whether the cartridge is a WORM one; its error is ignored.
scsipi_ibmtape_medium_configuration(x) == Then(scsipi_ibmtape_modesense(x), LAMBDA y : [y EXCEPT !.p.worm = y.ans.flag])

\* An error of the position is not looked at.  A flag in the first page is a
\* cartridge of an unknown type.
scsipi_ibmtape_load(x) ==
    LET Positioned(y) == KeepResult(y, scsipi_ibmtape_readpos(y))
        Loaded(y) == [y EXCEPT !.p.loaded = TRUE, !.p.alert = FALSE]
    IN  Then(Positioned(ClearForcePerm(_cdb_load_unload(x, TRUE))),
             LAMBDA y : Then(scsipi_ibmtape_modesense(Loaded(y)),
                             LAMBDA z : IF z.ans.flag THEN KeepResult(z, scsipi_ibmtape_medium_configuration(z)) ELSE z))

scsipi_ibmtape_unload(x) ==
    Go(ClearForcePerm(_cdb_load_unload(x, FALSE)),
       LAMBDA y : IF ~Good(y) THEN KeepResult(y, scsipi_ibmtape_readpos(y))
                  ELSE [y EXCEPT !.p.loaded = FALSE, !.p.alert = FALSE, !.pos.part = 0, !.pos.block = 0])

\* An enterprise drive is scaled, unless the cartridge is short or WORM.
scsipi_ibmtape_setcap(x) ==
    IF x.p.lto THEN Command(x, C("SETCAP", 0, 0))
    ELSE Then(scsipi_ibmtape_modesense(x), LAMBDA y : IF y.ans.flag THEN y ELSE scsipi_ibmtape_modeselect(y))

\* The kind of the cartridge is read again.
scsipi_ibmtape_format(x) == Go(Command(x, C("FORMAT", 0, 0)), LAMBDA y : KeepResult(y, scsipi_ibmtape_modesense(y)))

\* A parameter of a log page; the answer of the page stays in ans.
_parse_logPage(x) == IF x.ans.found THEN Ret(x, "ok") ELSE Ret(x, "INTERNAL_ERROR")

\* Capacity left in the data partition of the model's cartridge.
Remaining == 3

scsipi_ibmtape_remaining_capacity(x) ==
    LET offset == IF Remaining < x.p.off THEN Remaining ELSE x.p.off
    IN  Then(scsipi_ibmtape_logsense(x), LAMBDA y : Then(_parse_logPage(y), LAMBDA z : Answer(z, Remaining - offset)))

_cdb_prevent_allow_medium_removal(x, prevent) ==
    Then(Command(x, C("PREVENT", prevent, 0)), LAMBDA y : [y EXCEPT !.p.locked = prevent])

scsipi_ibmtape_prevent_medium_removal(x) == _cdb_prevent_allow_medium_removal(x, TRUE)
scsipi_ibmtape_allow_medium_removal(x) == _cdb_prevent_allow_medium_removal(x, FALSE)

scsipi_ibmtape_write_attribute(x, v) == Command(x, C("WRITE_ATTRIBUTE", v, 0))

scsipi_ibmtape_read_attribute(x) ==
    Go(scsipi_issue_cdb_command(x, C("READ_ATTRIBUTE", 0, 0)),
       LAMBDA y : IF Good(y) THEN y ELSE _process_errors(y, TRUE, y.rc # "INVALID_FIELD_CDB"))

scsipi_ibmtape_allow_overwrite(x, block) ==
    Go(scsipi_issue_cdb_command(x, C("ALLOW_OVERWRITE", block, 0)),
       LAMBDA y : CASE Good(y) -> y
                    [] block = BlockMax /\ y.rc = "EOD_DETECTED" -> Ret(y, "ok")
                    [] OTHER -> _process_errors(y, TRUE, TRUE))

scsipi_ibmtape_set_compression(x) == Then(scsipi_ibmtape_modesense(x), scsipi_ibmtape_modeselect)

\* The enterprise drive is asked for the method first.
_set_lbp(x, enable) ==
    Then(IF x.p.lto THEN Ret(x, "ok") ELSE scsipi_ibmtape_modesense(x),
         LAMBDA y : Then(scsipi_ibmtape_modesense(y),
                         LAMBDA z : Then(Command(z, C("SET_LBP", enable, 0)),
                                         LAMBDA w : [w EXCEPT !.p.fcrc = enable])))

\* Reading across the end of data is switched off on an enterprise drive.
scsipi_ibmtape_set_default(x) ==
    LET y == [x EXCEPT !.p.sili = TRUE, !.rc = "ok"]
    IN  Then(IF x.p.lto THEN y ELSE Then(scsipi_ibmtape_modesense(y), scsipi_ibmtape_modeselect),
             LAMBDA z : _set_lbp(z, x.p.crc))

\* Two log pages whose errors are only logged.
scsipi_ibmtape_get_cartridge_health(x) == Ret(scsipi_ibmtape_logsense(scsipi_ibmtape_logsense(x)), "ok")

scsipi_ibmtape_get_tape_alert(x) ==
    LET Latch(y) == [y EXCEPT !.p.alert = @ \/ (Good(y) /\ y.ans.flag)]
    IN  Go(Latch(scsipi_ibmtape_logsense(x)), LAMBDA y : [y EXCEPT !.ans = y.p.alert])

scsipi_ibmtape_clear_tape_alert(x) == [x EXCEPT !.p.alert = FALSE, !.rc = "ok"]

\* The performance value is fetched once; an error has it fetched again.
scsipi_ibmtape_get_xattr(x) ==
    LET Found(y) == IF y.ans.found THEN y ELSE Ret(y, "NO_XATTR")
    IN  IF x.p.acq THEN Ret(x, "ok")
        ELSE Go(Then(scsipi_ibmtape_logsense(x), Found), LAMBDA y : [y EXCEPT !.p.acq = Good(y)])

\* v < 0 asks for the error to be cleared by a change of partition.
Magnitude(v) == IF v < 0 THEN -v ELSE v
scsipi_ibmtape_set_xattr(x, name, v) ==
    LET Floor == IF Magnitude(v) = 0 \/ Magnitude(v) >= Threshold THEN Magnitude(v) ELSE Threshold
        y == Ret(x, "ok")
    IN  CASE name = "forceErrorWrite" -> [y EXCEPT !.p.fw = Floor, !.p.bypc = v < 0, !.p.wc = 0]
          [] name = "forceErrorRead" -> [y EXCEPT !.p.fr = Magnitude(v), !.p.bypc = v < 0, !.p.rdc = 0]
          [] name = "forceErrorType" -> [y EXCEPT !.p.etype = v]
          [] name = "capOffset" -> [y EXCEPT !.p.off = v]
          [] OTHER -> Ret(x, "NO_XATTR")

_cdb_read_block_limits(x) == Command(x, C("BLOCK_LIMITS", 0, 0))

\* Write protection comes from a mode page; the block limits' error is lost.
scsipi_ibmtape_get_parameters(x) ==
    Then(IF x.p.loaded THEN scsipi_ibmtape_modesense(x) ELSE Ret(x, "ok"), LAMBDA y : Ret(_cdb_read_block_limits(y), "ok"))

scsipi_ibmtape_get_eod_status(x) ==
    Go(scsipi_ibmtape_logsense(x),
       LAMBDA y : Answer(y, CASE ~Good(y) -> "EOD_UNKNOWN"
                              [] ~y.ans.found -> "EOD_UNKNOWN"
                              [] y.ans.flag -> "EOD_MISSING"
                              [] OTHER -> "EOD_GOOD"))

scsipi_ibmtape_parse_opts(x, crc) == [x EXCEPT !.p.crc = crc, !.rc = "ok"]

_cdb_spin(x) == Command(x, C("SPIN", 0, 0))
_cdb_spout(x, set) == Command(x, C("SPOUT", set, 0))

\* Application managed encryption, a flag of the page.
is_ame(x) == Go(scsipi_ibmtape_modesense(x), LAMBDA y : [y EXCEPT !.ans = Good(y) /\ y.ans.flag])

is_encryption_capable(x) ==
    IF x.p.lto THEN Ret(x, "INTERNAL_ERROR")
    ELSE Go(is_ame(x), LAMBDA y : Ret(y, IF y.ans THEN "ok" ELSE "INTERNAL_ERROR"))

scsipi_ibmtape_set_key(x, set) ==
    LET Stored(y) == scsipi_ibmtape_modesense([y EXCEPT !.p.keyset = set])
        Sensed(y) == IF y.n # 0 THEN y ELSE Then(_cdb_spout(y, set), Stored)
    IN  Then(is_encryption_capable(x), LAMBDA y : Then(scsipi_ibmtape_modesense(y), Sensed))

scsipi_ibmtape_get_keyalias(x) == Then(is_encryption_capable(x), LAMBDA y : Then(_cdb_spin(y), _cdb_spin))

scsipi_ibmtape_takedump_drive(x, unforced) == Ret(_take_dump(x, unforced), "ok")

\* What the cartridge and the drive allow is a table of ibm_tape.c.
scsipi_ibmtape_is_mountable(x) == Answer(x, "MEDIUM_WRITABLE")
scsipi_ibmtape_is_readonly(x) == Answer(x, FALSE)
scsipi_ibmtape_get_worm_status(x) == Answer(x, FALSE)
scsipi_ibmtape_get_serialnumber(x) == Ret(x, "ok")
scsipi_ibmtape_get_info(x) == Answer(x, x.p.at)
scsipi_ibmtape_set_profiler(x) == Ret(x, "ok")

scsipi_ibmtape_get_next_block_to_xfer(x) ==
    Then(Command(x, C("READPOS", 0, 0)), LAMBDA y : [y EXCEPT !.pos.part = y.ans.part, !.pos.block = y.ans.block])

\* Recommended access order is not supported.
scsipi_ibmtape_grao(x) == Ret(x, "UNSUPPORTED_COMMAND")
scsipi_ibmtape_rrao(x) == Ret(x, "UNSUPPORTED_COMMAND")

(***************************************************************************)
(* Open and close.                                                         *)
(***************************************************************************)
\* The unit attentions and the key: none of their results fails the open.
scsipi_ibmtape_open(x, name) ==
    Then(_raw_open(x, name),
         LAMBDA y : [_register_key(_clear_por_raw(y), TRUE)
                     EXCEPT !.p.bypc = FALSE, !.p.fw = 0, !.p.fr = 0, !.p.etype = 0, !.rc = "ok"])

\* The result is an error whatever happens.
scsipi_ibmtape_close(x) ==
    LET Closed(y) == [y EXCEPT !.fd = 0]
    IN  [Closed(_register_key(_set_lbp(x, FALSE), FALSE)) EXCEPT !.p = [ScsipiPriv(x.p) EXCEPT !.off = x.p.off], !.rc = "UNKNOWN"]

\* The operation table: op is the entry, a its argument.
scsipi_ibmtape_handler(x, op, a) ==
    CASE op = "open" -> scsipi_ibmtape_open(x, a)
      [] op = "reopen" -> scsipi_ibmtape_reopen(x)
      [] op = "close" -> scsipi_ibmtape_close(x)
      [] op = "close_raw" -> scsipi_ibmtape_close_raw(x)
      [] op = "is_connected" -> scsipi_ibmtape_is_connected(x, a)
      [] op = "inquiry" -> scsipi_ibmtape_inquiry(x)
      [] op = "inquiry_page" -> scsipi_ibmtape_inquiry_page(x)
      [] op = "test_unit_ready" -> scsipi_ibmtape_test_unit_ready(x)
      [] op = "read" -> scsipi_ibmtape_read(x, Full, a)
      [] op = "write" -> scsipi_ibmtape_write(x, a)
      [] op = "writefm" -> scsipi_ibmtape_writefm(x, a)
      [] op = "rewind" -> scsipi_ibmtape_rewind(x)
      [] op = "locate" -> scsipi_ibmtape_locate(x, a[1], a[2])
      [] op = "space" -> scsipi_ibmtape_space(x, a[1], a[2])
      [] op = "erase" -> scsipi_ibmtape_erase(x, a)
      [] op = "load" -> scsipi_ibmtape_load(x)
      [] op = "unload" -> scsipi_ibmtape_unload(x)
      [] op = "readpos" -> scsipi_ibmtape_readpos(x)
      [] op = "setcap" -> scsipi_ibmtape_setcap(x)
      [] op = "format" -> scsipi_ibmtape_format(x)
      [] op = "remaining_capacity" -> scsipi_ibmtape_remaining_capacity(x)
      [] op = "logsense" -> scsipi_ibmtape_logsense(x)
      [] op = "modesense" -> scsipi_ibmtape_modesense(x)
      [] op = "modeselect" -> scsipi_ibmtape_modeselect(x)
      [] op = "reserve_unit" -> scsipi_ibmtape_reserve(x)
      [] op = "release_unit" -> scsipi_ibmtape_release(x)
      [] op = "prevent_medium_removal" -> scsipi_ibmtape_prevent_medium_removal(x)
      [] op = "allow_medium_removal" -> scsipi_ibmtape_allow_medium_removal(x)
      [] op = "write_attribute" -> scsipi_ibmtape_write_attribute(x, a)
      [] op = "read_attribute" -> scsipi_ibmtape_read_attribute(x)
      [] op = "allow_overwrite" -> scsipi_ibmtape_allow_overwrite(x, a)
      [] op = "grao" -> scsipi_ibmtape_grao(x)
      [] op = "rrao" -> scsipi_ibmtape_rrao(x)
      [] op = "set_compression" -> scsipi_ibmtape_set_compression(x)
      [] op = "set_default" -> scsipi_ibmtape_set_default(x)
      [] op = "get_cartridge_health" -> scsipi_ibmtape_get_cartridge_health(x)
      [] op = "get_tape_alert" -> scsipi_ibmtape_get_tape_alert(x)
      [] op = "clear_tape_alert" -> scsipi_ibmtape_clear_tape_alert(x)
      [] op = "get_xattr" -> scsipi_ibmtape_get_xattr(x)
      [] op = "set_xattr" -> scsipi_ibmtape_set_xattr(x, a[1], a[2])
      [] op = "get_parameters" -> scsipi_ibmtape_get_parameters(x)
      [] op = "get_eod_status" -> scsipi_ibmtape_get_eod_status(x)
      [] op = "parse_opts" -> scsipi_ibmtape_parse_opts(x, a)
      [] op = "set_key" -> scsipi_ibmtape_set_key(x, a)
      [] op = "get_keyalias" -> scsipi_ibmtape_get_keyalias(x)
      [] op = "takedump_drive" -> scsipi_ibmtape_takedump_drive(x, a)
      [] op = "is_mountable" -> scsipi_ibmtape_is_mountable(x)
      [] op = "get_worm_status" -> scsipi_ibmtape_get_worm_status(x)
      [] op = "get_serialnumber" -> scsipi_ibmtape_get_serialnumber(x)
      [] op = "get_info" -> scsipi_ibmtape_get_info(x)
      [] op = "set_profiler" -> scsipi_ibmtape_set_profiler(x)
      [] op = "get_next_block_to_xfer" -> scsipi_ibmtape_get_next_block_to_xfer(x)
      [] op = "is_readonly" -> scsipi_ibmtape_is_readonly(x)
=============================================================================
