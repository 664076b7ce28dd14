------------------------------ MODULE IokitTape ------------------------------
(***************************************************************************)
(* The macOS driver, src/tape_drivers/osx/iokit, in the form of SgTape     *)
(* (see there for the private data).  It never reconnects: any failure of  *)
(* the kernel to carry a task out is an internal error, and an error is    *)
(* only answered by a dump.                                                *)
(***************************************************************************)
EXTENDS ScsiDrive

\* THRESHOLD_FORCE_WRITE_NO_WRITE, 20 in the code.
Threshold == 2

IokitPriv(opt) ==
    [crc |-> opt.crc, dumps |-> opt.dumps, ibm |-> opt.ibm, lto |-> opt.lto, at |-> 1, loaded |-> FALSE, worm |-> FALSE, sili |-> FALSE, keyset |-> FALSE,
     fcrc |-> FALSE, fw |-> 0, fr |-> 0, wc |-> 0, rdc |-> 0, etype |-> 0, bypc |-> FALSE, alert |-> FALSE,
     acq |-> FALSE]

(***************************************************************************)
(* Commands and their errors.                                              *)
(***************************************************************************)
iokit_issue_cdb_command(x, c) ==
    IF x.fd = 0 THEN Ret(x, "LTFS_NULL_ARG")
    ELSE Go(Transport(x, c),
            LAMBDA y : CASE y.rc \in {"ENODEV", "ENOMEM"} -> Ret(y, "INTERNAL_ERROR")
                         [] y.rc = "SOFT_ERROR" -> Ret(y, "DRIVER_ERROR")
                         [] OTHER -> y)

\* The error stays what it is.
RECURSIVE _process_errors(_, _)

\* Every command is issued this way unless its function treats an error first.
Command(x, c) ==
    Go(iokit_issue_cdb_command(x, c), LAMBDA y : IF Good(y) THEN y ELSE _process_errors(y, TRUE))

_cdb_read_buffer(x) == Command(x, C("READ_BUFFER", 0, 0))
_cdb_force_dump(x) == Command(x, C("FORCE_DUMP", 0, 0))

is_dump_required(x) == x.rc \in SenseErrors
CaptureUnforced(x) == x.rc \in MediumOrHardware

\* The capacity of the buffer, then its data (a single transfer).
_get_dump(x) == _cdb_read_buffer(_cdb_read_buffer(x))

_take_dump(x, unforced) ==
    LET Force(z) == KeepResult(x, _get_dump(_cdb_force_dump(z)))
    IN  IF ~x.p.ibm THEN x ELSE Force(IF unforced THEN _get_dump(x) ELSE x)

_process_errors(x, dump) == IF dump /\ x.p.dumps /\ is_dump_required(x) THEN _take_dump(x, CaptureUnforced(x)) ELSE x

(***************************************************************************)
(* Finding a device, reservations.                                         *)
(***************************************************************************)
\* A device by its number, for this process alone.
iokit_find_ssc_device(x, q) ==
    IF q \in x.paths THEN [x EXCEPT !.fd = q, !.rc = "ok"] ELSE [x EXCEPT !.fd = 0, !.rc = "DEVICE_UNOPENABLE"]

iokit_obtain_exclusive_access(x) == Ret(x, "ok")
iokit_release_exclusive_access(x) == Ret(x, "ok")
iokit_free_device(x) == [x EXCEPT !.fd = 0, !.rc = "ok"]

iokit_get_drive_identifier(x) ==
    Then(iokit_issue_cdb_command(x, C("INQUIRY", 0, 0)), LAMBDA y : iokit_issue_cdb_command(y, C("INQUIRY", 128, 0)))

iokit_get_device_list(x) == x.paths

_cdb_pri(x) == Command(x, C("PRI", 0, 0))

\* The answer is the nexus that holds the reservation; no holder is an error.
_fetch_reservation_key(x) ==
    Go(_cdb_pri(x), LAMBDA y : IF ~Good(y) \/ y.ans = 0 THEN Ret(y, "INTERNAL_ERROR") ELSE y)

\* A conflict of a reserve is looked into and otherwise left to the caller.
_cdb_pro(x, action, key) ==
    Go(iokit_issue_cdb_command(x, C("PRO", action, key)),
       LAMBDA y : CASE Good(y) -> y
                    [] y.rc = "RESERVATION_CONFLICT" /\ action = "reserve" -> KeepResult(y, _fetch_reservation_key(y))
                    [] OTHER -> _process_errors(y, TRUE))

RECURSIVE _register_key(_, _)
_register_key(x, key) ==
    Go(_cdb_pro(x, "register", key),
       LAMBDA y : IF y.rc \in {"RESERVATION_PREEMPTED", "RESERVATION_RELEASED", "REGISTRATION_PREEMPTED"}
                  THEN _register_key(y, key) ELSE y)

\* The reserve is repeated once, with the key registered again.
RECURSIVE ReserveTimes(_, _)
ReserveTimes(x, count) ==
    Go(_cdb_pro(x, "reserve", TRUE),
       LAMBDA y : IF count = 0 /\ y.rc \in {"RESERVATION_PREEMPTED", "REGISTRATION_PREEMPTED", "RESERVATION_CONFLICT"}
                  THEN ReserveTimes(_register_key(y, TRUE), 1) ELSE y)

iokit_reserve(x) == ReserveTimes(x, 0)
iokit_release(x) == _cdb_pro(x, "release", TRUE)

(***************************************************************************)
(* Position and movement.                                                  *)
(***************************************************************************)
iokit_readpos(x) == Then(Command(x, C("READPOS", 0, 0)), LAMBDA y : [y EXCEPT !.pos = y.ans])

\* The position read into a variable of the caller; the answer is in ans.
ReadPosition(x) == [iokit_readpos(x) EXCEPT !.pos = x.pos]

ClearForcePerm(x) == [x EXCEPT !.p.bypc = FALSE, !.p.fw = 0, !.p.fr = 0, !.p.wc = 0, !.p.rdc = 0]

iokit_rewind(x) == Then(Command(x, C("REWIND", 0, 0)), LAMBDA y : iokit_readpos(ClearForcePerm(y)))

\* The position is read whatever came of the command, and so is its error lost.
ThenReadPosition(x) == Go(iokit_readpos(x), LAMBDA y : IF Good(x) THEN y ELSE KeepResult(x, y))

iokit_locate(x, part, block) ==
    Go(iokit_issue_cdb_command(IF x.pos.part # part /\ x.p.bypc THEN ClearForcePerm(x) ELSE x, C("LOCATE", part, block)),
       LAMBDA y : ThenReadPosition(CASE Good(y) -> y
                                     [] block = BlockMax /\ y.rc = "EOD_DETECTED" -> Ret(y, "ok")
                                     [] OTHER -> _process_errors(y, TRUE)))

iokit_space(x, type, count) == Then(Command(x, C("SPACE", type, count)), iokit_readpos)

(***************************************************************************)
(* Reading and writing records.                                            *)
(***************************************************************************)
\* A record is longer than the buffer, counting checksums.
Overruns(x, size) ==
    LET stored == IF x.n = Stray THEN 10 * Full + 4 ELSE 10 * x.n
    IN  stored + (IF x.d.lbp THEN 4 ELSE 0) > 10 * size + (IF x.p.crc THEN 4 ELSE 0)

_cdb_read(x, size) ==
    LET Outcome(y) ==
          CASE y.rc \in {"ok", "FILEMARK_DETECTED", "LENGTH_MISMATCH"} -> y
            [] y.rc = "CLEANING_REQUIRED" -> [y EXCEPT !.rc = "ok", !.n = 0]
            [] y.rc = "KEY_REQUIRED" /\ ~y.p.keyset -> y
            [] OTHER -> _process_errors(y, TRUE)
    IN  Go(iokit_issue_cdb_command(x, C("READ", size, 0)),
           LAMBDA y : Outcome(IF Good(y) /\ Overruns(y, size) THEN Ret(y, "OVERRUN") ELSE y))

\* A checksum is present and right in what was read.
ChecksumGood(x) == x.d.lbp \/ x.n = Stray

\* What iokit_read does with the outcome of its last _cdb_read.
ReadDone(x) ==
    LET Counted(y) ==
          IF y.p.crc /\ y.n > 0 /\ y.p.fcrc /\ ~ChecksumGood(y) THEN Ret(_take_dump(y, FALSE), "LBP_READ_ERROR") ELSE y
        Marked == IF x.rc = "FILEMARK_DETECTED" THEN [x EXCEPT !.pos.fm = @ + 1, !.rc = "ok", !.n = 0] ELSE x
    IN  Then(Marked, LAMBDA y : Counted([y EXCEPT !.pos.block = @ + 1]))

\* The first block of the tape was read in full although its size may differ,
\* or is a filemark:
\* once more, without suppressing the length error.
RereadFirst(x, size) ==
    Then(iokit_locate(x, x.pos.part, 0), LAMBDA y : ReadDone(_cdb_read([y EXCEPT !.p.sili = FALSE], size)))

\* retry is pos_retry, <<0, 0>> when no retry was made.
RECURSIVE ReadFrom(_, _, _, _)
ReadFrom(x, size, unusual, retry) ==
    Go(_cdb_read(x, size),
       LAMBDA y :
         CASE y.rc = "LENGTH_MISMATCH" ->
                IF retry # <<0, 0>> THEN KeepResult(y, iokit_readpos(y))
                ELSE Then(iokit_locate(y, y.pos.part, y.pos.block),
                          LAMBDA z : ReadFrom(z, size, unusual, <<y.pos.part, y.pos.block>>))
           [] y.pos.block = 0 /\ unusual /\ (y.rc = "FILEMARK_DETECTED" \/ (Good(y) /\ y.n = size /\ ~y.d.lbp)) ->
                RereadFirst(y, size)
           [] OTHER -> ReadDone(y))

ForcedReadError(x) == x.p.fr > 0 /\ x.p.rdc + 1 > x.p.fr

iokit_read(x, size, unusual) ==
    LET y == IF x.p.fr > 0 THEN [x EXCEPT !.p.rdc = @ + 1] ELSE x
    IN  IF ForcedReadError(x) THEN Ret(y, IF x.p.etype # 0 THEN "NO_SENSE" ELSE "READ_PERM")
        ELSE ReadFrom(y, size, unusual, <<0, 0>>)

\* Early warnings and a request for cleaning are no errors of a write; the
\* answer is the pair of early warnings.
Warned(x) ==
    CASE x.rc = "EARLY_WARNING" -> Answer(x, <<TRUE, TRUE>>)
      [] x.rc = "PROG_EARLY_WARNING" -> Answer(x, <<FALSE, TRUE>>)
      [] x.rc \in {"ok", "CLEANING_REQUIRED"} -> Answer(x, <<FALSE, FALSE>>)
      [] OTHER -> _process_errors(x, TRUE)

Checksum(x) == IF ~x.p.crc THEN "none" ELSE IF x.p.fcrc THEN "crc" ELSE "junk"

_cdb_write(x, size) == Warned(iokit_issue_cdb_command(x, C("WRITE", size, Checksum(x))))

iokit_write(x, size) ==
    LET y == IF x.p.fw > 0 THEN [x EXCEPT !.p.wc = @ + 1] ELSE x
    IN  CASE y.p.fw > 0 /\ y.p.wc > y.p.fw -> Ret(y, IF y.p.etype # 0 THEN "NO_SENSE" ELSE "WRITE_PERM")
          [] y.p.fw > 0 /\ y.p.wc > y.p.fw - Threshold -> [y EXCEPT !.pos.block = @ + 1, !.rc = "ok"]
          [] OTHER -> Then(_cdb_write(y, size),
                           LAMBDA z : [z EXCEPT !.pos.block = @ + 1, !.pos.ew = z.ans[1], !.pos.pew = z.ans[2]])

iokit_writefm(x, count) ==
    Then(Warned(iokit_issue_cdb_command(x, C("WRITEFM", count, 0))),
         LAMBDA y : Then(iokit_readpos(y), LAMBDA z : [z EXCEPT !.pos.ew = @ \/ y.ans[1], !.pos.pew = @ \/ y.ans[2]]))

(***************************************************************************)
(* The remaining commands.                                                 *)
(***************************************************************************)
iokit_reopen(x) ==
    Then(iokit_find_ssc_device(x, x.p.at), LAMBDA y : Then(iokit_obtain_exclusive_access(y), iokit_get_drive_identifier))
iokit_close_raw(x) == Ret(x, "ok")
iokit_is_connected(x, q) == Ret(x, "ok")
iokit_inquiry_page(x) == Command(x, C("INQUIRY", 0, 0))
iokit_inquiry(x) == iokit_inquiry_page(x)

\* No message and no dump for any error.
iokit_test_unit_ready(x) ==
    iokit_issue_cdb_command(x, C("TUR", 0, 0))

_cdb_request_sense(x) == Command(x, C("REQUEST_SENSE", 0, 0))

\* A long erase is polled until REQUEST SENSE no longer says it is in progress
\* (at the first poll here); its error is then processed a second time.
iokit_erase(x, long) ==
    LET Polled(y) == IF long /\ Good(y) THEN _cdb_request_sense(y) ELSE y
    IN  Go(Polled(iokit_issue_cdb_command(x, C("ERASE", 0, 0))),
           LAMBDA y : IF Good(y) THEN y ELSE _process_errors(y, TRUE))

\* The forced errors are cleared whatever the result.
_cdb_load_unload(x, load) ==
    Go(ClearForcePerm(iokit_issue_cdb_command(x, C(IF load THEN "LOAD" ELSE "UNLOAD", 0, 0))),
       LAMBDA y : IF Good(y) THEN y ELSE _process_errors(y, TRUE))

\* Both return a length, which is never 0.
iokit_logsense(x) == [Command(x, C("LOG_SENSE", 0, 0)) EXCEPT !.n = 1]
iokit_modesense(x) == [Command(x, C("MODE_SENSE", 0, 0)) EXCEPT !.n = 1]
iokit_modeselect(x) == Command(x, C("MODE_SELECT", 0, 0))

\* An error of the position is not looked at.
iokit_load(x) ==
    LET Positioned(y) == KeepResult(y, iokit_readpos(y))
        Loaded(y) == [y EXCEPT !.p.loaded = TRUE, !.p.alert = FALSE]
    IN  Then(Positioned(ClearForcePerm(_cdb_load_unload(x, TRUE))),
             LAMBDA y : Then(iokit_modesense(Loaded(y)), LAMBDA z : [z EXCEPT !.p.worm = @ \/ z.ans.flag]))

iokit_unload(x) ==
    Then(_cdb_load_unload(x, FALSE),
         LAMBDA y : [y EXCEPT !.p.loaded = FALSE, !.p.alert = FALSE, !.pos.part = 0, !.pos.block = 0])

\* An enterprise drive is scaled, unless the cartridge is short or WORM.
iokit_setcap(x) ==
    IF x.p.lto THEN Command(x, C("SETCAP", 0, 0))
    ELSE Then(iokit_modesense(x), LAMBDA y : IF y.ans.flag THEN y ELSE iokit_modeselect(y))

\* The kind of the cartridge is read again.
iokit_format(x) == Go(Command(x, C("FORMAT", 0, 0)), LAMBDA y : KeepResult(y, iokit_modesense(y)))

\* A parameter of a log page; the answer of the page stays in ans.
_parse_logPage(x) == IF x.ans.found THEN Ret(x, "ok") ELSE Ret(x, "INTERNAL_ERROR")

\* Capacity left in the data partition of the model's cartridge.
Remaining == 3

iokit_remaining_capacity(x) ==
    Then(iokit_logsense(x), LAMBDA y : Then(_parse_logPage(y), LAMBDA z : Answer(z, Remaining)))

_cdb_prevent_allow_medium_removal(x, prevent) ==
    Command(x, C("PREVENT", prevent, 0))

iokit_prevent_medium_removal(x) == _cdb_prevent_allow_medium_removal(x, TRUE)
iokit_allow_medium_removal(x) == _cdb_prevent_allow_medium_removal(x, FALSE)

iokit_write_attribute(x, v) == Command(x, C("WRITE_ATTRIBUTE", v, 0))

iokit_read_attribute(x) ==
    Go(iokit_issue_cdb_command(x, C("READ_ATTRIBUTE", 0, 0)),
       LAMBDA y : IF Good(y) THEN y ELSE _process_errors(y, y.rc # "INVALID_FIELD_CDB"))

iokit_allow_overwrite(x, block) ==
    Go(iokit_issue_cdb_command(x, C("ALLOW_OVERWRITE", block, 0)),
       LAMBDA y : CASE Good(y) -> y
                    [] block = BlockMax /\ y.rc = "EOD_DETECTED" -> Ret(y, "ok")
                    [] OTHER -> _process_errors(y, TRUE))

iokit_set_compression(x) == Then(iokit_modesense(x), iokit_modeselect)

\* The enterprise drive is asked for the method first.
_set_lbp(x, enable) ==
    Then(IF x.p.lto THEN Ret(x, "ok") ELSE iokit_modesense(x),
         LAMBDA y : Then(iokit_modesense(y),
                         LAMBDA z : Then(Command(z, C("SET_LBP", enable, 0)),
                                         LAMBDA w : [w EXCEPT !.p.fcrc = enable])))

\* Reading across the end of data is switched off on an enterprise drive.
iokit_set_default(x) ==
    LET y == [x EXCEPT !.p.sili = TRUE, !.rc = "ok"]
    IN  Then(IF x.p.lto THEN y ELSE Then(iokit_modesense(y), iokit_modeselect),
             LAMBDA z : IF x.p.ibm THEN _set_lbp(z, x.p.crc) ELSE z)

\* Two log pages whose errors are only logged.
iokit_get_cartridge_health(x) == Ret(iokit_logsense(iokit_logsense(x)), "ok")

iokit_get_tape_alert(x) ==
    LET Latch(y) == [y EXCEPT !.p.alert = @ \/ (Good(y) /\ y.ans.flag)]
    IN  Go(Latch(iokit_logsense(x)), LAMBDA y : [y EXCEPT !.ans = y.p.alert])

iokit_clear_tape_alert(x) == [x EXCEPT !.p.alert = FALSE, !.rc = "ok"]

\* The performance value is fetched once; an error has it fetched again.
iokit_get_xattr(x) ==
    LET Found(y) == IF y.ans.found THEN y ELSE Ret(y, "NO_XATTR")
    IN  IF x.p.acq THEN Ret(x, "ok")
        ELSE Go(Then(iokit_logsense(x), Found), LAMBDA y : [y EXCEPT !.p.acq = Good(y)])

\* A count beyond every counter: what strtoull makes of a negative number.
Never == 1000

\* v < 0 asks for a write error to be cleared by a change of partition; it is
\* only forced that way.  The result is an error whatever happens.
iokit_set_xattr(x, name, v) ==
    LET Floor(n) == IF n = 0 \/ n >= Threshold THEN n ELSE Threshold
        y == Ret(x, "NO_XATTR")
    IN  CASE name = "forceErrorWrite" ->
               [y EXCEPT !.p.fw = Floor(IF v < 0 THEN -v ELSE @), !.p.bypc = @ \/ v < 0]
          [] name = "forceErrorRead" -> [y EXCEPT !.p.fr = IF v < 0 THEN Never ELSE v, !.p.rdc = 0]
          [] name = "forceErrorType" -> [y EXCEPT !.p.etype = v]
          [] OTHER -> y

_cdb_read_block_limits(x) == Command(x, C("BLOCK_LIMITS", 0, 0))

\* Write protection comes from a mode page; the block limits' error is lost.
iokit_get_parameters(x) ==
    Then(IF x.p.loaded THEN iokit_modesense(x) ELSE Ret(x, "ok"), LAMBDA y : Ret(_cdb_read_block_limits(y), "ok"))

iokit_get_eod_status(x) ==
    Go(iokit_logsense(x),
       LAMBDA y : Answer(y, CASE ~Good(y) -> "EOD_UNKNOWN"
                              [] ~y.ans.found -> "EOD_UNKNOWN"
                              [] y.ans.flag -> "EOD_MISSING"
                              [] OTHER -> "EOD_GOOD"))

iokit_parse_opts(x, crc) == [x EXCEPT !.p.crc = crc, !.rc = "ok"]

_cdb_spin(x) == Command(x, C("SPIN", 0, 0))
_cdb_spout(x, set) == Command(x, C("SPOUT", set, 0))

\* Application managed encryption: the answer; a mode sense that returns a
\* length is taken for a failure.
is_ame(x) == Go(iokit_modesense(x), LAMBDA y : [y EXCEPT !.ans = Good(y) /\ y.n = 0])

is_encryption_capable(x) ==
    IF x.p.lto THEN Ret(x, "INTERNAL_ERROR")
    ELSE Go(is_ame(x), LAMBDA y : Ret(y, IF y.ans THEN "ok" ELSE "INTERNAL_ERROR"))

iokit_set_key(x, set) ==
    LET Stored(y) == iokit_modesense([y EXCEPT !.p.keyset = set])
        Sensed(y) == IF y.n # 0 THEN y ELSE Then(_cdb_spout(y, set), Stored)
    IN  Then(is_encryption_capable(x), LAMBDA y : Then(iokit_modesense(y), Sensed))

iokit_get_keyalias(x) == Then(is_encryption_capable(x), LAMBDA y : Then(_cdb_spin(y), _cdb_spin))

iokit_takedump_drive(x, unforced) == Ret(_take_dump(x, unforced), "ok")

\* What the cartridge and the drive allow is a table of ibm_tape.c.
iokit_is_mountable(x) == Answer(x, "MEDIUM_WRITABLE")
iokit_is_readonly(x) == Answer(x, FALSE)
iokit_get_worm_status(x) == IF x.p.loaded THEN Answer(x, x.p.worm) ELSE [x EXCEPT !.rc = "UNKNOWN", !.ans = FALSE]
iokit_get_serialnumber(x) == Ret(x, "ok")
iokit_get_info(x) == Answer(x, x.p.at)
iokit_set_profiler(x) == Ret(x, "ok")

iokit_get_next_block_to_xfer(x) ==
    Then(Command(x, C("READPOS", 0, 0)), LAMBDA y : [y EXCEPT !.pos.part = y.ans.part, !.pos.block = y.ans.block])

\* Recommended access order is not supported.
iokit_grao(x) == Ret(x, "UNSUPPORTED_COMMAND")
iokit_rrao(x) == Ret(x, "UNSUPPORTED_COMMAND")

(***************************************************************************)
(* Open and close.                                                         *)
(***************************************************************************)
_cdb_rsoc(x) == Command(x, C("RSOC", 0, 0))

\* The first device with the serial number.
RECURSIVE FindSerial(_, _)
FindSerial(x, S) ==
    IF S = {} THEN Ret(x, "DEVICE_UNOPENABLE")
    ELSE LET q == CHOOSE r \in S : \A t \in S : r <= t
         IN  Go(Then(iokit_find_ssc_device(x, q), iokit_get_drive_identifier),
                LAMBDA y : IF Good(y) THEN [y EXCEPT !.p.at = q] ELSE FindSerial(iokit_free_device(y), S \ {q}))

\* name is a number, or 0 for a serial number.  The unit attentions are not
\* cleared, and nothing after the identification fails the open.
iokit_open(x, name) ==
    LET Found == IF name = 0 THEN FindSerial(x, iokit_get_device_list(x))
                 ELSE [iokit_find_ssc_device(x, name) EXCEPT !.p.at = name]
        Finish(y) == [_register_key(_cdb_rsoc(y), TRUE)
                      EXCEPT !.p.bypc = FALSE, !.p.fw = 0, !.p.fr = 0, !.p.etype = 0, !.rc = "ok"]
        Identified(y) == IF Good(y) THEN Finish(y) ELSE [y EXCEPT !.fd = 0]
    IN  Then(Found, LAMBDA y : Then(iokit_obtain_exclusive_access(y), LAMBDA z : Identified(iokit_get_drive_identifier(z))))

iokit_close(x) ==
    [iokit_free_device(iokit_release_exclusive_access(_register_key(_set_lbp(x, FALSE), FALSE))) EXCEPT !.p = IokitPriv(x.p)]

\* The operation table: op is the entry, a its argument.
iokit_handler(x, op, a) ==
    CASE op = "open" -> iokit_open(x, a)
      [] op = "reopen" -> iokit_reopen(x)
      [] op = "close" -> iokit_close(x)
      [] op = "close_raw" -> iokit_close_raw(x)
      [] op = "is_connected" -> iokit_is_connected(x, a)
      [] op = "inquiry" -> iokit_inquiry(x)
      [] op = "inquiry_page" -> iokit_inquiry_page(x)
      [] op = "test_unit_ready" -> iokit_test_unit_ready(x)
      [] op = "read" -> iokit_read(x, Full, a)
      [] op = "write" -> iokit_write(x, a)
      [] op = "writefm" -> iokit_writefm(x, a)
      [] op = "rewind" -> iokit_rewind(x)
      [] op = "locate" -> iokit_locate(x, a[1], a[2])
      [] op = "space" -> iokit_space(x, a[1], a[2])
      [] op = "erase" -> iokit_erase(x, a)
      [] op = "load" -> iokit_load(x)
      [] op = "unload" -> iokit_unload(x)
      [] op = "readpos" -> iokit_readpos(x)
      [] op = "setcap" -> iokit_setcap(x)
      [] op = "format" -> iokit_format(x)
      [] op = "remaining_capacity" -> iokit_remaining_capacity(x)
      [] op = "logsense" -> iokit_logsense(x)
      [] op = "modesense" -> iokit_modesense(x)
      [] op = "modeselect" -> iokit_modeselect(x)
      [] op = "reserve_unit" -> iokit_reserve(x)
      [] op = "release_unit" -> iokit_release(x)
      [] op = "prevent_medium_removal" -> iokit_prevent_medium_removal(x)
      [] op = "allow_medium_removal" -> iokit_allow_medium_removal(x)
      [] op = "write_attribute" -> iokit_write_attribute(x, a)
      [] op = "read_attribute" -> iokit_read_attribute(x)
      [] op = "allow_overwrite" -> iokit_allow_overwrite(x, a)
      [] op = "grao" -> iokit_grao(x)
      [] op = "rrao" -> iokit_rrao(x)
      [] op = "set_compression" -> iokit_set_compression(x)
      [] op = "set_default" -> iokit_set_default(x)
      [] op = "get_cartridge_health" -> iokit_get_cartridge_health(x)
      [] op = "get_tape_alert" -> iokit_get_tape_alert(x)
      [] op = "clear_tape_alert" -> iokit_clear_tape_alert(x)
      [] op = "get_xattr" -> iokit_get_xattr(x)
      [] op = "set_xattr" -> iokit_set_xattr(x, a[1], a[2])
      [] op = "get_parameters" -> iokit_get_parameters(x)
      [] op = "get_eod_status" -> iokit_get_eod_status(x)
      [] op = "parse_opts" -> iokit_parse_opts(x, a)
      [] op = "set_key" -> iokit_set_key(x, a)
      [] op = "get_keyalias" -> iokit_get_keyalias(x)
      [] op = "takedump_drive" -> iokit_takedump_drive(x, a)
      [] op = "is_mountable" -> iokit_is_mountable(x)
      [] op = "get_worm_status" -> iokit_get_worm_status(x)
      [] op = "get_serialnumber" -> iokit_get_serialnumber(x)
      [] op = "get_info" -> iokit_get_info(x)
      [] op = "set_profiler" -> iokit_set_profiler(x)
      [] op = "get_next_block_to_xfer" -> iokit_get_next_block_to_xfer(x)
      [] op = "is_readonly" -> iokit_is_readonly(x)
=============================================================================
