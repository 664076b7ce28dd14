------------------------------ MODULE CamTape ------------------------------
(***************************************************************************)
(* The driver for FreeBSD, src/tape_drivers/freebsd/cam, in the form of    *)
(* SgTape (see there for the private data).  Reading, writing and moving   *)
(* are calls of the sa(4) tape driver of the kernel, which keeps the sense *)
(* data of the last failure for the driver to fetch; other commands are    *)
(* passed through.  sa(4) reserves the drive and locks the cartridge in    *)
(* while its device is open, so the driver does neither.                   *)
(*   lfail  loadfailed                                                     *)
(*   dirty  dirty_acq_loss_w                                               *)
(*   pend   sa(4) has an early warning to report to the next write         *)
(***************************************************************************)
EXTENDS ScsiDrive

\* THRESHOLD_FORCE_WRITE_NO_WRITE, 20 in the code.
Threshold == 2

CamPriv(opt) ==
    [crc |-> opt.crc, dumps |-> opt.dumps, ibm |-> opt.ibm, lto |-> opt.lto, at |-> 1, loaded |-> FALSE, worm |-> FALSE,
     keyset |-> FALSE, fcrc |-> FALSE, fw |-> 0, fr |-> 0, wc |-> 0, rdc |-> 0, etype |-> 0, bypc |-> FALSE,
     alert |-> FALSE, acq |-> FALSE, dirty |-> FALSE, lfail |-> FALSE, pend |-> FALSE]

(***************************************************************************)
(* Commands and their errors.                                              *)
(***************************************************************************)
\* The kernel: a request for cleaning is no error of a command.  A write that
\* reached the early warning succeeds, and the next one writes nothing.
Kernel(x, c) ==
    CASE x.fd = 0 -> Ret(x, "ENODEV")
      [] c.op = "WRITE" /\ x.p.pend -> [x EXCEPT !.p.pend = FALSE, !.rc = "SHORT_WRITE"]
      [] OTHER -> Go(Transport(x, c),
                     LAMBDA y : CASE y.rc = "CLEANING_REQUIRED" -> Ret(y, "ok")
                                  [] c.op = "WRITE" /\ y.rc \in {"EARLY_WARNING", "PROG_EARLY_WARNING"} ->
                                       [y EXCEPT !.p.pend = TRUE, !.rc = "ok"]
                                  [] OTHER -> y)

\* The sense data sa(4) kept of the last failure: none when the transport
\* failed or the drive sent a status only.
camtape_ioctlrc2err(x) ==
    CASE x.fd \notin x.paths -> Ret(x, "CANNOT_GET_SENSE")
      [] x.rc \in {"ok", "ENODEV", "ENOMEM", "SOFT_ERROR", "LENGTH_MISMATCH", "RESERVATION_CONFLICT", "SHORT_WRITE"} ->
           Ret(x, "NO_SENSE")
      [] OTHER -> x

\* A tape operation, issued again when the drive's clock was set.
RECURSIVE _mt_command(_, _)
_mt_command(x, c) ==
    LET Explained(y) ==
          Go(camtape_ioctlrc2err(y), LAMBDA z : IF z.rc = "TIME_STAMP_CHANGED" THEN _mt_command(z, c) ELSE z)
    IN  Go(Kernel(x, c), LAMBDA y : IF Good(y) THEN y ELSE Explained(y))

\* The result of a command that was passed through, by the status of its CCB.
camtape_ccb2rc(x) ==
    CASE x.rc = "ENODEV" -> Ret(x, "DEVICE_UNOPENABLE")
      [] x.rc = "ENOMEM" -> Ret(x, "ERRNO")
      [] x.rc \in {"SOFT_ERROR", "LENGTH_MISMATCH"} -> Ret(x, "HOST_ERROR")
      [] x.rc = "RESERVATION_CONFLICT" -> Ret(x, "TARGET_ERROR")
      [] OTHER -> x
camtape_send_ccb(x, c) == camtape_ccb2rc(Kernel(x, c))

\* No dump follows an error of the dump itself.
camtape_readbuffer(x) == camtape_send_ccb(x, C("READ_BUFFER", 0, 0))
camtape_forcedump_drive(x) == camtape_send_ccb(x, C("FORCE_DUMP", 0, 0))

\* The capacity of the buffer, then its data (a single transfer).
camtape_getdump_drive(x) == camtape_readbuffer(camtape_readbuffer(x))

camtape_takedump_drive(x, unforced) ==
    LET Force(z) == Ret(camtape_getdump_drive(camtape_forcedump_drive(z)), "ok")
    IN  IF ~x.p.ibm THEN Ret(x, "ok") ELSE Force(IF unforced THEN camtape_getdump_drive(x) ELSE x)

camtape_get_dump(x, unforced) == KeepResult(x, camtape_takedump_drive(x, unforced))

\* Whether a dump is due.  Without sense data a log page is read first; its
\* length is compared with the code for success, so that no dump follows.
is_dump_required_error(x) == x.rc \in SenseErrors

\* A page of the log, and what is done about an error.
RECURSIVE camtape_logsense(_)
RECURSIVE camtape_process_errors(_, _)
camtape_logsense(x) ==
    Go(camtape_send_ccb(x, C("LOG_SENSE", 0, 0)),
       LAMBDA y : IF Good(y) THEN [y EXCEPT !.n = 1] ELSE camtape_process_errors(y, TRUE))
camtape_process_errors(x, dump) ==
    CASE ~dump \/ ~x.p.dumps -> x
      [] x.rc \in {"NO_SENSE", "OVERRUN"} -> KeepResult(x, camtape_logsense(x))
      [] is_dump_required_error(x) -> camtape_get_dump(x, x.rc \in MediumOrHardware)
      [] OTHER -> x

\* Most functions pass a command through this way.
Processed(y) == IF Good(y) THEN y ELSE camtape_process_errors(y, TRUE)
Pass(x, c) == Processed(camtape_send_ccb(x, c))

(***************************************************************************)
(* Readiness, reservation, position.                                       *)
(***************************************************************************)
camtape_test_unit_ready(x) ==
    Go(camtape_send_ccb(x, C("TUR", 0, 0)),
       LAMBDA y : IF y.rc \in {"CONFIGURE_CHANGED", "NO_MEDIUM", "MEDIUM_MAY_BE_CHANGED"} THEN y ELSE Processed(y))

camtape_reserve_unit(x) == Ret(x, "ok")
camtape_release_unit(x) == Ret(x, "ok")
camtape_prevent_medium_removal(x) == Ret(x, "ok")
camtape_allow_medium_removal(x) == Ret(x, "ok")

_camtape_inquiry_page(x, handle) ==
    Go(camtape_send_ccb(x, C("INQUIRY", 128, 0)), LAMBDA y : IF handle THEN Processed(y) ELSE y)
camtape_inquiry_page(x) == _camtape_inquiry_page(x, TRUE)

\* From the data the kernel kept when the device was found.
camtape_inquiry(x) == Ret(x, IF x.fd = 0 THEN "INVALID_ARG" ELSE "ok")
camtape_request_sense(x) == camtape_send_ccb(x, C("REQUEST_SENSE", 0, 0))

\* An ioctl of sa(4) that has the kernel ask the drive; why it failed is not
\* told.  The status report is one.
Ask(x, c) == Go(Kernel(x, c), LAMBDA y : IF Good(y) THEN y ELSE Ret(y, "ERRNO"))
camtape_get_mtinfo(x, c) == Ask(x, c)
camtape_getstatus(x) == camtape_get_mtinfo(x, C("READPOS", 0, 0))

camtape_readpos(x) == Then(Processed(camtape_getstatus(x)), LAMBDA y : [y EXCEPT !.pos = y.ans])

camtape_get_next_block_to_xfer(x) ==
    Then(Pass(x, C("READPOS", 0, 0)), LAMBDA y : [y EXCEPT !.pos.part = y.ans.part, !.pos.block = y.ans.block])

\* The position is read whatever came of the step before, and an error of
\* reading it is lost.
ThenPosition(x) == KeepResult(x, camtape_readpos(x))

ClearForcePerm(x) == [x EXCEPT !.p.bypc = FALSE, !.p.fw = 0, !.p.fr = 0, !.p.wc = 0, !.p.rdc = 0]

(***************************************************************************)
(* Reading records.                                                        *)
(***************************************************************************)
\* Lengths in units of a tenth.  The checksum of a record is not part of what
\* is asked for.
Asked(size) == 10 * size
Got(x) == (IF x.n = Stray THEN 10 * Full + 4 ELSE 10 * x.n) + (IF x.d.lbp THEN 4 ELSE 0)

\* A checksum is present and right in what was read.
ChecksumGood(x) == x.d.lbp \/ x.n = Stray

ReadError(x) == IF x.rc = "KEY_REQUIRED" /\ ~x.p.keyset THEN x ELSE camtape_process_errors(x, TRUE)

ReadDone(x, size) ==
    LET Moved(y) == [y EXCEPT !.pos.block = @ + 1, !.rc = "ok"]
        Checked(y) == IF y.p.crc /\ y.p.fcrc /\ ~ChecksumGood(y) THEN Ret(y, "LBP_READ_ERROR") ELSE y
    IN  CASE x.rc = "FILEMARK_DETECTED" -> Moved([x EXCEPT !.pos.fm = @ + 1, !.n = 0])
          [] ~Good(x) -> ReadError(camtape_ioctlrc2err(x))
          [] Got(x) > Asked(size) -> ReadError(Ret(x, "OVERRUN"))
          [] OTHER -> Checked(Moved(x))

camtape_read(x, size) ==
    LET y == IF x.p.fr > 0 THEN [x EXCEPT !.p.rdc = @ + 1] ELSE x
    IN  IF y.p.fr > 0 /\ y.p.rdc > y.p.fr THEN Ret(y, IF y.p.etype # 0 THEN "NO_SENSE" ELSE "READ_PERM")
        ELSE ReadDone(Kernel(y, C("READ", size, 0)), size)

(***************************************************************************)
(* Writing records and filemarks.                                          *)
(***************************************************************************)
Checksum(x) == IF ~x.p.crc THEN "none" ELSE IF x.p.fcrc THEN "crc" ELSE "junk"

\* A short write is repeated once, with the position read in between.
RECURSIVE WriteFrom(_, _, _)
WriteFrom(x, size, retried) ==
    Go(Kernel(x, C("WRITE", size, Checksum(x))),
       LAMBDA y : CASE Good(y) -> [y EXCEPT !.pos.block = @ + 1]
                    [] y.rc = "SHORT_WRITE" /\ ~retried -> WriteFrom(camtape_readpos(y), size, TRUE)
                    [] y.rc = "SHORT_WRITE" -> Processed(camtape_ioctlrc2err(ThenPosition(y)))
                    [] OTHER -> Processed(camtape_ioctlrc2err(y)))

camtape_write(x, size) ==
    LET y == IF x.p.fw > 0 THEN [x EXCEPT !.p.wc = @ + 1] ELSE x
    IN  CASE y.p.fw > 0 /\ y.p.wc > y.p.fw -> Ret(y, IF y.p.etype # 0 THEN "NO_SENSE" ELSE "WRITE_PERM")
          [] y.p.fw > 0 /\ y.p.wc > y.p.fw - Threshold -> [y EXCEPT !.pos.block = @ + 1, !.rc = "ok"]
          [] OTHER -> [WriteFrom(y, size, FALSE) EXCEPT !.p.dirty = TRUE]

\* What became of the filemarks is told by the position.  An error is taken
\* for an early warning when the position is behind it.
RECURSIVE camtape_writefm(_, _)
camtape_writefm(x, count) ==
    LET left(y) == count - (y.pos.fm - x.pos.fm)
        Outcome(y) ==
          CASE Good(y) -> y
            [] y.rc = "EARLY_WARNING" -> [y EXCEPT !.pos.ew = TRUE, !.rc = "ok"]
            [] y.rc = "PROG_EARLY_WARNING" -> [y EXCEPT !.pos.pew = TRUE, !.rc = "ok"]
            [] y.rc = "CONFIGURE_CHANGED" /\ left(y) # 0 -> camtape_writefm(y, left(y))
            [] y.rc # "CONFIGURE_CHANGED" /\ (y.pos.ew \/ y.pos.pew) -> Ret(y, "ok")
            [] OTHER -> camtape_process_errors(y, TRUE)
    IN  Outcome(ThenPosition(_mt_command(x, C("WRITEFM", count, 0))))

(***************************************************************************)
(* Movement.                                                               *)
(***************************************************************************)
camtape_rewind(x) == ClearForcePerm(Processed(ThenPosition(_mt_command(x, C("REWIND", 0, 0)))))

\* The partition counts only when the driver asks for a change of it.
camtape_locate(x, part, block) ==
    LET y == IF x.pos.part # part /\ x.p.bypc THEN ClearForcePerm(x) ELSE x
        target == IF x.pos.part # part THEN part ELSE x.d.part
        Moved(z) == IF Good(z) THEN z ELSE camtape_ioctlrc2err(z)
    IN  Go(Moved(Kernel(y, C("LOCATE", target, block))),
           LAMBDA z : ThenPosition(IF block = BlockMax /\ z.rc = "EOD_DETECTED" THEN Ret(z, "ok") ELSE Processed(z)))

camtape_space(x, type, count) == Processed(ThenPosition(_mt_command(x, C("SPACE", type, count))))

camtape_long_erase(x) == Pass(x, C("ERASE", 0, 0))

\* A long erase is watched only when its command was answered with "in
\* progress".
camtape_erase(x, long) ==
    LET Again(y) == IF y.rc = "TIME_STAMP_CHANGED" THEN camtape_long_erase(y) ELSE y
        Watched(y) == IF y.rc = "OPERATION_IN_PROGRESS" THEN camtape_request_sense(y) ELSE y
    IN  Processed(ThenPosition(IF long THEN Watched(Again(camtape_long_erase(x)))
                               ELSE _mt_command(x, C("ERASE", 0, 0))))

_camtape_load_unload(x, load) ==
    LET Failed(y) ==
          camtape_process_errors(
            [ThenPosition(y) EXCEPT !.p.lfail = @ \/ y.rc = "LOAD_UNLOAD_ERROR"],
            y.rc \notin {"NO_MEDIUM", "MEDIUM_MAY_BE_CHANGED"} /\ ~(y.rc = "LOAD_UNLOAD_ERROR" /\ y.p.lfail))
        Done(y) == [y EXCEPT !.p.alert = FALSE, !.p.lfail = FALSE]
    IN  Go(_mt_command(x, C(IF load THEN "LOAD" ELSE "UNLOAD", 0, 0)),
           LAMBDA y : CASE ~Good(y) -> Failed(y)
                        [] load -> Done(ThenPosition(y))
                        [] OTHER -> [Done(y) EXCEPT !.pos.part = 0, !.pos.block = 0])

(***************************************************************************)
(* Pages.                                                                  *)
(***************************************************************************)
camtape_modesense(x) == Pass(x, C("MODE_SENSE", 0, 0))
camtape_modeselect(x) == Pass(x, C("MODE_SELECT", 0, 0))

camtape_load(x) ==
    LET Loaded(y) == [ClearForcePerm(y) EXCEPT !.p.loaded = TRUE, !.p.worm = y.ans.flag]
    IN  Then(_camtape_load_unload(x, TRUE), LAMBDA y : Then(camtape_modesense(y), Loaded))

camtape_unload(x) ==
    Then(ClearForcePerm(_camtape_load_unload(x, FALSE)), LAMBDA y : [y EXCEPT !.p.loaded = FALSE, !.p.worm = FALSE])

\* The kind of the cartridge is read again, unless the command failed.
camtape_format(x) == Then(Pass(x, C("FORMAT", 0, 0)), LAMBDA y : KeepResult(y, camtape_modesense(y)))

\* A parameter of a log page; the answer of the page stays in ans.
parse_logPage(x) == IF x.ans.found THEN Ret(x, "ok") ELSE Ret(x, "NO_MEMORY")

\* Capacity left in the data partition of the model's cartridge.
Remaining == 3

camtape_remaining_capacity(x) ==
    Then(camtape_logsense(x), LAMBDA y : Then(parse_logPage(y), LAMBDA z : Answer(z, Remaining)))

camtape_read_attribute(x) ==
    Go(camtape_send_ccb(x, C("READ_ATTRIBUTE", 0, 0)),
       LAMBDA y : IF Good(y) THEN y ELSE camtape_process_errors(y, y.rc # "INVALID_FIELD_CDB"))
camtape_write_attribute(x, v) == Pass(x, C("WRITE_ATTRIBUTE", v, 0))

\* The end of data is no error wherever the permission was asked for.
camtape_allow_overwrite(x, block) ==
    Go(camtape_send_ccb(x, C("ALLOW_OVERWRITE", block, 0)),
       LAMBDA y : IF y.rc = "EOD_DETECTED" THEN Ret(y, "ok") ELSE Processed(y))

camtape_set_compression(x) == Then(camtape_modesense(x), camtape_modeselect)

(***************************************************************************)
(* Settings.                                                               *)
(***************************************************************************)
\* The checksum functions stay set when protection is switched off.
camtape_set_lbp(x, enable) ==
    LET Switched(y) == Processed(Ask(y, C("SET_LBP", enable, 0)))
    IN  Then(camtape_modesense(x),
             LAMBDA y : Then(camtape_get_mtinfo(y, C("PARAM", 0, 0)),
                             LAMBDA z : Then(Switched(z), LAMBDA w : [w EXCEPT !.p.fcrc = @ \/ enable])))

\* A setting of sa(4) itself, the SILI bit or the model of the end of tape.
Setting(x) == IF x.fd \in x.paths THEN Ret(x, "ok") ELSE camtape_process_errors(Ret(x, "DRIVER_ERROR"), TRUE)

camtape_set_default(x) ==
    LET Protect(y) == Then(IF y.p.ibm THEN camtape_set_lbp(y, y.p.crc) ELSE Ret(y, "ok"), Setting)
        Sili(y) == Then(Setting(y), Protect)
    IN  Then(IF x.p.lto THEN Ret(x, "ok") ELSE Then(camtape_modesense(x), camtape_modeselect), Sili)

\* Two log pages whose errors are only logged.
camtape_get_cartridge_health(x) == Ret(camtape_logsense(camtape_logsense(x)), "ok")

camtape_get_tape_alert(x) ==
    Go(camtape_logsense(x),
       LAMBDA y : LET alert == y.p.alert \/ (Good(y) /\ y.ans.flag) IN [y EXCEPT !.p.alert = alert, !.ans = alert])
camtape_clear_tape_alert(x) == [x EXCEPT !.p.alert = FALSE, !.rc = "ok"]

\* The value is fetched when there is none, or when it is old and a record was
\* written since (every value is old in the model).
camtape_get_xattr(x) ==
    LET Fetched(y) == IF y.ans.found THEN [y EXCEPT !.p.acq = TRUE, !.p.dirty = FALSE] ELSE Ret(y, "NO_XATTR")
    IN  IF x.p.acq /\ ~x.p.dirty THEN Ret(x, "ok")
        ELSE Go(Then(camtape_logsense(x), Fetched), LAMBDA y : IF Good(y) THEN y ELSE [y EXCEPT !.p.acq = FALSE])

\* The counter of writes is not reset.
camtape_set_xattr(x, name, v) ==
    CASE name = "forceErrorWrite" -> [x EXCEPT !.p.fw = IF v = 0 \/ v >= Threshold THEN v ELSE Threshold, !.rc = "ok"]
      [] name = "forceErrorRead" -> [x EXCEPT !.p.fr = v, !.p.rdc = 0, !.rc = "ok"]
      [] name = "forceErrorType" -> [x EXCEPT !.p.etype = v, !.rc = "ok"]
      [] OTHER -> Ret(x, "NO_XATTR")

\* An error is a length of 0.
_camtape_get_block_limits(x) == Processed(camtape_getstatus(x))

camtape_get_parameters(x) ==
    Go(_camtape_get_block_limits(x), LAMBDA y : IF y.p.loaded THEN camtape_modesense(y) ELSE Ret(y, "ok"))

\* A WORM cartridge of an enterprise drive is not scaled.
camtape_setcap(x) ==
    IF x.p.lto THEN Pass(x, C("SETCAP", 0, 0))
    ELSE Then(camtape_modesense(x), LAMBDA y : IF y.ans.flag THEN y ELSE camtape_modeselect(y))

camtape_get_eod_status(x) ==
    Go(camtape_logsense(x),
       LAMBDA y : Answer(y, CASE ~Good(y) -> "EOD_UNKNOWN"
                              [] ~y.ans.found -> "EOD_UNKNOWN"
                              [] y.ans.flag -> "EOD_MISSING"
                              [] OTHER -> "EOD_GOOD"))

(***************************************************************************)
(* Encryption.                                                             *)
(***************************************************************************)
\* Application managed encryption, the flag of the mode page.
is_ame(x) == Go(camtape_modesense(x), LAMBDA y : [y EXCEPT !.ans = Good(y) /\ y.ans.flag])

is_encryption_capable(x) ==
    IF ~x.p.lto THEN Ret(x, "INTERNAL_ERROR")
    ELSE Go(is_ame(x), LAMBDA y : Ret(y, IF y.ans THEN "ok" ELSE "INTERNAL_ERROR"))

\* Whether the drive encrypts now (it is able to), from two mode pages.
camtape_get_encryption_state(x) ==
    Then(Processed(Then(camtape_modesense(x), camtape_modesense)), LAMBDA y : Answer(y, y.d.key))

camtape_set_encryption_state(x, on) ==
    Processed(Then(camtape_get_encryption_state(x),
                   LAMBDA y : IF y.ans = on THEN y ELSE Pass(y, C("SPOUT", on, 0))))

\* The state of the drive first, then the key by a mode page.
camtape_set_key(x, set) ==
    LET Keyed(y) == Processed(Then(camtape_modesense([y EXCEPT !.p.keyset = set]), camtape_modeselect))
        Switched(y) == Then(camtape_set_encryption_state(y, set), Keyed)
    IN  Go(is_encryption_capable(x), LAMBDA y : IF Good(y) THEN Switched(y) ELSE Processed(y))

\* The length of the page first, then the page.
camtape_get_keyalias(x) ==
    Then(is_encryption_capable(x), LAMBDA y : Then(Pass(y, C("SPIN", 0, 0)), LAMBDA z : Pass(z, C("SPIN", 0, 0))))

\* What the cartridge and the drive allow is a table of ibm_tape.c.
camtape_is_mountable(x) == Answer(x, "MEDIUM_WRITABLE")
camtape_is_readonly(x) == Answer(x, FALSE)
camtape_get_worm_status(x) ==
    IF x.p.loaded THEN Answer(x, x.p.worm) ELSE [x EXCEPT !.rc = "UNKNOWN", !.ans = FALSE]
camtape_get_serialnumber(x) == Ret(x, "ok")
camtape_get_info(x) == Answer(x, x.p.at)
camtape_set_profiler(x) == Ret(x, "ok")
camtape_parse_opts(x, crc) == [x EXCEPT !.p.crc = crc, !.rc = "ok"]

\* Recommended access order is not supported.
camtape_grao(x) == Ret(x, "UNSUPPORTED_COMMAND")
camtape_rrao(x) == Ret(x, "UNSUPPORTED_COMMAND")

(***************************************************************************)
(* Open and close.                                                         *)
(***************************************************************************)
camtape_get_device_list(x) == x.paths

\* sa(4) reserves the drive and locks the cartridge in, and undoes both when
\* its device is closed.
SaOpen(x, q) == Then(Kernel([x EXCEPT !.fd = q], C("RESERVE", 0, 0)), LAMBDA y : Kernel(y, C("PREVENT", TRUE, 0)))
SaClose(x) == [Kernel(Kernel(x, C("PREVENT", FALSE, 0)), C("RELEASE", 0, 0)) EXCEPT !.fd = 0]

\* For writing too, or else for reading only.
open_sa_device(x, q) ==
    LET Tried(y) == IF Good(y) THEN y ELSE SaOpen(y, q)
    IN  Go(Tried(SaOpen(x, q)), LAMBDA y : IF Good(y) THEN y ELSE [y EXCEPT !.fd = 0, !.rc = "DEVICE_UNOPENABLE"])
open_sa_pass(x, q) == IF q \in x.paths THEN open_sa_device(x, q) ELSE Ret(x, "DEVICE_UNOPENABLE")

\* Only the name of a device will do.  The drive is identified by what the
\* kernel knows of it.
camtape_open(x, name) ==
    Then(open_sa_pass(x, name),
         LAMBDA y : [y EXCEPT !.p.at = name, !.p.loaded = FALSE, !.p.bypc = FALSE, !.p.fw = 0, !.p.fr = 0, !.p.etype = 0])

camtape_reopen(x) == Ret(x, "ok")

camtape_close(x) ==
    LET Rewound == IF x.p.loaded THEN [camtape_rewind(x) EXCEPT !.pos = x.pos] ELSE x
    IN  [SaClose(camtape_set_lbp(Rewound, FALSE)) EXCEPT !.p = CamPriv(x.p), !.rc = "ok"]

camtape_close_raw(x) == Ret(SaClose(x), "ok")
camtape_is_connected(x, q) == Ret(x, IF q \in x.paths THEN "ok" ELSE "UNKNOWN")

\* The operation table: op is the entry, a its argument.
camtape_drive_handler(x, op, a) ==
    CASE op = "open" -> camtape_open(x, a)
      [] op = "reopen" -> camtape_reopen(x)
      [] op = "close" -> camtape_close(x)
      [] op = "close_raw" -> camtape_close_raw(x)
      [] op = "is_connected" -> camtape_is_connected(x, a)
      [] op = "inquiry" -> camtape_inquiry(x)
      [] op = "inquiry_page" -> camtape_inquiry_page(x)
      [] op = "test_unit_ready" -> camtape_test_unit_ready(x)
      [] op = "read" -> camtape_read(x, Full)
      [] op = "write" -> camtape_write(x, a)
      [] op = "writefm" -> camtape_writefm(x, a)
      [] op = "rewind" -> camtape_rewind(x)
      [] op = "locate" -> camtape_locate(x, a[1], a[2])
      [] op = "space" -> camtape_space(x, a[1], a[2])
      [] op = "erase" -> camtape_erase(x, a)
      [] op = "load" -> camtape_load(x)
      [] op = "unload" -> camtape_unload(x)
      [] op = "readpos" -> camtape_readpos(x)
      [] op = "setcap" -> camtape_setcap(x)
      [] op = "format" -> camtape_format(x)
      [] op = "remaining_capacity" -> camtape_remaining_capacity(x)
      [] op = "logsense" -> camtape_logsense(x)
      [] op = "modesense" -> camtape_modesense(x)
      [] op = "modeselect" -> camtape_modeselect(x)
      [] op = "reserve_unit" -> camtape_reserve_unit(x)
      [] op = "release_unit" -> camtape_release_unit(x)
      [] op = "prevent_medium_removal" -> camtape_prevent_medium_removal(x)
      [] op = "allow_medium_removal" -> camtape_allow_medium_removal(x)
      [] op = "write_attribute" -> camtape_write_attribute(x, a)
      [] op = "read_attribute" -> camtape_read_attribute(x)
      [] op = "allow_overwrite" -> camtape_allow_overwrite(x, a)
      [] op = "grao" -> camtape_grao(x)
      [] op = "rrao" -> camtape_rrao(x)
      [] op = "set_compression" -> camtape_set_compression(x)
      [] op = "set_default" -> camtape_set_default(x)
      [] op = "get_cartridge_health" -> camtape_get_cartridge_health(x)
      [] op = "get_tape_alert" -> camtape_get_tape_alert(x)
      [] op = "clear_tape_alert" -> camtape_clear_tape_alert(x)
      [] op = "get_xattr" -> camtape_get_xattr(x)
      [] op = "set_xattr" -> camtape_set_xattr(x, a[1], a[2])
      [] op = "get_parameters" -> camtape_get_parameters(x)
      [] op = "get_eod_status" -> camtape_get_eod_status(x)
      [] op = "parse_opts" -> camtape_parse_opts(x, a)
      [] op = "set_key" -> camtape_set_key(x, a)
      [] op = "get_keyalias" -> camtape_get_keyalias(x)
      [] op = "takedump_drive" -> camtape_takedump_drive(x, a)
      [] op = "is_mountable" -> camtape_is_mountable(x)
      [] op = "get_worm_status" -> camtape_get_worm_status(x)
      [] op = "get_serialnumber" -> camtape_get_serialnumber(x)
      [] op = "get_info" -> camtape_get_info(x)
      [] op = "set_profiler" -> camtape_set_profiler(x)
      [] op = "get_next_block_to_xfer" -> camtape_get_next_block_to_xfer(x)
      [] op = "is_readonly" -> camtape_is_readonly(x)
=============================================================================
