------------------------------ MODULE LinTape ------------------------------
(***************************************************************************)
(* The driver for IBM's lin_tape kernel module,                            *)
(* src/tape_drivers/linux/lin_tape, in the form of SgTape (see there for   *)
(* the private data).  Most commands are ioctls of the kernel module; when *)
(* one fails the driver asks for the sense data to learn why.  It never    *)
(* reconnects, and it reserves the drive with RESERVE(6).                  *)
(*   name   what open was given, 0 for a serial number                     *)
(*   lfail  loadfailed                                                     *)
(*   junk   what an uninitialised local holds: a large number, or 0        *)
(***************************************************************************)
EXTENDS ScsiDrive

\* THRESHOLD_FORCE_WRITE_NO_WRITE, 20 in the code.
Threshold == 2

\* MAX_WRITE_RETRY, 100 in the code.
MaxWriteRetry == 3

LinPriv(opt) ==
    [crc |-> opt.crc, dumps |-> opt.dumps, lto |-> opt.lto, junk |-> opt.junk, at |-> 1, name |-> 1, loaded |-> FALSE,
     worm |-> FALSE, sili |-> FALSE, keyset |-> FALSE, fcrc |-> FALSE, fw |-> 0, fr |-> 0, wc |-> 0, rdc |-> 0,
     etype |-> 0, bypc |-> FALSE, alert |-> FALSE, acq |-> FALSE, lfail |-> FALSE]

(***************************************************************************)
(* Commands and their errors.                                              *)
(***************************************************************************)
\* The kernel module: a request for cleaning is no error of a command.
Kernel(x, c) ==
    IF x.fd = 0 THEN Ret(x, "ENODEV")
    ELSE Go(Transport(x, c), LAMBDA y : IF y.rc = "CLEANING_REQUIRED" THEN Ret(y, "ok") ELSE y)

\* The sense data that explain a failure.  A failure of the transport leaves
\* none (NO_SENSE), or no answer when the path is gone; a status of the drive
\* without sense data has an error code of 0.
lin_tape_ibmtape_ioctlrc2err(x) ==
    CASE x.fd \notin x.paths -> Ret(x, "CANNOT_GET_SENSE")
      [] x.rc \in {"ok", "ENODEV", "ENOMEM", "LENGTH_MISMATCH"} -> Ret(x, "NO_SENSE")
      [] x.rc \in {"SOFT_ERROR", "RESERVATION_CONFLICT"} -> Ret(x, "DRIVER_ERROR")
      [] OTHER -> x

\* An ioctl, issued again when the drive's clock was set.
RECURSIVE _sioc_stioc_command(_, _)
_sioc_stioc_command(x, c) ==
    LET Explained(y) ==
          Go(lin_tape_ibmtape_ioctlrc2err(y),
             LAMBDA z : IF z.rc = "TIME_STAMP_CHANGED" THEN _sioc_stioc_command(z, c) ELSE z)
    IN  Go(Kernel(x, c), LAMBDA y : IF Good(y) THEN y ELSE Explained(y))

\* The same for the MTIOCTOP and the STIOCTOP ioctl.
_mt_command(x, c) == _sioc_stioc_command(x, c)
_st_command(x, c) == _sioc_stioc_command(x, c)

\* A CDB is passed through: sense data come with the answer.
sioc_paththrough(x, c) ==
    Go(Kernel(x, c),
       LAMBDA y : CASE y.rc \in {"ENODEV", "ENOMEM", "SOFT_ERROR", "LENGTH_MISMATCH"} -> Ret(y, "DRIVER_ERROR")
                    [] y.rc = "RESERVATION_CONFLICT" -> Ret(y, "INTERNAL_ERROR")
                    [] OTHER -> y)

\* No dump follows an error of the dump itself.
lin_tape_ibmtape_readbuffer(x) == sioc_paththrough(x, C("READ_BUFFER", 0, 0))
lin_tape_ibmtape_forcedump_drive(x) == sioc_paththrough(x, C("FORCE_DUMP", 0, 0))

\* The capacity of the buffer, then its data (a single transfer).
lin_tape_ibmtape_getdump_drive(x) == lin_tape_ibmtape_readbuffer(lin_tape_ibmtape_readbuffer(x))

lin_tape_ibmtape_takedump_drive(x, unforced) ==
    LET Force(z) == Ret(lin_tape_ibmtape_getdump_drive(lin_tape_ibmtape_forcedump_drive(z)), "ok")
    IN  Force(IF unforced THEN lin_tape_ibmtape_getdump_drive(x) ELSE x)

lin_tape_ibmtape_get_dump(x, unforced) == KeepResult(x, lin_tape_ibmtape_takedump_drive(x, unforced))

\* Whether a dump is due (the answer).  Without sense data the drive is first
\* asked for a log page, to see whether it transfers data at all.
is_dump_required_error(x) ==
    IF x.rc \in {"NO_SENSE", "OVERRUN"}
    THEN Go(_sioc_stioc_command(x, C("LOG_SENSE", 0, 0)), LAMBDA y : [KeepResult(x, y) EXCEPT !.ans = Good(y)])
    ELSE [x EXCEPT !.ans = x.rc \in SenseErrors]

lin_tape_ibmtape_process_errors(x, dump) ==
    IF ~dump \/ ~x.p.dumps THEN x
    ELSE Go(is_dump_required_error(x),
            LAMBDA y : IF y.ans THEN lin_tape_ibmtape_get_dump(y, y.rc \in MediumOrHardware) ELSE y)

\* Most functions issue their command one of these two ways.
Processed(y) == IF Good(y) THEN y ELSE lin_tape_ibmtape_process_errors(y, TRUE)
Ioctl(x, c) == Processed(_sioc_stioc_command(x, c))
Pass(x, c) == Processed(sioc_paththrough(x, c))

(***************************************************************************)
(* Readiness, reservation, position.                                       *)
(***************************************************************************)
lin_tape_ibmtape_test_unit_ready(x) ==
    Go(_sioc_stioc_command(x, C("TUR", 0, 0)),
       LAMBDA y : IF y.rc \in {"CONFIGURE_CHANGED", "NO_MEDIUM", "MEDIUM_MAY_BE_CHANGED"} THEN y ELSE Processed(y))

lin_tape_ibmtape_reserve_unit(x) == Ioctl(x, C("RESERVE", 0, 0))

lin_tape_ibmtape_release_unit(x) ==
    Go(_sioc_stioc_command(x, C("RELEASE", 0, 0)),
       LAMBDA y : IF Good(y) THEN y ELSE lin_tape_ibmtape_process_errors(y, y.rc # "POR_OR_BUS_RESET"))

_lin_tape_ibmtape_inquiry_page(x, handle) ==
    Go(_sioc_stioc_command(x, C("INQUIRY", 128, 0)), LAMBDA y : IF handle THEN Processed(y) ELSE y)
lin_tape_ibmtape_inquiry_page(x) == _lin_tape_ibmtape_inquiry_page(x, TRUE)
lin_tape_ibmtape_inquiry(x) == _sioc_stioc_command(x, C("INQUIRY", 0, 0))

lin_tape_ibmtape_readpos(x) ==
    Then(Ioctl(x, C("READPOS", 0, 0)), LAMBDA y : [y EXCEPT !.pos = y.ans])

lin_tape_ibmtape_get_next_block_to_xfer(x) ==
    Then(Ioctl(x, C("READPOS", 0, 0)), LAMBDA y : [y EXCEPT !.pos.part = y.ans.part, !.pos.block = y.ans.block])

\* The position is read whatever came of the step before, and an error of
\* reading it is lost.
ThenPosition(x) == KeepResult(x, lin_tape_ibmtape_readpos(x))

ClearForcePerm(x) == [x EXCEPT !.p.bypc = FALSE, !.p.fw = 0, !.p.fr = 0, !.p.wc = 0, !.p.rdc = 0]

(***************************************************************************)
(* Reading records.                                                        *)
(***************************************************************************)
\* Lengths in units of a tenth: what was asked for and what the record holds,
\* checksums included.
Asked(x, size) == 10 * size + (IF x.p.crc THEN 4 ELSE 0)
Got(x) == (IF x.n = Stray THEN 10 * Full + 4 ELSE 10 * x.n) + (IF x.d.lbp THEN 4 ELSE 0)

\* A checksum is present and right in what was read.
ChecksumGood(x) == x.d.lbp \/ x.n = Stray

ReadError(x) ==
    IF x.rc = "KEY_REQUIRED" /\ ~x.p.keyset THEN x ELSE lin_tape_ibmtape_process_errors(x, TRUE)

\* A record of the wrong length is told by its sense data, or by the length
\* the kernel returned when there are none; a difference the driver cannot
\* explain is an error.
ReadDone(x, size, unusual) ==
    LET Moved(y) == [y EXCEPT !.pos.block = @ + 1, !.rc = "ok"]
        Checked(y) == IF y.p.crc /\ y.p.fcrc /\ ~ChecksumGood(y) THEN Ret(y, "LBP_READ_ERROR") ELSE y
    IN  CASE x.rc = "FILEMARK_DETECTED" -> Moved([x EXCEPT !.pos.fm = @ + 1, !.n = 0])
          [] ~Good(x) -> ReadError(lin_tape_ibmtape_ioctlrc2err(x))
          [] Got(x) > Asked(x, size) -> ReadError(Ret(x, "OVERRUN"))
          [] ~x.p.sili /\ Got(x) < Asked(x, size) ->
               IF x.p.crc THEN Ret(Moved(x), "LBP_READ_ERROR") ELSE Moved(x)
          [] ~unusual /\ Got(x) # Asked(x, size) /\ Got(x) >= 10 * size -> ReadError(Ret(x, "NO_SENSE"))
          [] OTHER -> Checked(Moved(x))

lin_tape_ibmtape_read(x, size, unusual) ==
    LET y == IF x.p.fr > 0 THEN [x EXCEPT !.p.rdc = @ + 1] ELSE x
    IN  IF y.p.fr > 0 /\ y.p.rdc > y.p.fr THEN Ret(y, IF y.p.etype # 0 THEN "NO_SENSE" ELSE "READ_PERM")
        ELSE ReadDone(Kernel(y, C("READ", size, 0)), size, unusual)

(***************************************************************************)
(* Writing records and filemarks.                                          *)
(***************************************************************************)
\* Whether a write that failed for want of memory reached the tape, from the
\* position of the drive (read into a variable of its own).
_handle_block_allocation_failure(x) ==
    LET Compared(y) ==
          IF ~Good(y) \/ y.ans.part # x.pos.part THEN y
          ELSE CASE y.ans.block = x.pos.block -> Ret(y, "WRITE_RETRY")
                 [] y.ans.block = x.pos.block + 1 -> [y EXCEPT !.pos.block = @ + 1]
                 [] OTHER -> Ret(y, "NO_MEMORY")
    IN  Compared([lin_tape_ibmtape_readpos(x) EXCEPT !.pos = x.pos])

Checksum(x) == IF ~x.p.crc THEN "none" ELSE IF x.p.fcrc THEN "crc" ELSE "junk"

\* errno is ENOSPC at the early warning, EIO with sense data at the
\* programmable one.
RECURSIVE WriteFrom(_, _, _)
WriteFrom(x, size, retry) ==
    LET Again(y) ==
          Go(_handle_block_allocation_failure(y),
             LAMBDA z : IF z.rc = "WRITE_RETRY" THEN WriteFrom(z, size, retry + 1) ELSE Processed(z))
        NoSpace(y) == Processed(IF y.pos.ew \/ y.pos.pew THEN Ret(y, "ok") ELSE Ret(y, "UNKNOWN"))
        Failed(y, errno) ==
          CASE y.rc = "PROG_EARLY_WARNING" -> [ThenPosition(Ret(y, "ok")) EXCEPT !.pos.pew = TRUE]
            [] retry < MaxWriteRetry /\ ((y.rc = "NO_SENSE" /\ errno # "ENOMEM") \/ y.rc \in {"CONFIGURE_CHANGED", "TIME_STAMP_CHANGED"}) ->
                 Again(y)
            [] OTHER -> Processed(y)
    IN  Go(Kernel(x, C("WRITE", size, Checksum(x))),
           LAMBDA y : CASE Good(y) -> [y EXCEPT !.pos.block = @ + 1]
                        [] y.rc = "EARLY_WARNING" -> NoSpace(ThenPosition(y))
                        [] y.rc = "ENOMEM" /\ retry < MaxWriteRetry -> Again(y)
                        [] OTHER -> Failed(lin_tape_ibmtape_ioctlrc2err(y), y.rc))

lin_tape_ibmtape_write(x, size) ==
    LET y == IF x.p.fw > 0 THEN [x EXCEPT !.p.wc = @ + 1] ELSE x
    IN  CASE y.p.fw > 0 /\ y.p.wc > y.p.fw -> Ret(y, IF y.p.etype # 0 THEN "NO_SENSE" ELSE "WRITE_PERM")
          [] y.p.fw > 0 /\ y.p.wc > y.p.fw - Threshold -> [y EXCEPT !.pos.block = @ + 1, !.rc = "ok"]
          [] OTHER -> WriteFrom(y, size, 0)

\* What became of the filemarks is told by the position.  An error is taken
\* for an early warning when the position is behind it.
RECURSIVE lin_tape_ibmtape_writefm(_, _)
lin_tape_ibmtape_writefm(x, count) ==
    LET left(y) == count - (y.pos.fm - x.pos.fm)
        Outcome(y) ==
          CASE Good(y) -> y
            [] y.rc = "EARLY_WARNING" -> [y EXCEPT !.pos.ew = TRUE, !.rc = "ok"]
            [] y.rc = "PROG_EARLY_WARNING" -> [y EXCEPT !.pos.pew = TRUE, !.rc = "ok"]
            [] y.rc = "CONFIGURE_CHANGED" -> IF left(y) # 0 THEN lin_tape_ibmtape_writefm(y, left(y)) ELSE Ret(y, "ok")
            [] y.pos.ew \/ y.pos.pew -> Ret(y, "ok")
            [] OTHER -> lin_tape_ibmtape_process_errors(y, TRUE)
    IN  Outcome(ThenPosition(_mt_command(x, C("WRITEFM", count, 0))))

(***************************************************************************)
(* Movement.                                                               *)
(***************************************************************************)
lin_tape_ibmtape_rewind(x) == ClearForcePerm(Processed(ThenPosition(_mt_command(x, C("REWIND", 0, 0)))))

\* The active partition is set together with the block when it changes.
lin_tape_ibmtape_locate(x, part, block) ==
    LET y == IF x.pos.part # part /\ x.p.bypc THEN ClearForcePerm(x) ELSE x
        target == IF x.pos.part # part THEN part ELSE x.d.part
    IN  Go(_sioc_stioc_command(y, C("LOCATE", target, block)),
           LAMBDA z : ThenPosition(IF block = BlockMax /\ z.rc = "EOD_DETECTED" THEN Ret(z, "ok") ELSE Processed(z)))

lin_tape_ibmtape_space(x, type, count) == Processed(ThenPosition(_mt_command(x, C("SPACE", type, count))))

lin_tape_ibmtape_long_erase(x) == Pass(x, C("ERASE", 0, 0))

\* The result of a long erase is what the sense data say at last: that of the
\* command is forgotten.
lin_tape_ibmtape_erase(x, long) ==
    LET Again(y) == IF y.rc = "TIME_STAMP_CHANGED" THEN lin_tape_ibmtape_long_erase(y) ELSE y
        Polled(y) ==
          Go(Kernel(y, C("REQUEST_SENSE", 0, 0)),
             LAMBDA z : Go(lin_tape_ibmtape_ioctlrc2err(z), LAMBDA w : IF w.rc = "NO_SENSE" THEN Ret(w, "ok") ELSE w))
    IN  Processed(ThenPosition(IF long THEN Polled(Again(lin_tape_ibmtape_long_erase(x)))
                               ELSE _st_command(x, C("ERASE", 0, 0))))

_lin_tape_ibmtape_load_unload(x, load) ==
    LET Failed(y) ==
          lin_tape_ibmtape_process_errors(
            [ThenPosition(y) EXCEPT !.p.lfail = @ \/ y.rc = "LOAD_UNLOAD_ERROR"],
            y.rc \notin {"NO_MEDIUM", "MEDIUM_MAY_BE_CHANGED"} /\ ~(y.rc = "LOAD_UNLOAD_ERROR" /\ y.p.lfail))
        Done(y) == [y EXCEPT !.p.alert = FALSE, !.p.lfail = FALSE]
    IN  Go(_mt_command(x, C(IF load THEN "LOAD" ELSE "UNLOAD", 0, 0)),
           LAMBDA y : CASE ~Good(y) -> Failed(y)
                        [] load -> Done(ThenPosition(y))
                        [] OTHER -> [Done(y) EXCEPT !.pos.part = 0, !.pos.block = 0])

(***************************************************************************)
(* Pages.  A mode sense returns 0, a log sense the length of the page.     *)
(***************************************************************************)
lin_tape_ibmtape_modesense(x) == Pass(x, C("MODE_SENSE", 0, 0))
lin_tape_ibmtape_modeselect(x) == Pass(x, C("MODE_SELECT", 0, 0))
lin_tape_ibmtape_logsense(x) == [Ioctl(x, C("LOG_SENSE", 0, 0)) EXCEPT !.n = 1]

lin_tape_ibmtape_load(x) ==
    LET Loaded(y) == [ClearForcePerm(y) EXCEPT !.p.loaded = TRUE, !.p.worm = y.ans.flag]
    IN  Then(_lin_tape_ibmtape_load_unload(x, TRUE), LAMBDA y : Then(lin_tape_ibmtape_modesense(y), Loaded))

lin_tape_ibmtape_unload(x) ==
    Then(ClearForcePerm(_lin_tape_ibmtape_load_unload(x, FALSE)),
         LAMBDA y : [y EXCEPT !.p.loaded = FALSE, !.p.worm = FALSE])

\* The kind of the cartridge is read again.
lin_tape_ibmtape_format(x) ==
    Go(Pass(x, C("FORMAT", 0, 0)), LAMBDA y : KeepResult(y, lin_tape_ibmtape_modesense(y)))

\* A parameter of a log page; the answer of the page stays in ans.
parse_logPage(x) == IF x.ans.found THEN Ret(x, "ok") ELSE Ret(x, "NO_MEMORY")

\* Capacity left in the data partition of the model's cartridge.
Remaining == 3

lin_tape_ibmtape_remaining_capacity(x) ==
    Then(lin_tape_ibmtape_logsense(x), LAMBDA y : Then(parse_logPage(y), LAMBDA z : Answer(z, Remaining)))

lin_tape_ibmtape_prevent_medium_removal(x) == Ioctl(x, C("PREVENT", TRUE, 0))
lin_tape_ibmtape_allow_medium_removal(x) == Ioctl(x, C("PREVENT", FALSE, 0))

lin_tape_ibmtape_read_attribute(x) ==
    Go(sioc_paththrough(x, C("READ_ATTRIBUTE", 0, 0)),
       LAMBDA y : IF Good(y) THEN y ELSE lin_tape_ibmtape_process_errors(y, y.rc # "INVALID_FIELD_CDB"))
lin_tape_ibmtape_write_attribute(x, v) == Pass(x, C("WRITE_ATTRIBUTE", v, 0))

\* The end of data is no error wherever the permission was asked for.
lin_tape_ibmtape_allow_overwrite(x, block) ==
    Go(_sioc_stioc_command(x, C("ALLOW_OVERWRITE", block, 0)),
       LAMBDA y : IF y.rc = "EOD_DETECTED" THEN Ret(y, "ok") ELSE Processed(y))

lin_tape_ibmtape_set_compression(x) == Then(lin_tape_ibmtape_modesense(x), lin_tape_ibmtape_modeselect)

(***************************************************************************)
(* Settings.                                                               *)
(***************************************************************************)
lin_tape_ibmtape_set_lbp(x, enable) ==
    Then(lin_tape_ibmtape_modesense(x),
         LAMBDA y : Then(Ioctl(y, C("PARAM", 0, 0)),
                         LAMBDA z : Then(Ioctl(z, C("SET_LBP", enable, 0)), LAMBDA w : [w EXCEPT !.p.fcrc = enable])))

\* The device is opened by the name open was given, a serial number too.
Reopened(x) ==
    IF x.p.name \in x.paths THEN [x EXCEPT !.fd = x.p.name] ELSE [x EXCEPT !.fd = 0, !.rc = "DEVICE_UNOPENABLE"]

\* The SILI bit of the kernel module.  A failure has the device opened again,
\* until a counter that was never set exceeds 10.
RECURSIVE SetSili(_, _)
SetSili(x, retry) ==
    LET Retry(y) == IF y.fd = 0 THEN Processed(y) ELSE SetSili(y, retry + 1)
    IN  Then(Ioctl(x, C("PARAM", 0, 0)),
             LAMBDA y : Go(_sioc_stioc_command(y, C("PARAM", 1, 0)),
                           LAMBDA z : CASE Good(z) -> [z EXCEPT !.p.sili = TRUE]
                                        [] retry > 10 -> Processed(z)
                                        [] OTHER -> Retry(Reopened(z))))

\* Reading across the end of data is switched off on an enterprise drive, and
\* the early warning switched on when it is not.
lin_tape_ibmtape_set_default(x) ==
    LET Warn(y) == Then(Ioctl(y, C("PARAM", 0, 0)), LAMBDA z : Ioctl(z, C("PARAM", 1, 0)))
        Protect(y) == Then(lin_tape_ibmtape_set_lbp(y, x.p.crc), Warn)
        Sili(y) == Then(SetSili(y, IF y.p.junk THEN 11 ELSE 0), Protect)
    IN  Then(IF x.p.lto THEN Ret(x, "ok") ELSE Then(lin_tape_ibmtape_modesense(x), lin_tape_ibmtape_modeselect), Sili)

\* Two log pages whose errors are only logged.
lin_tape_ibmtape_get_cartridge_health(x) == Ret(lin_tape_ibmtape_logsense(lin_tape_ibmtape_logsense(x)), "ok")

lin_tape_ibmtape_get_tape_alert(x) ==
    Go(lin_tape_ibmtape_logsense(x),
       LAMBDA y : LET alert == y.p.alert \/ (Good(y) /\ y.ans.flag) IN [y EXCEPT !.p.alert = alert, !.ans = alert])
lin_tape_ibmtape_clear_tape_alert(x) == [x EXCEPT !.p.alert = FALSE, !.rc = "ok"]

\* The length of the page is taken for a failure of the fetch and returned in
\* place of a result, so no value is ever kept.
lin_tape_ibmtape_get_xattr(x) ==
    Go(Then(lin_tape_ibmtape_logsense(x), LAMBDA y : IF y.ans.found THEN Ret(y, "POSITIVE") ELSE Ret(y, "NO_XATTR")),
       LAMBDA y : [y EXCEPT !.p.acq = FALSE])

\* v < 0 asks for the error to be cleared by a change of partition.
Magnitude(v) == IF v < 0 THEN -v ELSE v
lin_tape_ibmtape_set_xattr(x, name, v) ==
    LET Floor == IF Magnitude(v) = 0 \/ Magnitude(v) >= Threshold THEN Magnitude(v) ELSE Threshold
    IN  CASE name = "forceErrorWrite" -> [x EXCEPT !.p.fw = Floor, !.p.bypc = v < 0, !.p.wc = 0, !.rc = "ok"]
          [] name = "forceErrorRead" -> [x EXCEPT !.p.fr = Magnitude(v), !.p.bypc = v < 0, !.p.rdc = 0, !.rc = "ok"]
          [] name = "forceErrorType" -> [x EXCEPT !.p.etype = v, !.rc = "ok"]
          [] OTHER -> Ret(x, "NO_XATTR")

\* An error is a length of 0.
_lin_tape_ibmtape_get_block_limits(x) == Pass(x, C("BLOCK_LIMITS", 0, 0))

\* Write protection comes from a mode page; without a cartridge the result was
\* never set.
lin_tape_ibmtape_get_parameters(x) ==
    Go(_lin_tape_ibmtape_get_block_limits(x),
       LAMBDA y : IF y.p.loaded THEN lin_tape_ibmtape_modesense(y)
                  ELSE Ret(y, IF y.p.junk THEN "POSITIVE" ELSE "ok"))

\* An enterprise drive returns before its medium is scaled.
lin_tape_ibmtape_setcap(x) == IF x.p.lto THEN Pass(x, C("SETCAP", 0, 0)) ELSE lin_tape_ibmtape_modesense(x)

lin_tape_ibmtape_get_eod_status(x) ==
    Go(lin_tape_ibmtape_logsense(x),
       LAMBDA y : Answer(y, CASE ~Good(y) -> "EOD_UNKNOWN"
                              [] ~y.ans.found -> "EOD_UNKNOWN"
                              [] y.ans.flag -> "EOD_MISSING"
                              [] OTHER -> "EOD_GOOD"))

(***************************************************************************)
(* Encryption.                                                             *)
(***************************************************************************)
\* Application managed encryption, the flag of the mode page.
is_ame(x) == Go(lin_tape_ibmtape_modesense(x), LAMBDA y : [y EXCEPT !.ans = Good(y) /\ y.ans.flag])

is_encryption_capable(x) ==
    IF ~x.p.lto THEN Ret(x, "INTERNAL_ERROR")
    ELSE Go(is_ame(x), LAMBDA y : Ret(y, IF y.ans THEN "ok" ELSE "INTERNAL_ERROR"))

lin_tape_ibmtape_security_protocol_out(x, set) == Pass(x, C("SPOUT", set, 0))

lin_tape_ibmtape_set_key(x, set) ==
    LET Stored(y) == lin_tape_ibmtape_modesense([y EXCEPT !.p.keyset = set])
        Sent(y) == Then(lin_tape_ibmtape_security_protocol_out(y, set), Stored)
    IN  Then(is_encryption_capable(x), LAMBDA y : Then(lin_tape_ibmtape_modesense(y), Sent))

\* The length of the page first, then the page.
lin_tape_ibmtape_get_keyalias(x) ==
    Then(is_encryption_capable(x), LAMBDA y : Then(Pass(y, C("SPIN", 0, 0)), LAMBDA z : Pass(z, C("SPIN", 0, 0))))

\* What the cartridge and the drive allow is a table of ibm_tape.c.
lin_tape_ibmtape_is_mountable(x) == Answer(x, "MEDIUM_WRITABLE")
lin_tape_ibmtape_is_readonly(x) == Answer(x, FALSE)
lin_tape_ibmtape_get_worm_status(x) ==
    IF x.p.loaded THEN Answer(x, x.p.worm) ELSE [x EXCEPT !.rc = "UNKNOWN", !.ans = FALSE]
lin_tape_ibmtape_get_serialnumber(x) == Ret(x, "ok")
lin_tape_ibmtape_get_info(x) == Answer(x, x.p.at)
lin_tape_ibmtape_set_profiler(x) == Ret(x, "ok")
lin_tape_ibmtape_parse_opts(x, crc) == [x EXCEPT !.p.crc = crc, !.rc = "ok"]

\* Recommended access order is not supported.
lin_tape_ibmtape_grao(x) == Ret(x, "UNSUPPORTED_COMMAND")
lin_tape_ibmtape_rrao(x) == Ret(x, "UNSUPPORTED_COMMAND")

(***************************************************************************)
(* Open and close.                                                         *)
(***************************************************************************)
\* The version of the kernel module is recent enough.
lin_tape_ibmtape_check_lin_tape_version(x) == Ret(x, "ok")

lin_tape_ibmtape_get_device_list(x) == x.paths

\* The device file of a name; a name that is no file is a serial number, and
\* the first device that has it is taken.
DeviceFile(x, name) ==
    IF name \in x.paths THEN name
    ELSE IF name # 0 \/ lin_tape_ibmtape_get_device_list(x) = {} THEN 0
    ELSE CHOOSE q \in x.paths : \A r \in x.paths : q <= r

lin_tape_ibmtape_open(x, name) ==
    LET q == DeviceFile(x, name)
        Identified(y) == Then(lin_tape_ibmtape_inquiry(y), lin_tape_ibmtape_inquiry_page)
        Opened(y) ==
          IF Good(y) THEN [y EXCEPT !.p.at = q, !.p.name = name, !.p.loaded = FALSE, !.p.bypc = FALSE, !.p.fw = 0, !.p.fr = 0, !.p.etype = 0]
          ELSE [y EXCEPT !.fd = 0]
    IN  Then(lin_tape_ibmtape_check_lin_tape_version(x),
             LAMBDA y : IF q = 0 THEN Ret(y, "NO_DEVICE") ELSE Opened(Identified([y EXCEPT !.fd = q])))

lin_tape_ibmtape_reopen(x) == Ret(x, "ok")

lin_tape_ibmtape_close(x) ==
    LET Rewound == IF x.p.loaded THEN [lin_tape_ibmtape_rewind(x) EXCEPT !.pos = x.pos] ELSE x
    IN  [lin_tape_ibmtape_set_lbp(Rewound, FALSE) EXCEPT !.fd = 0, !.p = LinPriv(x.p), !.rc = "ok"]

lin_tape_ibmtape_close_raw(x) == [x EXCEPT !.fd = 0, !.rc = "ok"]
lin_tape_ibmtape_is_connected(x, q) == Ret(x, IF q \in x.paths THEN "ok" ELSE "UNKNOWN")

\* The operation table: op is the entry, a its argument.
lin_tape_ibmtape_drive_handler(x, op, a) ==
    CASE op = "open" -> lin_tape_ibmtape_open(x, a)
      [] op = "reopen" -> lin_tape_ibmtape_reopen(x)
      [] op = "close" -> lin_tape_ibmtape_close(x)
      [] op = "close_raw" -> lin_tape_ibmtape_close_raw(x)
      [] op = "is_connected" -> lin_tape_ibmtape_is_connected(x, a)
      [] op = "inquiry" -> lin_tape_ibmtape_inquiry(x)
      [] op = "inquiry_page" -> lin_tape_ibmtape_inquiry_page(x)
      [] op = "test_unit_ready" -> lin_tape_ibmtape_test_unit_ready(x)
      [] op = "read" -> lin_tape_ibmtape_read(x, Full, a)
      [] op = "write" -> lin_tape_ibmtape_write(x, a)
      [] op = "writefm" -> lin_tape_ibmtape_writefm(x, a)
      [] op = "rewind" -> lin_tape_ibmtape_rewind(x)
      [] op = "locate" -> lin_tape_ibmtape_locate(x, a[1], a[2])
      [] op = "space" -> lin_tape_ibmtape_space(x, a[1], a[2])
      [] op = "erase" -> lin_tape_ibmtape_erase(x, a)
      [] op = "load" -> lin_tape_ibmtape_load(x)
      [] op = "unload" -> lin_tape_ibmtape_unload(x)
      [] op = "readpos" -> lin_tape_ibmtape_readpos(x)
      [] op = "setcap" -> lin_tape_ibmtape_setcap(x)
      [] op = "format" -> lin_tape_ibmtape_format(x)
      [] op = "remaining_capacity" -> lin_tape_ibmtape_remaining_capacity(x)
      [] op = "logsense" -> lin_tape_ibmtape_logsense(x)
      [] op = "modesense" -> lin_tape_ibmtape_modesense(x)
      [] op = "modeselect" -> lin_tape_ibmtape_modeselect(x)
      [] op = "reserve_unit" -> lin_tape_ibmtape_reserve_unit(x)
      [] op = "release_unit" -> lin_tape_ibmtape_release_unit(x)
      [] op = "prevent_medium_removal" -> lin_tape_ibmtape_prevent_medium_removal(x)
      [] op = "allow_medium_removal" -> lin_tape_ibmtape_allow_medium_removal(x)
      [] op = "write_attribute" -> lin_tape_ibmtape_write_attribute(x, a)
      [] op = "read_attribute" -> lin_tape_ibmtape_read_attribute(x)
      [] op = "allow_overwrite" -> lin_tape_ibmtape_allow_overwrite(x, a)
      [] op = "grao" -> lin_tape_ibmtape_grao(x)
      [] op = "rrao" -> lin_tape_ibmtape_rrao(x)
      [] op = "set_compression" -> lin_tape_ibmtape_set_compression(x)
      [] op = "set_default" -> lin_tape_ibmtape_set_default(x)
      [] op = "get_cartridge_health" -> lin_tape_ibmtape_get_cartridge_health(x)
      [] op = "get_tape_alert" -> lin_tape_ibmtape_get_tape_alert(x)
      [] op = "clear_tape_alert" -> lin_tape_ibmtape_clear_tape_alert(x)
      [] op = "get_xattr" -> lin_tape_ibmtape_get_xattr(x)
      [] op = "set_xattr" -> lin_tape_ibmtape_set_xattr(x, a[1], a[2])
      [] op = "get_parameters" -> lin_tape_ibmtape_get_parameters(x)
      [] op = "get_eod_status" -> lin_tape_ibmtape_get_eod_status(x)
      [] op = "parse_opts" -> lin_tape_ibmtape_parse_opts(x, a)
      [] op = "set_key" -> lin_tape_ibmtape_set_key(x, a)
      [] op = "get_keyalias" -> lin_tape_ibmtape_get_keyalias(x)
      [] op = "takedump_drive" -> lin_tape_ibmtape_takedump_drive(x, a)
      [] op = "is_mountable" -> lin_tape_ibmtape_is_mountable(x)
      [] op = "get_worm_status" -> lin_tape_ibmtape_get_worm_status(x)
      [] op = "get_serialnumber" -> lin_tape_ibmtape_get_serialnumber(x)
      [] op = "get_info" -> lin_tape_ibmtape_get_info(x)
      [] op = "set_profiler" -> lin_tape_ibmtape_set_profiler(x)
      [] op = "get_next_block_to_xfer" -> lin_tape_ibmtape_get_next_block_to_xfer(x)
      [] op = "is_readonly" -> lin_tape_ibmtape_is_readonly(x)
=============================================================================
