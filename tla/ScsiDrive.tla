----------------------------- MODULE ScsiDrive -----------------------------
(***************************************************************************)
(* The tape drive as the five SCSI drivers of src/tape_drivers see it: the *)
(* target of their commands, the paths that lead to it and the ways a      *)
(* command can fail.  None of this is code of the repository; it is        *)
(* modelled from how the drivers use it (their CDBs, the sense codes of    *)
(* their error tables, the host status they test).                         *)
(*                                                                         *)
(* A call of a driver is a function from a state x to a state x, a record  *)
(* with the fields                                                         *)
(*   d      the drive (see NewDrive)                                       *)
(*   paths  the device files that still lead to it (an I_T nexus each)     *)
(*   of     the open factor of every path                                  *)
(*   fd     the path the driver's descriptor is open on, 0 if closed       *)
(*   p      the private data of the driver                                 *)
(*   pos    the position the driver reports to its caller                  *)
(*   rc     the result: "ok", or the name of the error without EDEV_       *)
(*   n      the length a call returns when it succeeds                     *)
(*   ans    what the last command or call reported                         *)
(*   saw    the unit attentions a command of this call has taken           *)
(*   flt    the faults still to come, one taken by each command            *)
(***************************************************************************)
EXTENDS Integers, Sequences, FiniteSets, SequencesExt

\* The host has two paths to the drive; 3 is another host.
Paths == {1, 2}
OtherHost == 3

\* A block address beyond every record (TAPE_BLOCK_MAX).
BlockMax == 99

\* Records on the tape: a filemark, a short and a full record, and a full
\* record that carries a checksum the drive was not told about.
FM == 0
Short == 1
Full == 2
Stray == 3

\* Unit attentions after which nothing the host knew of the drive holds.
ResetCodes == {"POR_OR_BUS_RESET", "MEDIUM_MAY_BE_CHANGED", "RESERVATION_PREEMPTED"}

\* Unit attentions the error tables know (IS_UNIT_ATTENTION).
UnitAttentions == ResetCodes \cup {"REGISTRATION_PREEMPTED", "RESERVATION_RELEASED", "CONFIGURE_CHANGED", "TIME_STAMP_CHANGED"}

NewDrive(tape) ==
    [rec |-> tape, part |-> 0, blk |-> 0, cart |-> 1, loaded |-> TRUE, prevent |-> FALSE,
     reg |-> {}, holder |-> 0, legacy |-> FALSE, ua |-> [n \in Paths |-> "none"], lbp |-> FALSE,
     key |-> FALSE, warn |-> "none", mam |-> 0]

Ret(x, code) == [x EXCEPT !.rc = code]
Good(x) == x.rc = "ok"
Answer(x, v) == [x EXCEPT !.rc = "ok", !.ans = v]

\* A command.
C(op, a, b) == [op |-> op, a |-> a, b |-> b]

\* What is left when the result of y is ignored: its state, and the result of x.
KeepResult(x, y) == [y EXCEPT !.rc = x.rc, !.n = x.n]

\* The next step F of a call whose step before it led to y: taken when that
\* step succeeded, or whatever its result.
Then(y, F(_)) == IF Good(y) THEN F(y) ELSE y
Go(y, F(_)) == F(y)

Attention(d, code) == [d EXCEPT !.ua = [n \in Paths |-> code]]

\* The drive loses power: registrations, reservation and mode pages are gone
\* and the cartridge is at its beginning again.
PowerCycle(d) ==
    Attention([d EXCEPT !.reg = {}, !.holder = 0, !.part = 0, !.blk = 0, !.lbp = FALSE,
                        !.prevent = FALSE, !.key = FALSE], "POR_OR_BUS_RESET")

\* A logical unit reset keeps the position and a persistent reservation.
UnitReset(d) ==
    Attention([d EXCEPT !.lbp = FALSE, !.prevent = FALSE, !.holder = IF d.legacy THEN 0 ELSE @], "POR_OR_BUS_RESET")

\* An operator exchanges the cartridge for an empty one.
Exchange(d) ==
    IF d.prevent \/ ~d.loaded THEN d
    ELSE Attention([d EXCEPT !.cart = 2, !.rec = [q \in 0..1 |-> << >>], !.part = 0, !.blk = 0],
                   "MEDIUM_MAY_BE_CHANGED")

\* The other host takes the drive, by a reset when the reservation is not a
\* persistent one.
Preempt(d) ==
    IF d.legacy THEN [UnitReset(d) EXCEPT !.holder = OtherHost]
    ELSE Attention([d EXCEPT !.reg = {OtherHost}, !.holder = OtherHost], "RESERVATION_PREEMPTED")

Here(d) == d.rec[d.part]
AtEnd(d) == d.blk = Len(Here(d))
Put(d, s) == [d EXCEPT !.rec[d.part] = SubSeq(@, 1, d.blk) \o s, !.blk = @ + Len(s)]
Marks(s) == Cardinality({i \in DOMAIN s : s[i] = FM})

\* Blocks behind which, and before which, a filemark lies.
After(d, n) == {i \in d.blk + 1 .. Len(Here(d)) : Here(d)[i] = FM /\ Marks(SubSeq(Here(d), d.blk + 1, i)) = n}
Before(d, n) == {i \in 1 .. d.blk : Here(d)[i] = FM /\ Marks(SubSeq(Here(d), i, d.blk)) = n}

\* SPACE: to the end of data, over n filemarks or over one block.
Space(x, type, n) ==
    LET d == x.d
        To(b, code) == [x EXCEPT !.d.blk = b, !.rc = code]
    IN  CASE type = "eod" -> To(Len(Here(d)), "ok")
          [] type = "fm_f" -> IF After(d, n) = {} THEN To(Len(Here(d)), "EOD_DETECTED")
                              ELSE To(CHOOSE i \in After(d, n) : TRUE, "ok")
          [] type = "fm_b" -> IF Before(d, n) = {} THEN To(0, "BOP_DETECTED")
                              ELSE To((CHOOSE i \in Before(d, n) : TRUE) - 1, "ok")
          [] type = "f" -> IF AtEnd(d) THEN Ret(x, "EOD_DETECTED")
                           ELSE To(d.blk + 1, IF Here(d)[d.blk + 1] = FM THEN "FILEMARK_DETECTED" ELSE "ok")
          [] type = "b" -> IF d.blk = 0 THEN Ret(x, "BOP_DETECTED")
                           ELSE To(d.blk - 1, IF Here(d)[d.blk] = FM THEN "FILEMARK_DETECTED" ELSE "ok")
          [] OTHER -> Ret(x, "INVALID_FIELD_CDB")

\* PERSISTENT RESERVE OUT.  Both paths register the same key; the reservation
\* is exclusive to the nexus that made it.
ReserveOut(x, action, key) ==
    LET d == x.d
        n == x.fd
        Mine == n \in d.reg
    IN  CASE action = "register" ->
               IF key THEN [x EXCEPT !.d.reg = @ \cup {n}, !.rc = "ok"]
               ELSE [x EXCEPT !.d.reg = @ \ {n}, !.d.holder = IF @ = n THEN 0 ELSE @, !.rc = "ok"]
          [] ~Mine -> Ret(x, "RESERVATION_CONFLICT")
          [] action = "reserve" ->
               IF d.holder \in {0, n} THEN [x EXCEPT !.d.holder = n, !.rc = "ok"]
               ELSE Ret(x, "RESERVATION_CONFLICT")
          [] action = "release" -> [x EXCEPT !.d.holder = IF @ = n THEN 0 ELSE @, !.rc = "ok"]
          [] action = "preempt" ->
               [x EXCEPT !.d.holder = IF @ \in Paths THEN n ELSE @,
                         !.d.reg = (@ \ Paths) \cup {n},
                         !.d.ua = [m \in Paths |-> IF m # n /\ m \in d.reg THEN "REGISTRATION_PREEMPTED" ELSE @[m]],
                         !.rc = "ok"]

\* What the drive does with a command it accepts.  c.op is the command, c.a
\* and c.b its arguments.
Execute(x, c) ==
    LET d == x.d
    IN  CASE c.op = "READ" ->
               IF AtEnd(d) THEN Ret(x, "EOD_DETECTED")
               ELSE [x EXCEPT !.d.blk = @ + 1, !.n = Here(d)[d.blk + 1],
                              !.rc = IF Here(d)[d.blk + 1] = FM THEN "FILEMARK_DETECTED" ELSE "ok"]
          [] c.op = "WRITE" ->
               IF d.lbp /\ c.b # "crc" THEN Ret(x, "LBP_WRITE_ERROR")
               ELSE [x EXCEPT !.d = Put(d, <<IF c.b # "none" /\ ~d.lbp THEN Stray ELSE c.a>>),
                              !.rc = IF d.warn = "none" THEN "ok" ELSE d.warn]
          [] c.op = "WRITEFM" -> [x EXCEPT !.d = IF c.a = 0 THEN d ELSE Put(d, [i \in 1..c.a |-> FM]),
                                           !.rc = IF d.warn = "none" THEN "ok" ELSE d.warn]
          [] c.op = "REWIND" -> [x EXCEPT !.d.blk = 0, !.rc = "ok"]
          [] c.op = "LOCATE" ->
               LET y == [x EXCEPT !.d.part = c.a]
               IN  IF c.b > Len(Here(y.d)) THEN [y EXCEPT !.d.blk = Len(Here(y.d)), !.rc = "EOD_DETECTED"]
                   ELSE [y EXCEPT !.d.blk = c.b, !.rc = "ok"]
          [] c.op = "SPACE" -> Space(x, c.a, c.b)
          [] c.op = "ERASE" -> [x EXCEPT !.d = Put(d, << >>), !.rc = "ok"]
          [] c.op = "FORMAT" -> [x EXCEPT !.d.rec = [q \in 0..1 |-> << >>], !.d.part = 0, !.d.blk = 0, !.rc = "ok"]
          [] c.op = "LOAD" -> [x EXCEPT !.d.loaded = TRUE, !.d.part = 0, !.d.blk = 0, !.rc = "ok"]
          [] c.op = "UNLOAD" -> IF d.prevent THEN Ret(x, "MEDIA_REMOVAL_PREV")
                                ELSE [x EXCEPT !.d.loaded = FALSE, !.d.part = 0, !.d.blk = 0, !.rc = "ok"]
          [] c.op = "READPOS" -> Answer(x, [part |-> d.part, block |-> d.blk, fm |-> Marks(SubSeq(Here(d), 1, d.blk)),
                                            ew |-> d.warn = "EARLY_WARNING", pew |-> d.warn # "none"])
          [] c.op = "PREVENT" -> [x EXCEPT !.d.prevent = c.a, !.rc = "ok"]
          [] c.op = "PRO" -> ReserveOut(x, c.a, c.b)
          [] c.op = "RESERVE" -> [x EXCEPT !.d.holder = x.fd, !.d.legacy = TRUE, !.rc = "ok"]
          [] c.op = "RELEASE" -> [x EXCEPT !.d.holder = IF @ = x.fd THEN 0 ELSE @, !.rc = "ok"]
          [] c.op = "PRI" -> Answer(x, d.holder)
          [] c.op = "SET_LBP" -> [x EXCEPT !.d.lbp = c.a, !.rc = "ok"]
          [] c.op = "SPOUT" -> [x EXCEPT !.d.key = c.a, !.rc = "ok"]
          [] c.op = "SPIN" -> Answer(x, d.key)
          [] c.op = "WRITE_ATTRIBUTE" -> [x EXCEPT !.d.mam = c.a, !.rc = "ok"]
          [] c.op = "READ_ATTRIBUTE" -> Answer(x, d.mam)
          [] c.op \in {"LOG_SENSE", "MODE_SENSE"} -> Answer(x, [found |-> TRUE, flag |-> FALSE])
          [] OTHER -> Ret(x, "ok")

\* Commands that report no unit attention, commands a reservation of another
\* nexus does not stop, and commands that need no cartridge.
NoAttention == {"INQUIRY", "REQUEST_SENSE"}
NoConflict == NoAttention \cup {"PRI", "PRO", "RELEASE"}
NoMedium == NoConflict \cup {"LOAD", "UNLOAD", "PREVENT", "MODE_SENSE", "MODE_SELECT", "SET_LBP", "LOG_SENSE",
                             "READ_BUFFER", "FORCE_DUMP", "RSOC", "SPIN", "SPOUT", "BLOCK_LIMITS", "RESERVE", "PARAM"}

\* The drive receives a command.
Serve(x, c) ==
    IF c.op \notin NoAttention /\ x.d.ua[x.fd] # "none"
    THEN [x EXCEPT !.rc = x.d.ua[x.fd], !.saw = @ \cup {x.d.ua[x.fd]}, !.d.ua[x.fd] = "none"]
    ELSE IF c.op \notin NoConflict /\ x.d.holder \notin {0, x.fd} THEN Ret(x, "RESERVATION_CONFLICT")
    ELSE IF c.op \notin NoMedium /\ ~x.d.loaded THEN Ret(x, "NO_MEDIUM")
    ELSE Execute(x, c)

\* Pages that differ from the usual one: a flag is set (an alert, a lost end of
\* data, a WORM or a write protected cartridge), or the parameter looked for is
\* missing and whatever the caller's buffer held is used.
OddPages == [flag |-> [found |-> TRUE, flag |-> TRUE],
             page0 |-> [found |-> FALSE, flag |-> FALSE],
             page1 |-> [found |-> FALSE, flag |-> TRUE]]

\* What a fault does to the drive before it sees the command.
Strike(d, f) ==
    CASE f = "por" -> PowerCycle(d)
      [] f = "reset" -> UnitReset(d)
      [] f = "medium" -> Exchange(d)
      [] f = "preempt" -> Preempt(d)
      [] f = "stamp" -> Attention(d, "TIME_STAMP_CHANGED")
      [] f = "conf" -> Attention(d, "CONFIGURE_CHANGED")
      [] f = "ew" -> [d EXCEPT !.warn = "EARLY_WARNING"]
      [] f = "pew" -> [d EXCEPT !.warn = "PROG_EARLY_WARNING"]
      [] OTHER -> d

\* What it makes of the drive's answer.
Spoil(x, c, f) ==
    CASE f \in {"lost1", "gone1"} -> Ret(x, "ENODEV")
      [] f = "nomem1" -> Ret(x, "ENOMEM")
      [] f = "clean" /\ Good(x) -> Ret(x, "CLEANING_REQUIRED")
      [] f = "resid" /\ Good(x) /\ c.op = "READ" -> Ret(x, "LENGTH_MISMATCH")
      [] f \in DOMAIN OddPages /\ Good(x) /\ c.op \in {"LOG_SENSE", "MODE_SENSE"} -> Answer(x, OddPages[f])
      [] OTHER -> x

\* The result of a command the drive does not get to see, or refuses at once.
Refused(x, c, f) ==
    CASE x.fd \notin x.paths \/ f \in {"lost", "gone"} -> "ENODEV"
      [] f = "nomem" -> "ENOMEM"
      [] f = "soft" -> "SOFT_ERROR"
      [] f = "perm" -> IF c.op = "READ" THEN "READ_PERM"
                       ELSE IF c.op \in {"WRITE", "WRITEFM"} THEN "WRITE_PERM"
                       ELSE IF c.op \in {"LOAD", "UNLOAD"} THEN "LOAD_UNLOAD_ERROR" ELSE "HARDWARE_ERROR"
      [] f = "key" /\ c.op = "READ" -> "KEY_REQUIRED"
      [] OTHER -> "none"

\* One attempt of the kernel to pass a command on: the next fault of the plan
\* strikes.  "lost", "gone" and "nomem" fail before the drive sees the
\* command, "lost1", "gone1" and "nomem1" after it has carried it out; a path
\* that is "gone" does not come back.
Transport(x, c) ==
    LET f == IF x.flt = << >> THEN "none" ELSE Head(x.flt)
        y == [x EXCEPT !.flt = IF @ = << >> THEN @ ELSE Tail(@), !.d = Strike(@, f)]
        Cut(z) == IF f \in {"gone", "gone1"} THEN [z EXCEPT !.paths = @ \ {x.fd}] ELSE z
    IN  IF Refused(x, c, f) # "none" THEN Cut(Ret(y, Refused(x, c, f))) ELSE Cut(Spoil(Serve(y, c), c, f))

\* Error codes by their class in libltfs/ltfs_error.h: medium and hardware
\* errors, and every code from NOT_READY up to INTERNAL_ERROR (exclusive).
MediumOrHardware == {"READ_PERM", "WRITE_PERM", "LOAD_UNLOAD_ERROR", "HARDWARE_ERROR", "LBP_WRITE_ERROR", "LBP_READ_ERROR", "NO_CONNECTION"}
SenseErrors == MediumOrHardware \cup UnitAttentions \cup
               {"NO_MEDIUM", "MEDIA_REMOVAL_PREV", "INVALID_FIELD_CDB", "EOD_DETECTED", "KEY_REQUIRED"}
=============================================================================
