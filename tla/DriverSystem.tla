---------------------------- MODULE DriverSystem ----------------------------
(***************************************************************************)
(* A SCSI driver, the drive it talks to and libltfs as its caller.  Any    *)
(* call of the operation table may be made, with any of the faults of      *)
(* ScsiDrive striking its commands.  libltfs honours one rule: after a     *)
(* result that asks for revalidation (NEED_REVAL) it fences the device and *)
(* makes the calls of ltfs_revalidate before any other.                    *)
(*                                                                         *)
(*   drv     which driver, with which options                              *)
(*   x       the state of ScsiDrive                                        *)
(*   state   "closed", "ready", "fenced", or "failed" when a revalidation  *)
(*           came to nothing                                               *)
(*   reserved  device_reserved: the drive was reserved with success         *)
(*   last    the last call (a data call, or "other"), how much it was to   *)
(*           write, and its result                                         *)
(*   silent  the calls that took a unit attention and did not pass it on   *)
(*   calls, faults  how many there were                                    *)
(***************************************************************************)
EXTENDS ScsiDrive

CONSTANTS Driver(_, _, _, _),   \* Driver(drv, x, op, a): the state after a call
          Priv(_),              \* the private data of a closed driver
          Setups,               \* drivers with their options, [name, crc, dumps, ibm, lto]
          Tapes,                \* contents of the cartridge
          Requests,             \* calls, <<operation, argument>>
          Faults,               \* names of the faults
          MaxDelay,             \* commands of a call before its fault
          MaxCalls, MaxFaults

ASSUME BoundsAssumption == MaxDelay \in Nat /\ MaxCalls \in Nat /\ MaxFaults \in Nat

VARIABLES drv, x, state, reserved, last, silent, calls, faults

vars == <<drv, x, state, reserved, last, silent, calls, faults>>

DataCalls == {"read", "write", "writefm", "locate", "space", "rewind"}

Writes == {"write", "writefm"}
Other == [op |-> "other", n |-> 0, rc |-> "ok"]

NEED_REVAL(code) == code \in ResetCodes \cup {"REGISTRATION_PREEMPTED", "REAL_POWER_ON_RESET", "NEED_FAILOVER"}

\* Faults of one call: none, one after some commands, or a second one behind it.
Delayed(s) == {[i \in 1..n |-> "none"] \o s : n \in 0..MaxDelay}
Plans == {<< >>} \cup
         (IF faults < MaxFaults THEN UNION {Delayed(<<f>>) : f \in Faults} ELSE {}) \cup
         (IF faults + 1 < MaxFaults THEN {<<f>> \o s : f \in {"lost", "lost1"}, s \in UNION {Delayed(<<g>>) : g \in Faults}} ELSE {})

Struck(plan) == Len(SelectSeq(plan, LAMBDA f : f # "none"))

\* Results of a call that libltfs answers by making it again.
Repeated == {"reserve_unit", "release_unit", "load", "prevent_medium_removal", "allow_medium_removal"}
Again(op, code) ==
    \/ op \in Repeated /\ NEED_REVAL(code)
    \/ op = "test_unit_ready" /\ code \in {"MEDIUM_MAY_BE_CHANGED", "POR_OR_BUS_RESET", "CONFIGURE_CHANGED"}

\* The calls of a list one after another; a failure ends the list unless the
\* results are ignored.
RECURSIVE Perform(_, _, _)
Perform(y, todo, ignore) ==
    IF todo = << >> THEN y
    ELSE Go(Driver(drv, [y EXCEPT !.n = 0], Head(todo)[1], Head(todo)[2]),
            LAMBDA z : CASE Again(Head(todo)[1], z.rc) -> Perform(z, todo, ignore)
                         [] Good(z) \/ ignore -> Perform(z, Tail(todo), ignore)
                         [] OTHER -> z)

\* What is kept of a state between two calls.
Settled(y) == [y EXCEPT !.flt = << >>, !.ans = 0, !.n = 0, !.rc = "ok", !.saw = {}]

Closed(s, tape) ==
    [d |-> NewDrive(tape), paths |-> Paths, of |-> [q \in Paths |-> 0], fd |-> 0, p |-> Priv(s),
     pos |-> [part |-> 0, block |-> 0, fm |-> 0, ew |-> FALSE, pew |-> FALSE],
     rc |-> "ok", n |-> 0, ans |-> 0, saw |-> {}, flt |-> << >>]

Init ==
    /\ drv \in Setups
    /\ x \in {Closed(drv, t) : t \in Tapes}
    /\ state = "closed" /\ reserved = FALSE /\ last = Other /\ silent = {} /\ calls = 0 /\ faults = 0

\* The calls of tape_device_open (without a key manager), of tape_load_tape and
\* ltfs_start_mount, and of ltfs_setup_device.
Opening(name) == <<<<"open", name>>, <<"reserve_unit", 0>>, <<"allow_medium_removal", 0>>, <<"get_serialnumber", 0>>>>
Loading == <<<<"test_unit_ready", 0>>, <<"load", 0>>, <<"test_unit_ready", 0>>, <<"prevent_medium_removal", 0>>, <<"readpos", 0>>,
             <<"set_default", 0>>, <<"remaining_capacity", 0>>, <<"get_parameters", 0>>, <<"modesense", 0>>, <<"locate", <<0, 0>>>>,
             <<"remaining_capacity", 0>>>>
Setup == <<<<"test_unit_ready", 0>>, <<"modesense", 0>>, <<"modeselect", 0>>, <<"modesense", 0>>>>

Mount ==
    /\ state = "closed" /\ calls = 0
    /\ \E name \in Paths \cup {0} :
         LET y == Perform(x, Opening(name) \o Loading, FALSE)
         IN  x' = Settled(y) /\ state' = IF Good(y) THEN "ready" ELSE "failed"
    /\ reserved' = TRUE
    /\ calls' = 1
    /\ UNCHANGED <<drv, last, silent, faults>>

\* The part of ltfs_revalidate that sets the drive up again.
Revalidate ==
    /\ state = "fenced"
    /\ LET a == Perform(x, Setup, FALSE)
           b == IF Good(a) THEN Perform(a, <<<<"reserve_unit", 0>>>>, FALSE) ELSE a
           y == IF Good(b) THEN Perform(b, Loading, FALSE) ELSE b
       IN  /\ x' = Settled(y)
           /\ state' = IF Good(y) THEN "ready" ELSE "failed"
           /\ reserved' = IF Good(a) THEN Good(b) ELSE reserved
    /\ last' = Other
    /\ UNCHANGED <<drv, silent, calls, faults>>

\* _tape_device_close: the results of its calls are ignored.
Closing == <<<<"allow_medium_removal", 0>>>> \o (IF reserved THEN <<<<"release_unit", 0>>>> ELSE << >>) \o <<<<"close", 0>>>>

Close ==
    /\ state \in {"ready", "fenced", "failed"}
    /\ x' = Settled(Perform(x, Closing, TRUE))
    /\ state' = "closed" /\ last' = Other /\ reserved' = FALSE
    /\ UNCHANGED <<drv, silent, calls, faults>>

Request(c, plan) ==
    LET y == Driver(drv, [x EXCEPT !.flt = plan], c[1], c[2])
    IN  /\ x' = Settled(y)
        /\ last' = [op |-> IF c[1] \in DataCalls THEN c[1] ELSE "other", n |-> IF c[1] \in Writes THEN c[2] ELSE 0, rc |-> y.rc]
        /\ state' = IF NEED_REVAL(y.rc) THEN "fenced" ELSE state
        /\ silent' = IF y.saw \cap ResetCodes # {} /\ ~NEED_REVAL(y.rc) THEN silent \cup {c[1]} ELSE silent

Call ==
    /\ state = "ready" /\ calls < MaxCalls
    /\ \E c \in Requests, plan \in Plans : Request(c, plan) /\ faults' = faults + Struck(plan)
    /\ calls' = calls + 1
    /\ UNCHANGED <<drv, reserved>>

Next == Mount \/ Call \/ Revalidate \/ Close

Spec == Init /\ [][Next]_vars

(***************************************************************************)
(* Properties.                                                             *)
(***************************************************************************)
Agrees(y) == y.pos.part = y.d.part /\ y.pos.block = y.d.blk

\* No notice of a reset was lost, in this step or before it, and no forced
\* error is pending.
Sound == silent' = {} /\ x.p.fw = 0 /\ x.p.fr = 0

Succeeds(S) == last'.rc = "ok" /\ last'.op \in S

\* The drivers that read the position back after a move and fail the call when
\* they cannot; lin_tape and cam keep the old one.
ReadsBack == drv.name \in {"sg", "scsipi", "iokit"}

\* increment_openfactor and decrement_openfactor: the load balancing counter of
\* a path is 1 exactly when this driver has the path open, however often a lost
\* path made _reconnect_device move to another one.
OpenFactorMatches == drv.name = "sg" => \A q \in Paths : x.of[q] = IF x.fd = q THEN 1 ELSE 0

\* No read, write, filemark or positioning call of a driver takes the drive's
\* notice of a reset, an exchanged cartridge or a lost reservation and then
\* reports success: libltfs would never revalidate.  (lin_tape and cam read the
\* position behind a move with a command whose result they drop.)
NoticeKept ==
    [][silent' # silent /\ last'.rc = "ok" =>
         last'.op \in {"other"} \cup (IF ReadsBack THEN {} ELSE DataCalls \ {"read", "write"})]_<<x, last, silent, calls>>

\* A data call that succeeds leaves the position the driver reports equal to
\* the drive's, also when the path failed over or a command was sent again.
\* (Behind a failover sg_writefm counts one block whatever the number of
\* filemarks, so the flush, which is a write of none, is left out.  So is a
\* filemark sg reads while the kernel runs out of memory: stepping back over it
\* to read it again ends with "filemark", which counts as the read.)
PositionAgrees ==
    [][/\ Succeeds(IF ReadsBack THEN DataCalls ELSE {"read", "write"})
       /\ ~(last'.op = "writefm" /\ last'.n = 0)
       /\ ~(last'.op = "read" /\ x'.pos.fm # x.pos.fm /\ faults' # faults)
       /\ Sound /\ Agrees(x)
       => Agrees(x')]_<<x, last, calls>>

\* A write puts its record behind the current block once and truncates what
\* followed, or it fails and changes nothing: not twice and not elsewhere,
\* although the path may break before or after the drive carried it out.
WriteOnce ==
    [][last'.op = "write" /\ Sound /\ Agrees(x) =>
         LET old == SubSeq(Here(x.d), 1, x.d.blk)
             new == x'.d.rec[x.d.part]
         IN  x'.d.cart = x.d.cart => (new = old \o <<last'.n>> \/ (last'.rc # "ok" /\ new = Here(x.d)))]_<<x, last, calls>>

\* A data call succeeds only while this host's path holds the reservation of
\* the drive.  (cam leaves reservations to the kernel.)
ReservationHeld ==
    [][Succeeds(DataCalls) /\ Sound /\ drv.name # "cam" => x'.d.holder = x'.fd]_<<x, last, calls>>

\* No record is written with a checksum the drive was not told to expect: the
\* block protection of driver and drive is set and cleared together.
NoStray == silent = {} => \A q \in 0..1 : \A i \in DOMAIN x.d.rec[q] : x.d.rec[q][i] # Stray

\* A closed driver has given the drive up, so another host can use it, also
\* when the device was fenced or its revalidation failed; sg does even when the
\* path it reserved the drive on is gone.  (The kernel module under lin_tape and
\* cam is left to release the drive with the descriptor.)
Releases == state = "closed" /\ ReadsBack => x.d.holder \notin (IF drv.name = "sg" THEN Paths ELSE x.paths)
=============================================================================
