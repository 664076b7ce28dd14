--------------------------- MODULE VolumeSystem ---------------------------
(***************************************************************************)
(* A cartridge in a drive and the programs that use it one after another:  *)
(* mkltfs, ltfs (mount, writing, sync, unmount) and ltfsck.  Any program   *)
(* may be killed between any two changes of the medium or of the cartridge *)
(* memory; what it had in memory is gone then.                             *)
(*                                                                         *)
(*   x        the state of Volume                                          *)
(*   site     how the cartridge is used: partitions that the placement     *)
(*            rules put data on, options of ltfsck, rollbacks and errors   *)
(*   up       whether ltfs is running                                      *)
(*   made     whether the cartridge was formatted, not wiped since, and no *)
(*            rollback that erases history was killed on it                *)
(*   acked    the version of each file that a successful sync or unmount   *)
(*            has promised                                                 *)
(*   version  the last version written                                     *)
(*   last     the last program or request, its argument and its result     *)
(*   kills    how many programs were killed                                *)
(*   runs     how many times ltfs and ltfsck were started                  *)
(***************************************************************************)
EXTENDS VolumePrograms

CONSTANTS Program(_, _, _),   \* Program(op, y, arg): the state after a program or request
          Sites            \* [places, checks, points, errors, wipe] and the bounds
                           \* [versions, kills, runs]

ASSUME SystemAssumption ==
    \A s \in Sites : /\ s.places \subseteq Parts
                     /\ s.versions \in Nat /\ s.kills \in Nat /\ s.runs \in Nat

VARIABLES x, site, up, made, acked, version, last, kills, runs

vars == <<x, site, up, made, acked, version, last, kills, runs>>

Home == [part |-> 0, block |-> 0, ew |-> FALSE, pew |-> FALSE]

\* nothing but the medium and the cartridge memory
Rest(y) == [y EXCEPT !.drv = filedebug_open, !.dev = tape_device_alloc,
                     !.vol = ltfs_volume_alloc, !.pos = Home, !.buf = None,
                     !.rc = "ok", !.fuel = 0, !.fm = FALSE]

Settled(y) == [y EXCEPT !.buf = None, !.rc = "ok", !.fuel = 0, !.fm = FALSE]

Blank ==
    Rest([files |-> [p \in Parts |-> [b \in Blocks |-> None]],
          mam |-> [p \in Parts |-> BlankMemory],
          drv |-> 0, dev |-> 0, vol |-> 0, pos |-> 0, buf |-> None,
          rc |-> "ok", fuel |-> 0, fm |-> FALSE, gone |-> {}])

Init ==
    /\ x = Blank /\ site \in Sites /\ up = FALSE /\ made = FALSE
    /\ acked = [n \in Names |-> 0] /\ version = 0 /\ kills = 0 /\ runs = 0
    /\ last = [op |-> "none", arg |-> 0, rc |-> "ok"]

Versions(idx) == [n \in Names |-> idx.files[n].v]

Outcome(op, arg, y) ==
    /\ last' = [op |-> op, arg |-> arg, rc |-> y.rc]
    /\ kills' = IF y.rc = "dead" THEN kills + 1 ELSE kills
    /\ UNCHANGED site

---------------------------------------------------------------------------
(* Programs                                                                *)

Live(k) == [x EXCEPT !.fuel = k]
Plenty == 1000

\* a run of a program that is killed after k changes of the medium
Run(op, k, arg) == Program(op, Live(k), arg)

\* a program can be killed before each of the changes that it makes
Lives(op, arg) ==
    {Plenty} \cup (IF kills < site.kills
                   THEN 0 .. Plenty - Run(op, Plenty, arg).fuel - 1 ELSE {})

Exit(y) == Rest(Program("close", y, 0))

FormatTape ==
    /\ ~up /\ ~made
    /\ \E k \in Lives("mkltfs", 0) : LET y == Run("mkltfs", k, 0) IN
        /\ Outcome("mkltfs", 0, y)
        /\ made' = (y.rc = "ok")
        /\ x' = Exit(y)
    /\ UNCHANGED <<up, acked, version, runs>>

\* mkltfs --wipe
UnformatTape ==
    /\ site.wipe /\ ~up /\ made /\ runs < site.runs
    /\ \E k \in Lives("wipe", 0) : LET y == Run("wipe", k, 0) IN
        /\ Outcome("wipe", 0, y)
        /\ x' = Exit(y)
    /\ made' = FALSE
    /\ runs' = runs + 1
    /\ acked' = [n \in Names |-> 0]
    /\ UNCHANGED <<up, version>>

\* ltfs is started, perhaps to show an older generation
Mount(gen) ==
    /\ ~up /\ (made \/ last.op = "wipe") /\ runs < site.runs
    /\ \E k \in Lives("mount", gen) : LET y == Run("mount", k, gen) IN
        /\ Outcome("mount", gen, y)
        /\ up' = (y.rc = "ok")
        /\ x' = IF y.rc = "ok" THEN Settled(y) ELSE Exit(y)
    /\ runs' = runs + 1
    /\ UNCHANGED <<made, acked, version>>

\* a request of the running file system
Serve(op, y) ==
    /\ up
    /\ Outcome(op, 0, y)
    /\ up' = (y.rc # "dead")
    /\ x' = IF y.rc = "dead" THEN Rest(y) ELSE Settled(y)
    /\ UNCHANGED <<made, runs>>

Write(n, p) ==
    LET w == [n |-> n, p |-> p, v |-> version + 1] IN
    /\ up /\ version < site.versions
    /\ ltfs_get_tape_readonly(x) = "ok"
    /\ \E k \in Lives("write", w) : Serve("write", Run("write", k, w))
    /\ version' = version + 1
    /\ UNCHANGED acked

\* a new version without data
Create(n) ==
    LET y == ltfs_set_index_dirty([Live(Plenty) EXCEPT !.vol.index.files[n] =
                [p |-> -1, b |-> 0, v |-> version + 1]])
    IN  /\ version < site.versions
        /\ ltfs_get_tape_readonly(x) = "ok"
        /\ Serve("create", y)
        /\ version' = version + 1
        /\ UNCHANGED acked

Sync ==
    /\ up /\ x.vol.index.dirty
    /\ \E k \in Lives("sync", 0) : LET y == Run("sync", k, 0) IN
        /\ Serve("sync", y)
        /\ acked' = IF y.rc = "ok" THEN Versions(x.vol.index) ELSE acked
    /\ UNCHANGED version

Unmount ==
    /\ up
    /\ \E k \in Lives("unmount", 0) : LET y == Run("unmount", k, 0) IN
        /\ Outcome("unmount", 0, y)
        /\ x' = Exit(y)
        /\ acked' = IF y.rc = "ok" /\ ~y.vol.index.dirty /\ x.vol.mount = "NORMAL"
                    THEN Versions(x.vol.index) ELSE acked
    /\ up' = FALSE
    /\ UNCHANGED <<made, version, runs>>

\* the process dies between two requests
Kill ==
    /\ up /\ kills < site.kills
    /\ up' = FALSE /\ x' = Rest(x)
    /\ kills' = kills + 1 /\ last' = [op |-> "kill", arg |-> 0, rc |-> "dead"]
    /\ UNCHANGED <<site, made, acked, version, runs>>

\* an administrator asks the backend for a write error
SetForceError(e) ==
    /\ x.drv.fwp = 0
    /\ Serve("error", Run("error", Plenty, e))
    /\ UNCHANGED <<acked, version>>

Ltfsck(opt) ==
    /\ ~up /\ made /\ runs < site.runs
    /\ \E k \in Lives("ltfsck", opt) : LET y == Run("ltfsck", k, opt) IN
        /\ Outcome("ltfsck", 0, y)
        /\ x' = Exit(y)
    /\ runs' = runs + 1
    /\ UNCHANGED <<up, made, acked, version>>

EndOf(y, p) == Min({b \in Blocks : y.files[p][b].k \in {"none", "E"}} \cup {LastBlock})

\* complete indexes of a partition, before the end of data
IndexesOf(y, p) ==
    {y.files[p][b].v.idx : b \in
        {c \in 0 .. EndOf(y, p) - 2 :
            /\ y.files[p][c].k = "R" /\ y.files[p][c].v.t = "head"
            /\ y.files[p][c+1] = Data(IndexTail(y.files[p][c].v.idx))}}

IndexesOn(y) == IndexesOf(y, IP) \cup IndexesOf(y, DP)

\* what a rollback to a generation may give up
Target(gen) ==
    LET old == {idx \in IndexesOn(x) : idx.gen = gen} IN
    [n \in Names |-> Min({acked[n]} \cup {idx.files[n].v : idx \in old})]

\* ltfsck -g gen, with -r unless the point is only verified, with -j or -k
Rollback(gen, opt) ==
    LET op == IF opt.verify THEN "verify" ELSE IF opt.erase THEN "erase" ELSE "rollback"
    IN  /\ ~up /\ made /\ runs < site.runs
        /\ \E k \in Lives("rollback", opt) : LET y == Run("rollback", k, opt) IN
            /\ Outcome(op, gen, y)
            /\ x' = Exit(y)
            /\ made' = ~(opt.erase /\ y.rc = "dead")
        /\ runs' = runs + 1
        /\ acked' = IF opt.verify THEN acked ELSE Target(gen)
        /\ UNCHANGED <<up, version>>

Next ==
    \/ FormatTape
    \/ UnformatTape
    \/ \E gen \in {0} \cup {q.gen : q \in site.points} : Mount(gen)
    \/ \E n \in Names, p \in site.places : Write(n, p)
    \/ \E n \in Names : Create(n)
    \/ Sync
    \/ Unmount
    \/ Kill
    \/ \E e \in site.errors : SetForceError(e)
    \/ \E opt \in site.checks : Ltfsck(opt)
    \/ \E q \in site.points : Rollback(q.gen, q)

Spec == Init /\ [][Next]_vars

---------------------------------------------------------------------------
(* Properties                                                              *)

\* the record of a file's version is where the index says
Stored(y, e) == e.p # -1 => y.files[e.p][e.b] = Data(FileData(e.v))

Intact(y, idx) == \A n \in Names : Stored(y, idx.files[n])

\* the drive lost it from its buffer after it had reported it written
Gone(y, e) == FileData(e.v) \in y.gone

Keeps(y, idx) ==
    \A n \in Names : /\ idx.files[n].v >= acked[n]
                     /\ Stored(y, idx.files[n]) \/ Gone(y, idx.files[n])

\* What a sync (ltfs_sync_index) or an unmount (ltfs_unmount) has promised is
\* never lost by LTFS: wherever a program dies or a write fails, some complete
\* index on the medium has every promised version, and the records it refers
\* to are the ones that were written, or were lost by the drive.
AckedOnTape == made => \E idx \in IndexesOn(x) : Keeps(x, idx)

\* "Extents cleaning is required" (ltfs_sync_index) when the drive fails to
\* write what it has buffered: a sync or an unmount that reports success has
\* all the records on the medium.  Does not hold when the drive loses them.
AckedWritten ==
    made => \E idx \in IndexesOn(x) :
               Intact(x, idx) /\ \A n \in Names : idx.files[n].v >= acked[n]

\* And it is found: a volume that ltfs_mount accepts shows at least the
\* promised versions, whichever of the coherency data, the index partition
\* and the data partition it took its index from.
AckedMounted == up /\ x.vol.mount # "ROLLBACK" => Keeps(x, x.vol.index)

\* Whatever the point at which a program was killed, ltfsck repairs the
\* volume (check_ltfs_volume), unless the cartridge carries a lock or a
\* write error status, with which it does not try.
CheckRepairs ==
    last.op = "ltfsck" /\ tape_get_cart_volume_lock_status(x) = "UNLOCKED"
        => last.rc \in {"ok", "dead"}

\* After an orderly unmount or a successful ltfsck the volume can be mounted.
RepairedMounts ==
    [][last.op \in {"ltfsck", "unmount"} /\ last.rc = "ok" /\ last'.op = "mount" /\ last'.arg = 0
        => last'.rc \in {"ok", "dead"}]_vars

\* The back pointers that rollback and the check follow (ltfs_write_index sets
\* them) lead to complete and not newer indexes of the data partition.  An
\* index of the index partition counts while none follows it.
BackChain ==
    LET dp == IndexesOf(x, DP)
        ip == IndexesOf(x, IP)
        current == dp \cup {idx \in ip : \A later \in ip : later.self.b <= idx.self.b}
    IN  made => \A idx \in current : idx.back.p # -1 =>
                    \E old \in dp : old.self = idx.back /\ old.gen <= idx.gen

\* The data partition only grows: no mount, write, sync, unmount, check or
\* rollback that keeps history removes a complete index from it.
DpHistory ==
    [][\/ IndexesOf(x, DP) \subseteq IndexesOf(x', DP)
       \/ last'.op \in {"mkltfs", "wipe", "erase"}]_vars

\* A mount with rollback_mount shows the generation asked for, with its data
\* (ltfs_traverse_index_backward).
ShowsGeneration ==
    up /\ x.vol.mount = "ROLLBACK" /\ last.op = "mount"
        => x.vol.index.gen = last.arg /\ Intact(x, x.vol.index)

\* The first mount after a rollback that reported success shows the files of
\* the generation asked for (rollback, _rollback).
RolledTo ==
    [][last.op \in {"rollback", "erase"} /\ last.rc = "ok" /\ last'.op = "mount" /\ up'
          /\ x'.vol.mount # "ROLLBACK"
        => \E old \in IndexesOn(x) :
              old.gen = last.arg /\ Versions(old) = Versions(x'.vol.index)]_vars

===========================================================================
