-------------------------- MODULE VolumePrograms --------------------------
(***************************************************************************)
(* The programs that use a cartridge, and the requests of a running ltfs,  *)
(* each as a function of the state of Volume.                              *)
(***************************************************************************)
EXTENDS VolumeMount

\* a program opens the device and loads the cartridge
Open(y) == Clear(tape_load_tape(tape_device_open(y)))

Close(y) == tape_device_close(y)

NotAVolume == {"LTFS_NOT_PARTITIONED", "LTFS_LABEL_INVALID", "LTFS_LABEL_MISMATCH"}

\* mkltfs formats a cartridge that is not a volume yet; the attributes of the
\* cartridge are written last and their errors ignored
format_tape(y) ==
    LET a == ltfs_start_mount(y)
        b == ltfs_format_tape(Clear(a), 1)
    IN  IF a.rc \notin NotAVolume THEN Fail(a, "USAGE")
        ELSE IF b.rc # "ok" THEN b
        ELSE Clear(tape_format_attribute_to_cm(b, [label |-> "T", lock |-> "UNLOCKED"]))

\* mkltfs --wipe
unformat_tape(y) == ltfs_unformat_tape(y)

\* The scheduler writes a record of file data; the extent follows.  A permanent
\* error ends in a last index.  w is [n, p, v]: file, partition and version.
WriteFile(y, w) ==
    LET a == _ltfs_fsraw_write_data_unlocked(y, w.p, w.v)
        c == _unified_write_index_after_perm(a)
    IN  IF a.rc = "ok"
        THEN ltfs_set_index_dirty([a EXCEPT !.vol.index.files[w.n] =
                  [p |-> w.p, b |-> a.pos.block - 1, v |-> w.v]])
        ELSE IF c.rc = "dead" THEN c ELSE Fail(c, a.rc)

\* deep_recovery is not tried on a cartridge with a lock or an error status
check_ltfs_volume(y, opt) ==
    LET a == ltfs_start_mount(y)
        b == IF opt.deep /\ tape_get_cart_volume_lock_status(a) = "UNLOCKED"
             THEN ltfs_recover_eod(ltfs_recover_eod_simple(a)) ELSE a
        c == ltfs_mount(b, MountOpts(TRUE, TRUE, opt.extra, 0, FALSE))
    IN  IF a.rc # "ok" THEN a
        ELSE IF b.rc # "ok" THEN b
        ELSE IF c.rc # "ok" THEN c
        ELSE Clear(ltfs_unmount(c, "SYNC_CHECK"))

\* what the volume system below runs
Programs(op, y, arg) ==
    LET loaded == Open(y) IN
    CASE op = "mkltfs"   -> format_tape(loaded)
      [] op = "wipe"     -> unformat_tape(loaded)
      [] op = "mount"    -> ltfs_mount(loaded, MountOpts(FALSE, FALSE, FALSE, arg, FALSE))
      [] op = "ltfsck"   -> check_ltfs_volume(loaded, arg)
      [] op = "rollback" -> rollback(loaded, arg.gen, arg)
      [] op = "write"    -> WriteFile(y, arg)
      [] op = "sync"     -> ltfs_sync_index(y, "SYNC_EA")
      [] op = "unmount"  -> ltfs_unmount(y, "SYNC_UNMOUNT")
      [] op = "error"    -> filedebug_set_xattr(y, "forceErrorWrite", arg)
      [] op = "close"    -> Close(y)

===========================================================================
