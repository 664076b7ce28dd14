------------------------------ MODULE Drivers ------------------------------
(***************************************************************************)
(* The five SCSI drivers by name, for the operator parameters of           *)
(* DriverSystem: what a call of a driver does, and the private data of a   *)
(* closed one.                                                             *)
(***************************************************************************)
LOCAL INSTANCE Sequences

Sg == INSTANCE SgTape
Scsipi == INSTANCE ScsipiTape
Iokit == INSTANCE IokitTape
Lin == INSTANCE LinTape
Cam == INSTANCE CamTape

Drivers(drv, x, op, a) ==
    LET name == drv.name
    IN  CASE name = "sg" -> Sg!sg_handler(x, op, a)
          [] name = "scsipi" -> Scsipi!scsipi_ibmtape_handler(x, op, a)
          [] name = "iokit" -> Iokit!iokit_handler(x, op, a)
          [] name = "lin" -> Lin!lin_tape_ibmtape_drive_handler(x, op, a)
          [] name = "cam" -> Cam!camtape_drive_handler(x, op, a)

Privs(s) ==
    LET name == s.name
    IN  CASE name = "sg" -> Sg!SgPriv(s)
          [] name = "scsipi" -> Scsipi!ScsipiPriv(s)
          [] name = "iokit" -> Iokit!IokitPriv(s)
          [] name = "lin" -> Lin!LinPriv(s)
          [] name = "cam" -> Cam!CamPriv(s)
=============================================================================
