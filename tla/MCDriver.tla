------------------------------ MODULE MCDriver ------------------------------
EXTENDS DriverSystem, Drivers

Opts(name) == [name |-> name, crc |-> TRUE, dumps |-> TRUE, ibm |-> TRUE, lto |-> TRUE, junk |-> FALSE]
SetupsAll == {Opts("sg"), Opts("scsipi"), Opts("iokit"), Opts("lin"), Opts("cam")}
Written == {[q \in 0..1 |-> IF q = 0 THEN <<Full, FM, Short>> ELSE <<Short, FM>>]}
FaultNames == {"lost", "lost1", "gone", "gone1", "nomem", "nomem1", "soft", "por", "reset", "medium", "preempt", "stamp", "conf",
               "ew", "pew", "perm", "clean", "resid", "key", "flag", "page0", "page1"}
DataRequests ==
    {<<"read", FALSE>>, <<"read", TRUE>>, <<"write", Full>>, <<"write", Short>>, <<"writefm", 0>>, <<"writefm", 1>>, <<"rewind", 0>>,
     <<"locate", <<1, 1>>>>, <<"locate", <<0, BlockMax>>>>, <<"space", <<"fm_f", 1>>>>, <<"space", <<"fm_b", 1>>>>, <<"space", <<"b", 1>>>>}
OtherRequests ==
    {<<op, 0>> : op \in {"reopen", "inquiry", "inquiry_page", "test_unit_ready", "load", "unload", "readpos", "setcap",
       "format", "remaining_capacity", "logsense", "modesense", "modeselect", "reserve_unit",
       "prevent_medium_removal", "allow_medium_removal", "read_attribute", "grao", "rrao", "set_compression", "set_default",
       "get_cartridge_health", "get_tape_alert", "clear_tape_alert", "get_xattr", "get_parameters", "get_eod_status",
       "get_keyalias", "is_mountable", "get_worm_status", "get_serialnumber", "get_info", "set_profiler",
       "get_next_block_to_xfer", "is_readonly"}} \cup
    {<<"is_connected", 1>>, <<"erase", TRUE>>, <<"erase", FALSE>>, <<"write_attribute", 1>>, <<"allow_overwrite", 1>>,
     <<"allow_overwrite", BlockMax>>, <<"parse_opts", TRUE>>, <<"set_key", TRUE>>, <<"takedump_drive", TRUE>>,
     <<"set_xattr", <<"forceErrorWrite", 1>>>>, <<"set_xattr", <<"forceErrorRead", -1>>>>, <<"set_xattr", <<"forceErrorType", 1>>>>,
     <<"set_xattr", <<"capOffset", 1>>>>}
RequestsAll == DataRequests \cup OtherRequests
=============================================================================
