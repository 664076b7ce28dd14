SPECIFICATION Spec
CONSTANTS
  Driver <- Drivers
  Priv <- Privs
  Setups <- SetupsAll
  Tapes <- Written
  Requests <- RequestsAll
  Faults <- FaultNames
  MaxDelay = 2
  MaxCalls = 3
  MaxFaults = 1
INVARIANTS OpenFactorMatches NoStray Releases
PROPERTIES NoticeKept PositionAgrees WriteOnce ReservationHeld
CHECK_DEADLOCK FALSE
