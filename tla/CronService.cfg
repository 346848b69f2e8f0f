SPECIFICATION CSpec
CONSTANTS
  OneShot = {1}
  Periodic = {2}
  At <- MCAt
  Period = 1
  Until <- MCUntil
  Command = {1}
  MaxTime = 3
  MaxSvc = 2
  MaxFaults = 1
INVARIANTS
  TypeOK
  OneShotOnce
  NeverDormant
  WrittenThrough
  StaysRemoved
CHECK_DEADLOCK FALSE
