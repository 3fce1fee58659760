\* Two devices, two scans, two clicks.
SPECIFICATION Spec
CONSTANTS
  Devices = {"robot", "other"}
  MaxPresses = 2
  MaxClicks = 2
  MaxOpened = 2
INVARIANTS
  TypeOK
  ScanIsWatched
  OpenedForTheDiscovered
PROPERTY
  ScanEnds
\* Every bound reached, nothing is left to do.
CHECK_DEADLOCK FALSE
