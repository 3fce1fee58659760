\* A button that is remembered and one that is not, both pressed once or one
\* pressed twice; two lost links and one failure.
SPECIFICATION Spec
CONSTANTS
  Buttons = {"Forward", "Right"}
  MaxTouches = 2
  MaxLosses = 2
  MaxFailures = 1
INVARIANTS
  TypeOK
  PrevStateIsHeld
  ReleasedIsStopped
  CrashIsEarlyOrReconnecting
PROPERTY
  Reconnects
\* The app may crash, or be opened without a robot.
CHECK_DEADLOCK FALSE
