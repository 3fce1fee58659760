\* The commands of RemoteControlActivity.java, and a malformed speed.
SPECIFICATION Spec
CONSTANTS
  Moves <- MCMoves
  Speeds <- MCSpeeds
INVARIANTS
  TypeOK
  DrivesAsCommanded
PROPERTIES
  NeverOpposedAgain
  StopTakesEffect
