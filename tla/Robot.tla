------------------------------- MODULE Robot -------------------------------
(***************************************************************************)
(* The drive of the robot: robot.c and the PWM timers main.c sets up.      *)
(*                                                                         *)
(* Each motor has a timer with two compare registers, one per direction    *)
(* (CCR3 forward, CCR4 backward).  The processor writes them one by one;   *)
(* the timer works from its own copy, taken of both registers at once at   *)
(* the end of a PWM period (the preload bits OC3PE and OC4PE are set), at  *)
(* any point between two writes.                                           *)
(*                                                                         *)
(* Robot_Stop and the Robot_<move> functions are sequences of writes: four *)
(* zeros, then the duty cycle into one register of each motor.  step is    *)
(* the write that comes next, 0 when none is in progress.                  *)
(***************************************************************************)
EXTENDS Integers

CONSTANTS
  Moves,      (* third byte of the "M" commands that may arrive              *)
  Speeds      (* third and fourth bytes of the "S" commands that may arrive  *)

ASSUME RobotAssumption ==
  /\ Moves \subseteq {"F", "B", "R", "L", "0", "other"}
  /\ Speeds \subseteq (0..255) \X (0..255)

Motors == {"right", "left"}
Channels == {3, 4}

(* Registers, speed and robot_duty_cycle are 16 bits wide. *)
Word == 256 * 256
UInt16 == 0 .. Word - 1

States == {"Idle", "MovingForward", "MovingBackwards", "TurningRight", "TurningLeft"}

VARIABLES
  ccr,         (* rTimer and lTimer: the compare registers                   *)
  active,      (* the copies the timers drive the motors with                *)
  robot_state,
  prev_state,  (* the state last printed by Robot_Run                        *)
  duty,        (* robot_duty_cycle, and speed, which is copied to it         *)
  step,        (* next register write of the function in progress            *)
  goal         (* state the function in progress ends in                     *)

vars == <<ccr, active, robot_state, prev_state, duty, step, goal>>

Off == [m \in Motors |-> [c \in Channels |-> 0]]

(* Timers() leaves both directions of both motors driven. *)
Boot == [m \in Motors |-> [c \in Channels |-> IF m = "right" THEN 250 ELSE 500]]

Init ==
  /\ ccr = Boot /\ active = Boot
  /\ robot_state = "Idle" /\ prev_state = "Idle"
  /\ duty = 500
  /\ step = 0 /\ goal = "Idle"

(* The register of each motor that a state drives. *)
Driven(state, m) ==
  CASE state = "MovingForward"   -> 3
    [] state = "MovingBackwards" -> 4
    [] state = "TurningRight"    -> IF m = "right" THEN 4 ELSE 3
    [] state = "TurningLeft"     -> IF m = "right" THEN 3 ELSE 4

-----------------------------------------------------------------------------
(* The functions, called from the main loop one at a time. *)

(* Mutant: Robot_Forward and the others do not call Robot_Stop. *)
Begin_NoStop(state) == step' = (IF state = "Idle" THEN 1 ELSE 5) /\ goal' = state

Begin(state) == step' = 1 /\ goal' = state

(* The disconnection of the central, and any stop command. *)
Robot_Stop ==
  /\ step = 0
  /\ Begin("Idle")
  /\ UNCHANGED <<ccr, active, robot_state, prev_state, duty>>

StateOf(move) ==
  CASE move = "F" -> "MovingForward"
    [] move = "B" -> "MovingBackwards"
    [] move = "R" -> "TurningRight"
    [] move = "L" -> "TurningLeft"
    [] move = "0" -> "Idle"

(* Robot_ParseCommand on a move command; an unknown move is ignored. *)
Move(move) ==
  /\ step = 0
  /\ move # "other"
  /\ Begin(StateOf(move))
  /\ UNCHANGED <<ccr, active, robot_state, prev_state, duty>>

(* Mutant: speed is an int. *)
SpeedOf_Int(hi, lo) == (hi - 48) * 1000 + (lo - 48) * 100

(* Two characters to a duty cycle, digits or not. *)
SpeedOf(hi, lo) == ((hi - 48) * 1000 + (lo - 48) * 100) % Word

(* Robot_ParseCommand on a speed command: the motion in progress restarts. *)
SetSpeed(hi, lo) ==
  /\ step = 0
  /\ duty' = SpeedOf(hi, lo)
  /\ IF robot_state = "Idle" THEN UNCHANGED <<step, goal>> ELSE Begin(robot_state)
  /\ UNCHANGED <<ccr, active, robot_state, prev_state>>

-----------------------------------------------------------------------------
(* The register writes of the function in progress, in its order. *)

(* Mutant: a register is written twice and another not at all. *)
StopOrder_Twice == <<<<"right", 3>>, <<"right", 3>>, <<"left", 3>>, <<"left", 4>>>>

StopOrder == <<<<"right", 3>>, <<"right", 4>>, <<"left", 3>>, <<"left", 4>>>>

Write(m, c, value) == ccr' = [ccr EXCEPT ![m][c] = value]

(* Robot_Stop, which every function starts with, sets the state to Idle. *)
StopWrite ==
  /\ step \in 1..4
  /\ Write(StopOrder[step][1], StopOrder[step][2], 0)
  /\ robot_state' = IF step = 4 THEN "Idle" ELSE robot_state
  /\ step' = IF step = 4 /\ goal = "Idle" THEN 0 ELSE step + 1
  /\ UNCHANGED <<active, prev_state, duty, goal>>

DriveRight ==
  /\ step = 5
  /\ Write("right", Driven(goal, "right"), duty)
  /\ step' = 6
  /\ UNCHANGED <<active, robot_state, prev_state, duty, goal>>

DriveLeft ==
  /\ step = 6
  /\ Write("left", Driven(goal, "left"), duty)
  /\ robot_state' = goal
  /\ step' = 0
  /\ UNCHANGED <<active, prev_state, duty, goal>>

(* Robot_Run prints a state once. *)
Robot_Run ==
  /\ step = 0
  /\ prev_state' = robot_state
  /\ UNCHANGED <<ccr, active, robot_state, duty, step, goal>>

(* End of a PWM period: the timer of m takes over its two registers. *)
Latch(m) ==
  /\ active' = [active EXCEPT ![m] = ccr[m]]
  /\ UNCHANGED <<ccr, robot_state, prev_state, duty, step, goal>>

Writes == StopWrite \/ DriveRight \/ DriveLeft

Next ==
  \/ Robot_Stop
  \/ \E move \in Moves : Move(move)
  \/ \E s \in Speeds : SetSpeed(s[1], s[2])
  \/ Writes
  \/ Robot_Run
  \/ \E m \in Motors : Latch(m)

(* The processor finishes a function it has begun; the timers run on. *)
Fairness == WF_vars(Writes) /\ \A m \in Motors : WF_vars(Latch(m))

Spec == Init /\ [][Next]_vars /\ Fairness

-----------------------------------------------------------------------------
(* Properties. *)

\* The registers hold 16-bit values and the state is one of the enumeration.
TypeOK ==
  /\ ccr \in [Motors -> [Channels -> UInt16]]
  /\ active \in [Motors -> [Channels -> UInt16]]
  /\ robot_state \in States /\ prev_state \in States /\ goal \in States
  /\ duty \in UInt16
  /\ step \in 0..6

OneWay(regs, m) == regs[m][3] = 0 \/ regs[m][4] = 0

AllOneWay == \A m \in Motors : OneWay(ccr, m) /\ OneWay(active, m)

\* Once neither motor is driven both ways it never is again, wherever the end
\* of a PWM period falls between the writes of Robot_Forward, Robot_TurnRight
\* and the others.
NeverOpposedAgain == [][AllOneWay => AllOneWay']_vars

Drive(state) ==
  [m \in Motors |-> [c \in Channels |->
     IF state # "Idle" /\ c = Driven(state, m) THEN duty ELSE 0]]

\* Between two commands the motors do what robot_state and the speed say,
\* once a first command has replaced the values Timers() left.
DrivesAsCommanded == step = 0 => ccr = Boot \/ ccr = Drive(robot_state)

\* A stop command, or the loss of the link, stops both motors, unless a move
\* follows it.
StopTakesEffect ==
  (step # 0 /\ goal = "Idle") ~> (active = Off \/ (step # 0 /\ goal # "Idle"))

=============================================================================
