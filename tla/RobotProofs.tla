---------------------------- MODULE RobotProofs ----------------------------
(***************************************************************************)
(* Theorems about Robot, for every set of commands.                        *)
(*                                                                         *)
(* The inductive invariant follows a function through its writes: Robot_   *)
(* Stop has cleared the registers before step, and at the last write the   *)
(* right motor is already driven one way.                                  *)
(***************************************************************************)
EXTENDS Robot, TLAPS

Cleared ==
  /\ step \in 2..5 => ccr["right"][3] = 0
  /\ step \in 3..5 => ccr["right"][4] = 0
  /\ step \in 4..6 => ccr["left"][3] = 0
  /\ step \in 5..6 => ccr["left"][4] = 0

HalfDriven ==
  step = 6 => \A c \in Channels :
                ccr["right"][c] = IF c = Driven(goal, "right") THEN duty ELSE 0

Moving == step \in 5..6 => goal # "Idle"

IInv == TypeOK /\ Moving /\ Cleared /\ HalfDriven /\ DrivesAsCommanded

-----------------------------------------------------------------------------
(* Every moving state drives one direction of each motor. *)
LEMMA DrivenChannel ==
  ASSUME NEW state \in States \ {"Idle"}, NEW m \in Motors
  PROVE  Driven(state, m) \in Channels
BY DEF States, Motors, Driven, Channels

(* A commanded move has a state. *)
LEMMA MoveState ==
  ASSUME NEW move \in Moves, move # "other"
  PROVE  StateOf(move) \in States
BY RobotAssumption DEF StateOf, States

(* Two bytes make a 16-bit speed. *)
LEMMA SpeedRange ==
  ASSUME NEW s \in Speeds
  PROVE  SpeedOf(s[1], s[2]) \in UInt16
<1>1. s[1] \in Int /\ s[2] \in Int
  BY RobotAssumption
<1> DEFINE raw == (s[1] - 48) * 1000 + (s[2] - 48) * 100
<1>2. raw \in Int
  BY <1>1
<1> HIDE DEF raw
<1>3. Word \in Nat \ {0}
  BY DEF Word
<1>4. raw % Word \in 0 .. Word - 1
  BY <1>2, <1>3
<1> QED BY <1>4 DEF SpeedOf, raw, UInt16

LEMMA Duties == {0, 250, 500} \subseteq UInt16
<1>1. Word = 65536
  BY DEF Word
<1> QED BY <1>1 DEF UInt16

(* One write changes one register. *)
LEMMA WriteOne ==
  ASSUME TypeOK, NEW m \in Motors, NEW c \in Channels, NEW v \in UInt16, Write(m, c, v)
  PROVE  /\ ccr' \in [Motors -> [Channels -> UInt16]]
         /\ ccr'[m][c] = v
         /\ \A n \in Motors, d \in Channels : (n # m \/ d # c) => ccr'[n][d] = ccr[n][d]
BY DEF TypeOK, Write

-----------------------------------------------------------------------------
LEMMA InvInit == Init => IInv
<1> SUFFICES ASSUME Init PROVE IInv
  OBVIOUS
<1>1. TypeOK
  <2>1. Boot \in [Motors -> [Channels -> UInt16]]
    BY Duties DEF Boot
  <2> QED BY <2>1, Duties DEF Init, TypeOK, States
<1> QED BY <1>1 DEF Init, IInv, Moving, Cleared, HalfDriven, DrivesAsCommanded

(* A call: only step, goal and the speed change. *)
LEMMA CallStep ==
  ASSUME IInv, step = 0,
         UNCHANGED <<ccr, active, robot_state>>, prev_state' \in States,
         \/ duty' = duty
         \/ duty' \in UInt16 /\ (robot_state = "Idle" \/ step' = 1),
         \/ step' = 0 /\ goal' = goal
         \/ step' = 1 /\ goal' \in States
  PROVE  IInv'
<1>1. TypeOK'
  BY DEF IInv, TypeOK
<1>2. Moving' /\ Cleared' /\ HalfDriven'
  BY DEF Moving, Cleared, HalfDriven
<1>3. DrivesAsCommanded'
  BY DEF IInv, DrivesAsCommanded, Drive
<1> QED BY <1>1, <1>2, <1>3 DEF IInv

LEMMA StopStep == IInv /\ StopWrite => IInv'
<1> SUFFICES ASSUME IInv, StopWrite PROVE IInv'
  OBVIOUS
<1> DEFINE m == StopOrder[step][1]
           c == StopOrder[step][2]
<1>1. TypeOK /\ step \in 1..4
  BY DEF IInv, StopWrite
<1>2. m \in Motors /\ c \in Channels /\ Write(m, c, 0)
  BY <1>1 DEF StopWrite, StopOrder, Motors, Channels
<1>3. /\ step = 1 => m = "right" /\ c = 3
      /\ step = 2 => m = "right" /\ c = 4
      /\ step = 3 => m = "left" /\ c = 3
      /\ step = 4 => m = "left" /\ c = 4
  BY DEF StopOrder
<1> HIDE DEF m, c
<1>4. /\ ccr' \in [Motors -> [Channels -> UInt16]]
      /\ ccr'[m][c] = 0
      /\ \A n \in Motors, d \in Channels : (n # m \/ d # c) => ccr'[n][d] = ccr[n][d]
  BY <1>1, <1>2, WriteOne, Duties
<1>5. TypeOK'
  BY <1>1, <1>4 DEF StopWrite, TypeOK, States
<1>6. Moving' /\ HalfDriven'
  BY <1>1 DEF StopWrite, Moving, HalfDriven, TypeOK
<1>7. ccr'["right"][3] = 0 /\ (step >= 2 => ccr'["right"][4] = 0)
        /\ (step >= 3 => ccr'["left"][3] = 0) /\ (step = 4 => ccr'["left"][4] = 0)
  BY <1>1, <1>2, <1>3, <1>4 DEF IInv, Cleared, Motors, Channels
<1>8. Cleared'
  BY <1>1, <1>7 DEF StopWrite, Cleared
<1>9. DrivesAsCommanded'
  <2> SUFFICES ASSUME step' = 0 PROVE ccr' = Drive(robot_state)'
    BY DEF DrivesAsCommanded
  <2>1. step = 4 /\ robot_state' = "Idle"
    BY <1>1 DEF StopWrite
  <2> QED BY <2>1, <1>4, <1>7 DEF Drive, Motors, Channels
<1> QED BY <1>5, <1>6, <1>8, <1>9 DEF IInv

LEMMA RightStep == IInv /\ DriveRight => IInv'
<1> SUFFICES ASSUME IInv, DriveRight PROVE IInv'
  OBVIOUS
<1> DEFINE c == Driven(goal, "right")
<1>1. TypeOK /\ goal # "Idle" /\ duty \in UInt16
  BY DEF IInv, DriveRight, Moving, TypeOK
<1>2. c \in Channels /\ Write("right", c, duty)
  BY <1>1, DrivenChannel DEF DriveRight, TypeOK, Motors
<1> HIDE DEF c
<1>3. /\ ccr' \in [Motors -> [Channels -> UInt16]]
      /\ ccr'["right"][c] = duty
      /\ \A n \in Motors, d \in Channels : (n # "right" \/ d # c) => ccr'[n][d] = ccr[n][d]
  BY <1>1, <1>2, WriteOne DEF Motors
<1>4. TypeOK' /\ Moving' /\ DrivesAsCommanded'
  BY <1>1, <1>3 DEF DriveRight, TypeOK, Moving, DrivesAsCommanded
<1>5. \A n \in Motors, d \in Channels : ccr[n][d] = 0
  BY DEF IInv, DriveRight, Cleared, Motors, Channels
<1>6. Cleared'
  BY <1>3, <1>5 DEF DriveRight, Cleared, Motors, Channels
<1>7. HalfDriven'
  BY <1>3, <1>5 DEF DriveRight, HalfDriven, Motors, c
<1> QED BY <1>4, <1>6, <1>7 DEF IInv

LEMMA LeftStep == IInv /\ DriveLeft => IInv'
<1> SUFFICES ASSUME IInv, DriveLeft PROVE IInv'
  OBVIOUS
<1> DEFINE c == Driven(goal, "left")
<1>1. TypeOK /\ goal # "Idle" /\ duty \in UInt16
  BY DEF IInv, DriveLeft, Moving, TypeOK
<1>2. c \in Channels /\ Write("left", c, duty)
  BY <1>1, DrivenChannel DEF DriveLeft, TypeOK, Motors
<1> HIDE DEF c
<1>3. /\ ccr' \in [Motors -> [Channels -> UInt16]]
      /\ ccr'["left"][c] = duty
      /\ \A n \in Motors, d \in Channels : (n # "left" \/ d # c) => ccr'[n][d] = ccr[n][d]
  BY <1>1, <1>2, WriteOne DEF Motors
<1>4. TypeOK' /\ Moving' /\ Cleared' /\ HalfDriven'
  BY <1>1, <1>3 DEF DriveLeft, TypeOK, Moving, Cleared, HalfDriven
<1>5. \A d \in Channels : ccr["left"][d] = 0
  BY DEF IInv, DriveLeft, Cleared, Channels
<1>6. \A d \in Channels : ccr'["left"][d] = IF d = c THEN duty ELSE 0
  BY <1>3, <1>5 DEF Motors
<1>7. \A d \in Channels : ccr'["right"][d] = IF d = Driven(goal, "right") THEN duty ELSE 0
  BY <1>3 DEF IInv, DriveLeft, HalfDriven, Motors
<1>8. \A n \in Motors, d \in Channels : ccr'[n][d] = IF d = Driven(goal, n) THEN duty ELSE 0
  BY <1>6, <1>7 DEF Motors, c
<1>9. DrivesAsCommanded'
  BY <1>1, <1>3, <1>8 DEF DriveLeft, DrivesAsCommanded, Drive
<1> QED BY <1>4, <1>9 DEF IInv

LEMMA InvStep == IInv /\ [Next]_vars => IInv'
<1> SUFFICES ASSUME IInv, [Next]_vars PROVE IInv'
  OBVIOUS
<1>1. CASE Robot_Stop
  BY <1>1, CallStep DEF Robot_Stop, Begin, States, IInv, TypeOK
<1>2. ASSUME NEW move \in Moves, Move(move) PROVE IInv'
  BY <1>2, CallStep, MoveState DEF Move, Begin, IInv, TypeOK
<1>3. ASSUME NEW s \in Speeds, SetSpeed(s[1], s[2]) PROVE IInv'
  BY <1>3, CallStep, SpeedRange DEF SetSpeed, Begin, IInv, TypeOK
<1>4. CASE Writes
  BY <1>4, StopStep, RightStep, LeftStep DEF Writes
<1>5. CASE Robot_Run
  BY <1>5, CallStep DEF Robot_Run, IInv, TypeOK
<1>6. ASSUME NEW m \in Motors, Latch(m) PROVE IInv'
  BY <1>6 DEF Latch, IInv, TypeOK, Moving, Cleared, HalfDriven, DrivesAsCommanded, Drive
<1>7. CASE UNCHANGED vars
  BY <1>7 DEF vars, IInv, TypeOK, Moving, Cleared, HalfDriven, DrivesAsCommanded, Drive
<1> QED BY <1>1, <1>2, <1>3, <1>4, <1>5, <1>6, <1>7 DEF Next

THEOREM Invariance == Spec => []IInv
BY InvInit, InvStep, PTL DEF Spec

\* The registers keep 16-bit values for any two bytes a speed command carries.
THEOREM TypeCorrect == Spec => []TypeOK
<1>1. IInv => TypeOK
  BY DEF IInv
<1> QED BY <1>1, Invariance, PTL

\* Between two commands the registers are those of robot_state and the speed.
THEOREM Drives == Spec => []DrivesAsCommanded
<1>1. IInv => DrivesAsCommanded
  BY DEF IInv
<1> QED BY <1>1, Invariance, PTL

\* Wherever the PWM period ends, no command drives a motor both ways.
THEOREM Opposed == Spec => NeverOpposedAgain
<1>1. IInv /\ [Next]_vars => [AllOneWay => AllOneWay']_vars
  <2> SUFFICES ASSUME IInv, Next, AllOneWay PROVE AllOneWay'
    OBVIOUS
  <2>1. CASE UNCHANGED <<ccr, active>>
    BY <2>1 DEF AllOneWay, OneWay
  <2>2. CASE StopWrite
    <3>1. PICK m \in Motors, c \in Channels : Write(m, c, 0)
      BY <2>2 DEF StopWrite, StopOrder, Motors, Channels
    <3>2. /\ ccr'[m][c] = 0
          /\ \A n \in Motors, d \in Channels : (n # m \/ d # c) => ccr'[n][d] = ccr[n][d]
      BY <3>1, WriteOne, Duties DEF IInv
    <3> QED BY <2>2, <3>2 DEF StopWrite, AllOneWay, OneWay, Channels
  <2>3. CASE DriveRight
    <3>1. IInv'
      BY <2>3, RightStep
    <3>2. step' = 6 /\ active' = active
      BY <2>3 DEF DriveRight
    <3>3. ccr'["right"][3] = 0 \/ ccr'["right"][4] = 0
      BY <3>1, <3>2 DEF IInv, HalfDriven, Channels
    <3>4. ccr'["left"][3] = 0
      BY <3>1, <3>2 DEF IInv, Cleared
    <3> QED BY <3>2, <3>3, <3>4 DEF AllOneWay, OneWay, Motors
  <2>4. CASE DriveLeft
    <3>1. goal \in States \ {"Idle"} /\ duty \in UInt16 /\ active' = active
      BY <2>4 DEF IInv, DriveLeft, Moving, TypeOK
    <3>2. PICK c \in Channels : Write("left", c, duty)
      BY <2>4, <3>1, DrivenChannel DEF DriveLeft, Motors
    <3>3. \A n \in Motors, d \in Channels : (n # "left" \/ d # c) => ccr'[n][d] = ccr[n][d]
      BY <3>1, <3>2, WriteOne DEF IInv, Motors
    <3>4. ccr["left"][3] = 0 /\ ccr["left"][4] = 0
      BY <2>4 DEF IInv, DriveLeft, Cleared
    <3> QED BY <3>1, <3>3, <3>4 DEF AllOneWay, OneWay, Motors, Channels
  <2>5. ASSUME NEW m \in Motors, Latch(m) PROVE AllOneWay'
    BY <2>5 DEF Latch, AllOneWay, OneWay, IInv, TypeOK
  <2> QED BY <2>1, <2>2, <2>3, <2>4, <2>5
      DEF Next, Writes, Robot_Stop, Move, SetSpeed, Robot_Run
<1> QED BY <1>1, Invariance, PTL DEF Spec, NeverOpposedAgain
=============================================================================
