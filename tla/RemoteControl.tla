---------------------------- MODULE RemoteControl ----------------------------
(***************************************************************************)
(* The remote control of the Android app, RemoteControlActivity.java.      *)
(*                                                                         *)
(* Two threads share the fields of the activity: the touch listeners run   *)
(* on the UI thread, the GATT callbacks on a binder thread.  A listener    *)
(* looks at connection first and uses customCharacteristic and             *)
(* bluetoothGatt afterwards, one statement at a time; a callback may run   *)
(* between any two.  prevState belongs to the UI thread alone.             *)
(*                                                                         *)
(* Android sends one characteristic at a time: writeCharacteristic returns *)
(* false while a write is under way, when there is no connection, and when *)
(* the characteristic has no value.  Nobody looks at what it returns.      *)
(*                                                                         *)
(* A null dereference ends the app when it happens on the UI thread.  The  *)
(* stack catches what a callback throws, be it that or a view that refuses *)
(* the binder thread, and the rest of the callback does not run.           *)
(*                                                                         *)
(* connectGatt opens a client of the stack and returns it; the stack may   *)
(* call the new client back before bluetoothGatt has been assigned.        *)
(***************************************************************************)
EXTENDS Naturals, Sequences, FiniteSets

CONSTANTS
  Buttons,      (* buttons there are                                         *)
  MaxTouches,   (* bound: presses of the user                                *)
  MaxLosses,    (* bound: connections lost                                   *)
  MaxFailures   (* bound: discoveries that find no service, exceptions of    *)
                (* views in callbacks, calls of connectGatt that return null *)

ASSUME RemoteAssumption ==
  /\ Buttons \subseteq {"Forward", "Reverse", "Right", "Left"}
  /\ MaxTouches \in Nat /\ MaxLosses \in Nat /\ MaxFailures \in Nat

(* Buttons whose command is repeated when a turn ends. *)
Straight == {"Forward", "Reverse"}

null == "null"

(* Each button has its command; "Idle" stands for @M00, "Speed" for @Snn. *)
Commands == Buttons \cup {"Idle", "Speed"}

VARIABLES
  robot,                  (* a device has been given to the activity         *)
  connection,
  bluetoothGatt,          (* null, or a client of the Bluetooth stack        *)
  customCharacteristic,   (* null, or the value it holds                     *)
  prevState,
  touch,                  (* the listener that runs: at most one             *)
  callback,               (* the callback that runs: at most one             *)
  crashed,
  callbacks,              (* callbacks the stack is to make                  *)
  client,                 (* the stack has a client open                     *)
  assigning,              (* who has called connectGatt and not yet assigned *)
                          (* what it returned: "no", "create", "reconnect"   *)
  created,                (* onCreate has returned                           *)
  early,                  (* a callback came before the assignment: at :139  *)
                          (* it found null, and nothing was discovered       *)
  link,                   (* the robot is connected                          *)
  discovering,            (* a discovery is under way                        *)
  busy,                   (* a write is under way                            *)
  air,                    (* commands on their way to the robot              *)
  driving,                (* the movement the robot was last told            *)
  held,                   (* buttons under the user's fingers                *)
  missed,                 (* buttons let go without the app acting on it     *)
  refused,                (* the last movement command was not sent          *)
  nTouches, nLosses, nFailures

fields == <<robot, connection, bluetoothGatt, customCharacteristic>>
ui == <<prevState, touch, crashed, held, missed, refused, nTouches>>
opening == <<client, assigning, created, early>>
binder == <<callback, callbacks, opening>>
radio == <<link, discovering, busy, air, driving, nLosses>>
stack == <<radio, nFailures>>
remoteVars == <<fields, ui, binder, stack>>

NoValue == "no value"

(* onCreate, with a device or without.  connectGatt has been called; the    *)
(* first setProgress found no robot.                                        *)
OnCreate(given) ==
  /\ robot = given
  /\ connection = FALSE /\ bluetoothGatt = null /\ customCharacteristic = null
  /\ prevState = "Idle"
  /\ touch = <<>> /\ callback = <<>> /\ callbacks = <<>> /\ crashed = FALSE
  /\ created = ~given /\ assigning = (IF given THEN "create" ELSE "no") /\ early = FALSE
  /\ \/ client = given /\ nFailures = 0
     \/ given /\ client = FALSE /\ MaxFailures > 0 /\ nFailures = 1
  /\ link = FALSE /\ discovering = FALSE /\ busy = FALSE
  /\ air = <<>> /\ driving = "Idle"
  /\ held = {} /\ missed = {} /\ refused = FALSE
  /\ nTouches = 0 /\ nLosses = 0

Init == \E given \in BOOLEAN : OnCreate(given)

-----------------------------------------------------------------------------
(* connectGatt has returned: the client, or null. *)
Assign ==
  /\ ~crashed /\ assigning # "no"
  /\ bluetoothGatt' = IF client THEN "client" ELSE null
  /\ assigning' = "no"
  /\ UNCHANGED <<robot, connection, customCharacteristic, ui, callback, callbacks,
                 client, created, early, stack>>

(* The rest of onCreate, whatever the callbacks have done by then. *)
CreateEnds ==
  /\ ~created /\ assigning = "no"
  /\ connection' = TRUE
  /\ created' = TRUE
  /\ UNCHANGED <<robot, bluetoothGatt, customCharacteristic, ui, callback, callbacks,
                 client, assigning, early, stack>>

-----------------------------------------------------------------------------
(* The listeners, on the UI thread. *)

UiRuns == created /\ ~crashed

(* Mutant: every release resumes prevState. *)
CommandOf_Resumes(button, action) == IF action = "down" THEN button ELSE prevState

(* What a listener writes: a button its own command when it goes down; when  *)
(* it comes up Forward and Reverse stop, Right and Left resume prevState.    *)
CommandOf(button, action) ==
  CASE action = "down" -> button
    [] action = "up" /\ button \in Straight -> "Idle"
    [] action = "up" /\ button \notin Straight -> prevState

Listen(button, action) ==
  touch' = <<[button |-> button, action |-> action, at |-> "check",
              command |-> CommandOf(button, action)]>>

Press(button) ==
  /\ UiRuns /\ touch = <<>>
  /\ button \notin held /\ nTouches < MaxTouches
  /\ nTouches' = nTouches + 1
  /\ held' = held \cup {button} /\ missed' = missed \ {button}
  /\ Listen(button, "down")
  /\ UNCHANGED <<fields, binder, stack, prevState, crashed, refused>>

LetGo(button) ==
  /\ UiRuns /\ touch = <<>>
  /\ button \in held
  /\ held' = held \ {button}
  /\ Listen(button, "up")
  /\ UNCHANGED <<fields, binder, stack, prevState, crashed, missed, refused, nTouches>>

(* The window loses the touch: ACTION_CANCEL, which no listener handles. *)
Cancel(button) ==
  /\ UiRuns /\ touch = <<>>
  /\ button \in held
  /\ held' = held \ {button} /\ missed' = missed \cup {button}
  /\ UNCHANGED <<fields, binder, stack, prevState, touch, crashed, refused, nTouches>>

(* The slider: guarded by robot, not by connection. *)
Slide ==
  /\ UiRuns /\ touch = <<>>
  /\ nTouches < MaxTouches
  /\ nTouches' = nTouches + 1
  /\ touch' = IF robot
              THEN <<[button |-> "Slider", action |-> "slide", at |-> "set", command |-> "Speed"]>>
              ELSE <<>>
  /\ UNCHANGED <<fields, binder, stack, prevState, crashed, held, missed, refused>>

TouchAt(place) == UiRuns /\ touch # <<>> /\ touch[1].at = place

(* Without a connection a listener does nothing. *)
CheckConnection ==
  /\ TouchAt("check")
  /\ IF connection
     THEN /\ touch' = <<[touch[1] EXCEPT !.at = "set"]>>
          /\ UNCHANGED missed
     ELSE /\ touch' = <<>>
          /\ missed' = IF touch[1].action = "up" THEN missed \cup {touch[1].button} ELSE missed
  /\ UNCHANGED <<fields, binder, stack, prevState, crashed, held, refused, nTouches>>

Crash ==
  /\ crashed' = TRUE
  /\ touch' = <<>>
  /\ UNCHANGED <<fields, binder, stack, prevState, held, missed, refused, nTouches>>

SetValue ==
  /\ TouchAt("set")
  /\ IF customCharacteristic = null
     THEN Crash
     ELSE /\ customCharacteristic' = touch[1].command
          /\ touch' = <<[touch[1] EXCEPT !.at = "write"]>>
          /\ UNCHANGED <<robot, connection, bluetoothGatt, binder, stack, prevState, crashed, held,
                         missed, refused, nTouches>>

(* Mutant: the release of Forward or Reverse leaves prevState alone. *)
NextState_DownOnly(t) ==
  IF t.button \in Straight /\ t.action = "down" THEN t.button ELSE prevState

(* Mutant: Right and Left are remembered too. *)
NextState_Any(t) == IF t.action = "down" THEN t.button ELSE "Idle"

(* Only Forward and Reverse are remembered. *)
NextState(t) ==
  IF t.button \in Straight
  THEN (IF t.action = "down" THEN t.button ELSE "Idle")
  ELSE prevState

(* writeCharacteristic takes the value the characteristic has by then. *)
WriteCharacteristic ==
  /\ TouchAt("write")
  /\ IF bluetoothGatt = null \/ customCharacteristic = null
     THEN Crash
     ELSE LET accepted == link /\ ~busy /\ customCharacteristic # NoValue
          IN  /\ busy' = (busy \/ accepted)
              /\ air' = IF accepted THEN Append(air, customCharacteristic) ELSE air
              /\ refused' = IF touch[1].command = "Speed" THEN refused ELSE ~accepted
              /\ prevState' = NextState(touch[1])
              /\ touch' = <<>>
              /\ UNCHANGED <<fields, binder, link, discovering, driving, nLosses, nFailures,
                             crashed, held, missed, nTouches>>

Listener == CheckConnection \/ SetValue \/ WriteCharacteristic

User ==
  \/ \E button \in Buttons : Press(button) \/ LetGo(button) \/ Cancel(button)
  \/ Slide

-----------------------------------------------------------------------------
(* The callbacks, on the binder thread. *)

BinderRuns == ~crashed

TakeCallback ==
  /\ BinderRuns /\ callback = <<>> /\ callbacks # <<>>
  /\ callback' = <<Head(callbacks)>> /\ callbacks' = Tail(callbacks)
  /\ UNCHANGED <<fields, ui, opening, stack>>

CallbackAt(place) == BinderRuns /\ callback = <<place>>

(* A callback fails: views belong to the UI thread, and connectGatt needs *)
(* the adapter.                                                           *)
Fails == nFailures < MaxFailures /\ nFailures' = nFailures + 1

(* STATE_CONNECTED: writes the title, and starts the discovery of the client *)
(* bluetoothGatt holds.                                                      *)
OnConnected ==
  /\ CallbackAt("connected")
  /\ robot' = TRUE
  /\ \/ /\ discovering' = (discovering \/ (bluetoothGatt # null /\ link))
        /\ early' = (early \/ bluetoothGatt = null)
        /\ UNCHANGED nFailures
     \/ Fails /\ UNCHANGED <<discovering, early>>
  /\ callback' = <<>>
  /\ UNCHANGED <<connection, bluetoothGatt, customCharacteristic, ui, callbacks,
                 client, assigning, created, link, busy, air, driving, nLosses>>

(* STATE_DISCONNECTED: writes the title, connection is reset, ... *)
OnDisconnected ==
  /\ CallbackAt("disconnected")
  /\ robot' = TRUE
  /\ \/ connection' = FALSE /\ callback' = <<"close">> /\ UNCHANGED nFailures
     \/ Fails /\ callback' = <<>> /\ UNCHANGED connection
  /\ UNCHANGED <<bluetoothGatt, customCharacteristic, ui, callbacks, opening, radio>>

(* ... the client is closed and forgotten, if there is one, ... *)
CloseGatt ==
  /\ CallbackAt("close")
  /\ bluetoothGatt' = null
  /\ IF bluetoothGatt = null
     THEN callback' = <<>> /\ UNCHANGED client
     ELSE callback' = <<"reconnect">> /\ client' = FALSE
  /\ UNCHANGED <<robot, connection, customCharacteristic, ui, callbacks,
                 assigning, created, early, stack>>

(* Mutant: the activity does not try to reconnect. *)
Reconnect_Not ==
  /\ CallbackAt("reconnect")
  /\ callback' = <<>>
  /\ UNCHANGED <<fields, ui, callbacks, opening, stack>>

(* ... and a new one opened, which connects when the robot is in reach and   *)
(* may be called back, on another thread, while this one is about to assign. *)
Reconnect ==
  /\ CallbackAt("reconnect")
  /\ \/ client' = TRUE /\ UNCHANGED nFailures
     \/ Fails /\ UNCHANGED client
  /\ assigning' = "reconnect"
  /\ callback' = <<>>
  /\ UNCHANGED <<fields, ui, callbacks, created, early, radio>>

(* onServicesDiscovered with no such service: a null dereference; with no *)
(* such characteristic: null, and no more.                                *)
OnServicesMissing ==
  /\ CallbackAt("missing")
  /\ \/ UNCHANGED customCharacteristic
     \/ customCharacteristic' = null
  /\ callback' = <<>>
  /\ UNCHANGED <<robot, connection, bluetoothGatt, ui, callbacks, opening, stack>>

(* A message on the screen comes before either assignment. *)
OnServicesDiscovered ==
  \/ /\ CallbackAt("discovered")
     /\ customCharacteristic' = NoValue
     /\ callback' = <<"established">>
     /\ UNCHANGED <<robot, connection, bluetoothGatt, ui, callbacks, opening, stack>>
  \/ /\ CallbackAt("established")
     /\ connection' = TRUE
     /\ callback' = <<>>
     /\ UNCHANGED <<robot, bluetoothGatt, customCharacteristic, ui, callbacks, opening, stack>>
  \/ /\ CallbackAt("discovered") \/ CallbackAt("established")
     /\ Fails
     /\ callback' = <<>>
     /\ UNCHANGED <<fields, ui, callbacks, opening, radio>>

Callback ==
  \/ TakeCallback
  \/ OnConnected \/ OnDisconnected \/ CloseGatt \/ Reconnect
  \/ OnServicesMissing \/ OnServicesDiscovered

-----------------------------------------------------------------------------
(* The Bluetooth stack of Android and the robot, external to this module. *)

(* An open client connects when the robot is in reach, as often as it takes  *)
(* (autoConnect), after the callback that says the link was lost.            *)
LinkUp ==
  /\ ~crashed /\ client /\ ~link
  /\ callback = <<>> /\ callbacks = <<>>
  /\ link' = TRUE
  /\ callbacks' = <<"connected">>
  /\ UNCHANGED <<fields, ui, callback, opening, discovering, busy, air, driving, nLosses,
                 nFailures>>

(* The firmware stops the robot when the link is lost. *)
LinkDown ==
  /\ ~crashed /\ link /\ nLosses < MaxLosses
  /\ nLosses' = nLosses + 1
  /\ link' = FALSE /\ discovering' = FALSE /\ busy' = FALSE
  /\ air' = <<>> /\ driving' = "Idle"
  /\ callbacks' = Append(callbacks, "disconnected")
  /\ UNCHANGED <<fields, ui, callback, opening, nFailures>>

DiscoveryEnds ==
  /\ ~crashed /\ discovering
  /\ discovering' = FALSE
  /\ \/ callbacks' = Append(callbacks, "discovered") /\ UNCHANGED nFailures
     \/ /\ nFailures < MaxFailures
        /\ nFailures' = nFailures + 1
        /\ callbacks' = Append(callbacks, "missing")
  /\ UNCHANGED <<fields, ui, callback, opening, link, busy, air, driving, nLosses>>

WriteEnds ==
  /\ ~crashed /\ busy
  /\ busy' = FALSE
  /\ UNCHANGED <<fields, ui, binder, link, discovering, air, driving, nLosses, nFailures>>

RobotObeys ==
  /\ air # <<>>
  /\ air' = Tail(air)
  /\ driving' = IF Head(air) = "Speed" THEN driving ELSE Head(air)
  /\ UNCHANGED <<fields, ui, binder, link, discovering, busy, nLosses, nFailures>>

Bluetooth == LinkUp \/ LinkDown \/ DiscoveryEnds \/ WriteEnds \/ RobotObeys

-----------------------------------------------------------------------------
RemoteNext == Assign \/ CreateEnds \/ User \/ Listener \/ Callback \/ Bluetooth

(* The threads run; a robot in reach is connected and discovered. *)
RemoteFairness ==
  /\ WF_remoteVars(Assign) /\ WF_remoteVars(CreateEnds)
  /\ WF_remoteVars(Listener) /\ WF_remoteVars(Callback)
  /\ WF_remoteVars(LinkUp) /\ WF_remoteVars(DiscoveryEnds)

Spec == Init /\ [][RemoteNext]_remoteVars /\ RemoteFairness

-----------------------------------------------------------------------------
(* Properties. *)

TypeOK ==
  /\ robot \in BOOLEAN /\ connection \in BOOLEAN /\ crashed \in BOOLEAN
  /\ client \in BOOLEAN /\ created \in BOOLEAN /\ early \in BOOLEAN
  /\ assigning \in {"no", "create", "reconnect"}
  /\ bluetoothGatt \in {null, "client"}
  /\ customCharacteristic \in Commands \cup {null, NoValue}
  /\ prevState \in (Buttons \cap Straight) \cup {"Idle"}
  /\ Len(touch) <= 1 /\ Len(callback) <= 1
  /\ held \subseteq Buttons /\ missed \subseteq Buttons
  /\ \A i \in DOMAIN air : air[i] \in Commands
  /\ driving \in Commands \ {"Speed"}
  /\ nFailures \in Nat

\* prevState, which the release of Right and Left repeats, names a button the
\* user holds, or one whose release the app missed: a cancelled touch, or a
\* release while the link was lost.
PrevStateIsHeld ==
  touch = <<>> /\ ~crashed /\ prevState # "Idle" => prevState \in held \cup missed

(* The last movement the robot was told, or is about to be told, is c. *)
LastMovement(c) ==
  \/ driving = c /\ \A i \in DOMAIN air : air[i] = "Speed"
  \/ /\ c # "Speed"
     /\ \E i \in DOMAIN air : /\ air[i] = c
                             /\ \A j \in DOMAIN air : j > i => air[j] = "Speed"

\* With no finger on a button the robot has been told to stop, however the
\* buttons were combined, unless a release was missed or a write refused.
ReleasedIsStopped ==
  held = {} /\ touch = <<>> /\ missed = {} /\ ~refused /\ ~crashed =>
    LastMovement("Idle")

\* A listener finds a null only where no discovery has found the robot's
\* characteristic, in the window of a lost link in which the callback has closed
\* one client and not yet assigned the next, or where connectGatt gave none:
\* nowhere else does it crash.
CrashIsEarlyOrReconnecting ==
  crashed => \/ customCharacteristic = null
             \/ callback = <<"reconnect">> \/ assigning # "no"
             \/ ~client /\ nFailures > 0

\* RemoteControlActivity.java:155, "Try to reconnect": the app gets its robot
\* back when a link was lost, unless a discovery or a callback failed, or the
\* client was connected before bluetoothGatt had been assigned.
Reconnects == (robot /\ ~connection) ~> (connection \/ crashed \/ early \/ nFailures > 0)
=============================================================================
