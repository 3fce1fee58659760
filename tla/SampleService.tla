--------------------------- MODULE SampleService ---------------------------
(***************************************************************************)
(* The connection of the robot: sample_service.c and the background task   *)
(* of app_x-cube-ble1.c that runs it.                                      *)
(*                                                                         *)
(* One turn of the main loop is User_Process - connect, discover, notify,  *)
(* button, in this order - and hci_user_evt_proc, which hands user_notify  *)
(* the events that have come in until there are none.  The controller, the *)
(* peer and the user's finger act between any two of these steps, so the   *)
(* flags user_notify sets are always older than the link they describe.    *)
(*                                                                         *)
(* The transport is HciTransport seen from above: events arrive in order,  *)
(* a request takes effect in the controller or fails.  The firmware is     *)
(* built for either role; BLE_Role does not change.                        *)
(***************************************************************************)
EXTENDS Naturals, Sequences

CONSTANTS
  Roles,          (* roles to start with                                     *)
  MaxFailures,    (* bound: requests that fail                               *)
  MaxLinks,       (* bound: connections the peers make                       *)
  MaxEvents       (* bound: events the controller holds                      *)

ASSUME ServiceAssumption ==
  /\ Roles \subseteq {"SERVER", "CLIENT"}
  /\ MaxFailures \in Nat /\ MaxLinks \in Nat /\ MaxEvents \in Nat

Chars == {"tx", "rx"}
Unknown == "unknown"

(* The level of the button's pin: low, "down", while it is held. *)
Levels == {"up", "down"}

(* "refused" is a connection complete event that carries an error status;   *)
(* "move" and "stop" are writes to the RX characteristic, "subscribe" and   *)
(* "unsubscribe" to the configuration of the TX characteristic; the others  *)
(* report a discovered characteristic and the end of a GATT procedure.      *)
EventKinds == {"connected", "refused", "disconnected", "move", "stop",
               "subscribe", "unsubscribe", "tx", "rx", "procedureComplete"}

VARIABLES
  BLE_Role,
  connected, set_connectable, notification_enabled,
  start_read,           (* start_read_tx_char_handle, start_read_rx_char_handle *)
  end_read,             (* end_read_tx_char_handle, end_read_rx_char_handle  *)
  handle,               (* tx_handle and rx_handle: whose handle they hold   *)
  user_button_pressed,
  user_button_init_state, (* the level of the pin when it was last sampled   *)
  key,                  (* the level of the pin                              *)
  moving,               (* the robot drives                                  *)
  pc,                   (* where the main loop is                            *)
  open,                 (* the controller advertises, or looks for the peer  *)
  link,                 (* the connection exists                             *)
  procedure,            (* GATT procedures in progress: at most one          *)
  events,               (* events the application has not seen               *)
  nLinks, nFailures

service == <<connected, set_connectable, notification_enabled, start_read, end_read, handle>>
button == <<user_button_pressed, user_button_init_state, key>>
host == <<BLE_Role, service, button, moving, pc>>
radio == <<open, link, procedure, events, nLinks>>
vars == <<host, radio, nFailures>>

Init ==
  /\ BLE_Role \in Roles
  /\ connected = FALSE /\ set_connectable = TRUE
  /\ notification_enabled = TRUE
  /\ start_read = [c \in Chars |-> FALSE] /\ end_read = [c \in Chars |-> FALSE]
  /\ handle = [c \in Chars |-> Unknown]
  /\ user_button_pressed = FALSE /\ user_button_init_state = "up" /\ key = "up"
  /\ moving = FALSE
  /\ pc = "connect"
  /\ open = FALSE /\ link = FALSE /\ procedure = <<>> /\ events = <<>>
  /\ nLinks = 0 /\ nFailures = 0

-----------------------------------------------------------------------------
(* The controller and the peer, external to the repository. *)

Report(kinds) ==
  /\ Len(events) + Len(kinds) <= MaxEvents
  /\ events' = events \o kinds

Connect ==
  /\ open /\ nLinks < MaxLinks
  /\ open' = FALSE /\ link' = TRUE /\ nLinks' = nLinks + 1
  /\ Report(<<"connected">>)
  /\ UNCHANGED <<host, procedure, nFailures>>

(* The attempt of a central to connect ends in an error. *)
Refuse ==
  /\ open /\ BLE_Role = "CLIENT" /\ nFailures < MaxFailures
  /\ open' = FALSE /\ nFailures' = nFailures + 1
  /\ Report(<<"refused">>)
  /\ UNCHANGED <<host, link, procedure, nLinks>>

(* A procedure cut short may still be reported complete. *)
Disconnect ==
  /\ link
  /\ link' = FALSE /\ procedure' = <<>>
  /\ \/ Report(<<"disconnected">>)
     \/ procedure # <<>> /\ Report(<<"procedureComplete", "disconnected">>)
  /\ UNCHANGED <<host, open, nLinks, nFailures>>

PeerWrites ==
  /\ link /\ BLE_Role = "SERVER"
  /\ \E kind \in {"move", "stop", "subscribe", "unsubscribe"} : Report(<<kind>>)
  /\ UNCHANGED <<host, open, link, procedure, nLinks, nFailures>>

(* Discovery finds the characteristic, or does not; a write has no result. *)
ProcedureEnds ==
  /\ procedure # <<>>
  /\ procedure' = <<>>
  /\ \/ Report(<<"procedureComplete">>)
     \/ procedure[1] \in Chars /\ Report(<<procedure[1], "procedureComplete">>)
  /\ UNCHANGED <<host, open, link, nLinks, nFailures>>

Press ==
  /\ key = "up"
  /\ key' = "down"
  /\ UNCHANGED <<BLE_Role, service, user_button_pressed, user_button_init_state, moving, pc,
                 radio, nFailures>>

(* The button comes up, or its contacts bounce: the interrupt is on the      *)
(* rising edge of the pin (BSP_PB_Init) and calls BSP_PB_Callback.           *)
BSP_PB_Callback ==
  /\ key = "down"
  /\ key' = "up" /\ user_button_pressed' = TRUE
  /\ UNCHANGED <<BLE_Role, service, user_button_init_state, moving, pc, radio, nFailures>>

-----------------------------------------------------------------------------
(* User_Process. *)

(* A request that fails leaves the controller as it is. *)
RequestFails ==
  /\ nFailures < MaxFailures
  /\ nFailures' = nFailures + 1
  /\ UNCHANGED radio

(* The controller starts a GATT procedure if it can. *)
StartProcedure(c) ==
  /\ procedure' = IF link /\ procedure = <<>> THEN <<c>> ELSE procedure
  /\ UNCHANGED <<open, link, events, nLinks, nFailures>>

(* Make_Connection: the request takes effect, or fails, before hci_send_req  *)
(* has its answer.                                                           *)
MakeConnection ==
  /\ pc = "connect"
  /\ IF set_connectable
     THEN /\ \/ RequestFails
             \/ open' = ~link /\ UNCHANGED <<link, procedure, events, nLinks, nFailures>>
          /\ pc' = "connecting"
     ELSE /\ pc' = "discover"
          /\ UNCHANGED <<radio, nFailures>>
  /\ UNCHANGED <<BLE_Role, service, button, moving>>

(* Mutant: set_connectable is reset once a peer has come. *)
MadeConnection_Until ==
  /\ pc = "connecting"
  /\ set_connectable' = ~connected
  /\ user_button_init_state' = key
  /\ pc' = "discover"
  /\ UNCHANGED <<BLE_Role, connected, notification_enabled, start_read, end_read, handle,
                 user_button_pressed, key, moving, radio, nFailures>>

(* Its result, which nobody looks at; then the button is sampled again. *)
MadeConnection ==
  /\ pc = "connecting"
  /\ set_connectable' = FALSE
  /\ user_button_init_state' = key
  /\ pc' = "discover"
  /\ UNCHANGED <<BLE_Role, connected, notification_enabled, start_read, end_read, handle,
                 user_button_pressed, key, moving, radio, nFailures>>

(* startReadTXCharHandle and startReadRXCharHandle. *)
StartRead(c) ==
  /\ IF start_read[c]
     THEN UNCHANGED <<radio, nFailures>>
     ELSE RequestFails \/ StartProcedure(c)
  /\ start_read' = [start_read EXCEPT ![c] = TRUE]

Discover ==
  /\ pc = "discover"
  /\ CASE BLE_Role = "CLIENT" /\ connected /\ ~end_read["tx"] -> StartRead("tx")
       [] BLE_Role = "CLIENT" /\ connected /\ end_read["tx"] /\ ~end_read["rx"] -> StartRead("rx")
       [] OTHER -> UNCHANGED <<start_read, radio, nFailures>>
  /\ pc' = "notify"
  /\ UNCHANGED <<BLE_Role, connected, set_connectable, notification_enabled, end_read, handle,
                 button, moving>>

(* enableNotification gives up in the end, and takes it as done. *)
EnableNotification ==
  /\ pc = "notify"
  /\ IF BLE_Role = "CLIENT" /\ connected /\ end_read["tx"] /\ end_read["rx"]
        /\ ~notification_enabled
     THEN /\ RequestFails \/ StartProcedure("write")
          /\ notification_enabled' = TRUE
     ELSE UNCHANGED <<notification_enabled, radio, nFailures>>
  /\ pc' = "button"
  /\ UNCHANGED <<BLE_Role, connected, set_connectable, start_read, end_read, handle,
                 button, moving>>

(* The button, debounced: if it has been pressed, the loop waits for the      *)
(* level it sampled last, and goes on to sendData if somebody listens.        *)
Button ==
  /\ pc = "button"
  /\ user_button_pressed => key = user_button_init_state
  /\ IF user_button_pressed /\ connected /\ notification_enabled
     THEN pc' = "send" /\ UNCHANGED user_button_pressed
     ELSE pc' = "events" /\ user_button_pressed' = FALSE
  /\ UNCHANGED <<BLE_Role, service, user_button_init_state, key, moving, radio, nFailures>>

(* sendData changes nothing in the host, and nothing of radio that matters. *)
SendData ==
  /\ pc = "send"
  /\ user_button_pressed' = FALSE
  /\ pc' = "events"
  /\ UNCHANGED <<BLE_Role, service, user_button_init_state, key, moving, radio, nFailures>>

-----------------------------------------------------------------------------
(* hci_user_evt_proc: Robot_ParseCommand and user_notify, event by event. *)

(* The status of the event is not looked at. *)
GAP_ConnectionComplete_CB(kind) ==
  /\ kind \in {"connected", "refused"}
  /\ connected' = TRUE
  /\ UNCHANGED <<set_connectable, notification_enabled, start_read, end_read, handle, moving>>

(* Mutant: the disconnection does not stop the robot. *)
Robot_Stop_Not == UNCHANGED moving

Robot_Stop == moving' = FALSE

(* Mutant: a discovery is not started anew. *)
ForgetDiscovery_Ends ==
  /\ UNCHANGED start_read
  /\ end_read' = [c \in Chars |-> FALSE]

ForgetDiscovery ==
  /\ start_read' = [c \in Chars |-> FALSE]
  /\ end_read' = [c \in Chars |-> FALSE]

GAP_DisconnectionComplete_CB(kind) ==
  /\ kind = "disconnected"
  /\ Robot_Stop
  /\ connected' = FALSE
  /\ set_connectable' = TRUE
  /\ notification_enabled' = FALSE
  /\ ForgetDiscovery
  /\ UNCHANGED handle

Robot_ParseCommand(kind) ==
  /\ kind \in {"move", "stop"}
  /\ moving' = (kind = "move")
  /\ UNCHANGED service

Attribute_Modified_CB(kind) ==
  /\ kind \in {"subscribe", "unsubscribe"}
  /\ notification_enabled' = (notification_enabled \/ kind = "subscribe")
  /\ UNCHANGED <<connected, set_connectable, start_read, end_read, handle, moving>>

(* Mutant: the end of the first discovery is not tested. *)
Reading_Started(c) == start_read[c]

(* The characteristic the flags say is being discovered. *)
Reading(c) ==
  /\ start_read[c] /\ ~end_read[c]
  /\ c = "rx" => ~(start_read["tx"] /\ ~end_read["tx"])

(* Mutant: the end of a procedure is taken for its answer. *)
CharacteristicFound_End(kind) ==
  /\ kind \in Chars \cup {"procedureComplete"}
  /\ handle' = [c \in Chars |-> IF BLE_Role = "CLIENT" /\ Reading(c) THEN kind ELSE handle[c]]
  /\ UNCHANGED <<connected, set_connectable, notification_enabled, start_read, end_read, moving>>

CharacteristicFound(kind) ==
  /\ kind \in Chars
  /\ handle' = [c \in Chars |-> IF BLE_Role = "CLIENT" /\ Reading(c) THEN kind ELSE handle[c]]
  /\ UNCHANGED <<connected, set_connectable, notification_enabled, start_read, end_read, moving>>

ProcedureComplete(kind) ==
  /\ kind = "procedureComplete"
  /\ end_read' = [c \in Chars |-> end_read[c] \/ (BLE_Role = "CLIENT" /\ Reading(c))]
  /\ UNCHANGED <<connected, set_connectable, notification_enabled, start_read, handle, moving>>

UserEvtRx ==
  /\ pc = "events" /\ events # <<>>
  /\ events' = Tail(events)
  /\ LET kind == Head(events) IN
       \/ GAP_ConnectionComplete_CB(kind)
       \/ GAP_DisconnectionComplete_CB(kind)
       \/ Robot_ParseCommand(kind)
       \/ Attribute_Modified_CB(kind)
       \/ CharacteristicFound(kind)
       \/ ProcedureComplete(kind)
  /\ UNCHANGED <<BLE_Role, button, pc, open, link, procedure, nLinks, nFailures>>

(* Mutant: set_connectable is reset at the end of the turn. *)
EventsDone_Resets ==
  /\ pc = "events" /\ events = <<>>
  /\ set_connectable' = FALSE
  /\ pc' = "connect"
  /\ UNCHANGED <<BLE_Role, connected, notification_enabled, start_read, end_read, handle,
                 button, moving, radio, nFailures>>

EventsDone ==
  /\ pc = "events" /\ events = <<>>
  /\ pc' = "connect"
  /\ UNCHANGED <<BLE_Role, service, button, moving, radio, nFailures>>

-----------------------------------------------------------------------------
UserProcess ==
  \/ MakeConnection \/ MadeConnection \/ Discover \/ EnableNotification
  \/ Button \/ SendData

MX_BlueNRG_MS_Process == UserProcess \/ UserEvtRx \/ EventsDone

Controller == Connect \/ Refuse \/ Disconnect \/ PeerWrites \/ ProcedureEnds

Next == MX_BlueNRG_MS_Process \/ Controller \/ Press \/ BSP_PB_Callback

(* The main loop turns as long as it does not wait for the button, which a  *)
(* user lets go of but need not press; the wait samples the pin faster than *)
(* a finger moves.  A GATT procedure ends, by its own timeout if need be.   *)
(* The peer need not come, act or stay.                                     *)
Fairness ==
  /\ WF_vars(MX_BlueNRG_MS_Process) /\ SF_vars(Button) /\ WF_vars(BSP_PB_Callback)
  /\ WF_vars(ProcedureEnds)

Spec == Init /\ [][Next]_vars /\ Fairness

-----------------------------------------------------------------------------
(* Properties. *)

\* The flags are Boolean, the handles hold what discovery may have found.
TypeOK ==
  /\ BLE_Role \in {"SERVER", "CLIENT"}
  /\ connected \in BOOLEAN /\ set_connectable \in BOOLEAN /\ notification_enabled \in BOOLEAN
  /\ start_read \in [Chars -> BOOLEAN] /\ end_read \in [Chars -> BOOLEAN]
  /\ handle \in [Chars -> Chars \cup {Unknown}]
  /\ user_button_pressed \in BOOLEAN /\ user_button_init_state \in Levels /\ key \in Levels
  /\ moving \in BOOLEAN
  /\ pc \in {"connect", "connecting", "discover", "notify", "button", "send", "events"}
  /\ open \in BOOLEAN /\ link \in BOOLEAN
  /\ procedure \in Seq(Chars \cup {"write"}) /\ Len(procedure) <= 1
  /\ events \in Seq(EventKinds)
  /\ nLinks \in Nat /\ nFailures \in Nat

Pending(kind) == \E i \in DOMAIN events : events[i] = kind

\* The two discoveries answer with the same events, told apart only by four
\* flags: neither handle ever gets the other's value, over reconnections,
\* failed requests and procedures cut short.
HandlesMatch == \A c \in Chars : handle[c] \in {c, Unknown}

\* The robot drives on behalf of a peer the host believes connected: a command
\* sent before the link was lost is not obeyed after the loss is handled.
MovingOnlyWhenConnected == moving => connected

\* With no link, none on its way and no report of its loss to come, the host
\* knows it has to open one, unless a request failed.
LossIsKnown ==
  ~link /\ ~open /\ ~Pending("disconnected") /\ nFailures = 0 => set_connectable

(* The button was held when it was sampled: the main loop, to "wait until   *)
(* the User Button is released", waits for it to be pressed once more.       *)
AwaitsPress ==
  pc = "button" /\ user_button_pressed /\ user_button_init_state = "down" /\ key = "up"

\* A client discovers both characteristics of a peer that stays, whatever was
\* left unfinished with an earlier one, unless the button holds the main loop up.
DiscoveryCompletes ==
  (BLE_Role = "CLIENT" /\ link) ~>
    (~link \/ (end_read["tx"] /\ end_read["rx"]) \/ nFailures > 0 \/ AwaitsPress)
=============================================================================
