----------------------------- MODULE DeviceScan -----------------------------
(***************************************************************************)
(* The first screen of the Android app, MainActivity.java with its list of *)
(* devices, LeDeviceListAdapter.java.                                      *)
(*                                                                         *)
(* A scan is ended by a delayed stop, posted when it starts and never      *)
(* withdrawn, or by the click on a device.  A click opens a client of the  *)
(* Bluetooth stack; clients are never closed, so the callbacks of several  *)
(* may come while the fields robotDevice and bluetoothGatt hold only the   *)
(* last.  Presses, clicks, scan results and delayed stops run on the UI    *)
(* thread one after the other; GATT callbacks run on a binder thread, and  *)
(* one may come before connectGatt has returned to the click.              *)
(***************************************************************************)
EXTENDS Naturals, Sequences, FiniteSets

CONSTANTS
  Devices,      (* devices whose name passes the filter                      *)
  MaxPresses,   (* bound: presses of the scan button                         *)
  MaxClicks,    (* bound: clicks on a device                                 *)
  MaxOpened     (* bound: control screens opened                             *)

ASSUME ScanAssumption == MaxPresses \in Nat /\ MaxClicks \in Nat /\ MaxOpened \in Nat

null == "null"
NoClient == 0

VARIABLES
  mScanning,
  mLeDeviceList,   (* the devices listed, each perhaps many times            *)
  robotDevice,     (* null, or the device clicked last                       *)
  bluetoothGatt,   (* the number of the client of the last click, or none    *)
  stops,           (* delayed stops that are pending                         *)
  click,           (* the click whose connectGatt has not returned           *)
  front,           (* the screen the user sees                               *)
  opened,          (* the control screens opened: for which robot, and by    *)
                   (* the discovery of which client (NoClient: by the menu)  *)
  scanner,         (* the stack scans                                        *)
  clients,         (* clients of the stack: their device and state           *)
  callbacks,       (* callbacks the stack is to make                         *)
  nPresses

screen == <<mScanning, mLeDeviceList, robotDevice, bluetoothGatt, stops, click, front, opened>>
stack == <<scanner, clients, callbacks>>
vars == <<screen, stack, nPresses>>

Numbers == 1 .. MaxClicks
ClientStates == {"connecting", "connected", "discovering", "gone"}
CallbackKinds == {"connected", "disconnected", "discovered", "missing"}

Init ==
  /\ mScanning = FALSE /\ mLeDeviceList = {}
  /\ robotDevice = null /\ bluetoothGatt = NoClient
  /\ stops = 0 /\ click = <<>> /\ front = "devices" /\ opened = <<>>
  /\ scanner = FALSE /\ clients = <<>> /\ callbacks = <<>>
  /\ nPresses = 0

-----------------------------------------------------------------------------
(* The UI thread. *)

UserSees(place) == front = place /\ click = <<>>

(* onScanPress and scanLeDevice(true). *)
OnScanPress ==
  /\ UserSees("devices") /\ nPresses < MaxPresses
  /\ nPresses' = nPresses + 1
  /\ IF mScanning
     THEN UNCHANGED <<mScanning, stops, scanner>>
     ELSE /\ stops' = stops + 1
          /\ mScanning' = TRUE
          /\ scanner' = TRUE
  /\ UNCHANGED <<mLeDeviceList, robotDevice, bluetoothGatt, click, front, opened, clients, callbacks>>

(* Mutant: the delayed stop leaves the flag. *)
DelayedStop_KeepsFlag ==
  /\ click = <<>> /\ stops > 0
  /\ stops' = stops - 1
  /\ scanner' = FALSE
  /\ UNCHANGED <<mScanning, mLeDeviceList, robotDevice, bluetoothGatt, click, front, opened, clients,
                 callbacks, nPresses>>

(* The stop of a scan that a click has ended ends the scan after it. *)
DelayedStop ==
  /\ click = <<>> /\ stops > 0
  /\ stops' = stops - 1
  /\ mScanning' = FALSE
  /\ scanner' = FALSE
  /\ UNCHANGED <<mLeDeviceList, robotDevice, bluetoothGatt, click, front, opened, clients, callbacks,
                 nPresses>>

(* Mutant: the device found last is the robot. *)
OnScanResult_Selects(device) ==
  /\ scanner /\ click = <<>>
  /\ mLeDeviceList' = mLeDeviceList \cup {device}
  /\ robotDevice' = device
  /\ UNCHANGED <<mScanning, bluetoothGatt, stops, click, front, opened, stack, nPresses>>

OnScanResult(device) ==
  /\ scanner /\ click = <<>>
  /\ mLeDeviceList' = mLeDeviceList \cup {device}
  /\ UNCHANGED <<mScanning, robotDevice, bluetoothGatt, stops, click, front, opened, stack, nPresses>>

(* onItemClick: the client exists before the activity has got it, ... *)
OnItemClick(device) ==
  /\ UserSees("devices") /\ device \in mLeDeviceList
  /\ Len(clients) < MaxClicks
  /\ robotDevice' = device
  /\ clients' = Append(clients, [device |-> device, state |-> "connecting"])
  /\ click' = <<Len(clients) + 1>>
  /\ UNCHANGED <<mScanning, mLeDeviceList, bluetoothGatt, stops, front, opened, scanner, callbacks,
                 nPresses>>

(* Mutant: the scan goes on when its flag is reset. *)
ConnectGattReturns_FlagOnly ==
  /\ click # <<>>
  /\ bluetoothGatt' = click[1]
  /\ click' = <<>>
  /\ mScanning' = FALSE
  /\ UNCHANGED <<mLeDeviceList, robotDevice, stops, front, opened, stack, nPresses>>

(* Mutant: the click withdraws the stop of the scan it ends. *)
ConnectGattReturns_Withdraws ==
  /\ click # <<>>
  /\ bluetoothGatt' = click[1]
  /\ click' = <<>>
  /\ mScanning' = FALSE
  /\ scanner' = FALSE
  /\ stops' = stops - 1
  /\ UNCHANGED <<mLeDeviceList, robotDevice, front, opened, clients, callbacks, nPresses>>

(* ... then scanLeDevice(false). *)
ConnectGattReturns ==
  /\ click # <<>>
  /\ bluetoothGatt' = click[1]
  /\ click' = <<>>
  /\ mScanning' = FALSE
  /\ scanner' = FALSE
  /\ UNCHANGED <<mLeDeviceList, robotDevice, stops, front, opened, clients, callbacks, nPresses>>

Open(n) ==
  /\ opened' = Append(opened, [robot |-> robotDevice, by |-> n])
  /\ front' = "control"

(* onOptionsItemSelected, with or without a robot. *)
MenuControl ==
  /\ UserSees("devices") /\ Len(opened) < MaxOpened
  /\ Open(NoClient)
  /\ UNCHANGED <<mScanning, mLeDeviceList, robotDevice, bluetoothGatt, stops, click, stack, nPresses>>

Back ==
  /\ UserSees("control")
  /\ front' = "devices"
  /\ UNCHANGED <<mScanning, mLeDeviceList, robotDevice, bluetoothGatt, stops, click, opened, stack,
                 nPresses>>

UI ==
  \/ OnScanPress \/ DelayedStop \/ ConnectGattReturns \/ MenuControl \/ Back
  \/ \E device \in Devices : OnScanResult(device) \/ OnItemClick(device)

-----------------------------------------------------------------------------
(* The GATT callbacks, on the binder thread. *)

Called(kind, n) == callbacks # <<>> /\ Head(callbacks) = <<kind, n>>

CallbackEnds == callbacks' = Tail(callbacks)

(* discoverServices is asked of the client the field holds, which need not  *)
(* be the one that has connected; a null is a dereference the stack catches. *)
OnConnected(n) ==
  /\ Called("connected", n) /\ CallbackEnds
  /\ clients' = [k \in DOMAIN clients |->
                   IF k = bluetoothGatt /\ clients[k].state = "connected"
                   THEN [clients[k] EXCEPT !.state = "discovering"] ELSE clients[k]]
  /\ UNCHANGED <<screen, scanner, nPresses>>

(* A lost link is only reported to the user.  A service that is not found,  *)
(* and a view that refuses the binder thread, end any callback early: the   *)
(* stack catches both.                                                      *)
OnReported(n) ==
  /\ \E kind \in CallbackKinds : Called(kind, n)
  /\ CallbackEnds
  /\ UNCHANGED <<screen, scanner, clients, nPresses>>

(* The control is opened for robotDevice, whichever client has discovered. *)
OnServicesDiscovered(n) ==
  /\ Called("discovered", n) /\ CallbackEnds
  /\ Len(opened) < MaxOpened
  /\ Open(n)
  /\ UNCHANGED <<mScanning, mLeDeviceList, robotDevice, bluetoothGatt, stops, click, scanner, clients,
                 nPresses>>

Callback(n) == OnConnected(n) \/ OnReported(n) \/ OnServicesDiscovered(n)

-----------------------------------------------------------------------------
(* The Bluetooth stack, external to this module. *)

(* onScanFailed tells the user, and nothing else. *)
ScanFails ==
  /\ scanner
  /\ scanner' = FALSE
  /\ UNCHANGED <<screen, clients, callbacks, nPresses>>

ClientMoves(n, from, to, kind) ==
  /\ n \in DOMAIN clients /\ clients[n].state \in from
  /\ clients' = [clients EXCEPT ![n].state = to]
  /\ callbacks' = Append(callbacks, <<kind, n>>)
  /\ UNCHANGED <<screen, scanner, nPresses>>

ClientConnects(n) == ClientMoves(n, {"connecting"}, "connected", "connected")
ClientLost(n) == ClientMoves(n, {"connecting", "connected", "discovering"}, "gone", "disconnected")
DiscoveryEnds(n) == \E kind \in {"discovered", "missing"} :
                      ClientMoves(n, {"discovering"}, "connected", kind)

Client(n) == ClientConnects(n) \/ ClientLost(n) \/ DiscoveryEnds(n)

-----------------------------------------------------------------------------
Next == UI \/ ScanFails \/ \E n \in Numbers : Callback(n) \/ Client(n)

(* The main looper runs what is due; connectGatt returns. *)
Fairness == WF_vars(DelayedStop) /\ WF_vars(ConnectGattReturns)

Spec == Init /\ [][Next]_vars /\ Fairness

-----------------------------------------------------------------------------
(* Properties. *)

TypeOK ==
  /\ mScanning \in BOOLEAN /\ scanner \in BOOLEAN
  /\ mLeDeviceList \subseteq Devices
  /\ robotDevice \in Devices \cup {null}
  /\ bluetoothGatt \in Numbers \cup {NoClient}
  /\ stops \in Nat
  /\ click \in Seq(Numbers) /\ Len(click) <= 1
  /\ front \in {"devices", "control"}
  /\ \A i \in DOMAIN opened : /\ opened[i].robot \in Devices \cup {null}
                               /\ opened[i].by \in DOMAIN clients \cup {NoClient}
  /\ \A n \in DOMAIN clients : clients[n].device \in Devices /\ clients[n].state \in ClientStates
  /\ \A i \in DOMAIN callbacks : callbacks[i] \in CallbackKinds \X DOMAIN clients

\* While the stack scans the button knows it and a delayed stop is to come,
\* however many stale stops of earlier scans ran meanwhile: two scans never
\* run at once, and none for ever.
ScanIsWatched == scanner => mScanning /\ stops > 0

\* A control screen that a discovery opens, however late, is for the device that
\* was discovered or for one the user clicked after it: never for one clicked
\* before, and never for one only found.
OpenedForTheDiscovered ==
  \A i \in DOMAIN opened : opened[i].by # NoClient =>
    \E k \in opened[i].by .. Len(clients) : opened[i].robot = clients[k].device

\* The scan button comes back to life after every scan, one that failed to
\* start and one that a click ended included.
ScanEnds == mScanning ~> ~mScanning
=============================================================================
