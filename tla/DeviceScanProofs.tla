--------------------------- MODULE DeviceScanProofs ---------------------------
(***************************************************************************)
(* Theorems about DeviceScan, for any devices and any bounds on presses,   *)
(* clicks and control screens.                                             *)
(***************************************************************************)
EXTENDS DeviceScan, TLAPS

ClientRecords == [device : Devices, state : ClientStates]
OpenedRecords == [robot : Devices \cup {null}, by : Numbers \cup {NoClient}]

Types ==
  /\ TypeOK
  /\ clients \in Seq(ClientRecords) /\ opened \in Seq(OpenedRecords)
  /\ callbacks \in Seq(CallbackKinds \X Numbers)

(* robotDevice is the device of the client opened last. *)
LastClicked ==
  \A n \in DOMAIN clients : n = Len(clients) => clients[n].device = robotDevice

IInv == Types /\ ScanIsWatched /\ LastClicked /\ OpenedForTheDiscovered

-----------------------------------------------------------------------------
(* Sequences that hold one element, grow by one and shrink by one. *)

LEMMA AtMost ==
  ASSUME NEW K, NEW e \in K
  PROVE  /\ <<e>> \in Seq(K) /\ Len(<<e>>) <= 1
         /\ <<>> \in Seq(K) /\ Len(<<>>) <= 1 /\ DOMAIN <<>> = {}
OBVIOUS

LEMMA First ==
  ASSUME NEW K, NEW s \in Seq(K), s # <<>>
  PROVE  s[1] \in K
<1>1. Len(s) \in Nat /\ Len(s) # 0
  OBVIOUS
<1>2. 1 \in 1 .. Len(s)
  BY <1>1
<1> QED BY <1>2

LEMMA Grown ==
  ASSUME NEW K, NEW s \in Seq(K), NEW e \in K
  PROVE  /\ Append(s, e) \in Seq(K)
         /\ Len(s) \in Nat /\ Len(Append(s, e)) = Len(s) + 1
         /\ DOMAIN s \subseteq DOMAIN Append(s, e)
         /\ \A i \in DOMAIN Append(s, e) :
              \/ i \in DOMAIN s /\ Append(s, e)[i] = s[i] /\ i # Len(s) + 1
              \/ i = Len(s) + 1 /\ Append(s, e)[i] = e
OBVIOUS

LEMMA Shrunk ==
  ASSUME NEW K, NEW s \in Seq(K), s # <<>>
  PROVE  /\ Tail(s) \in Seq(K)
         /\ 1 \in DOMAIN s /\ Head(s) = s[1]
         /\ \A i \in DOMAIN Tail(s) : \E j \in DOMAIN s : Tail(s)[i] = s[j]
<1>1. /\ Head(s) = s[1] /\ Tail(s) \in Seq(K)
      /\ DOMAIN s = 1 .. Len(s) /\ DOMAIN Tail(s) = 1 .. Len(s) - 1
      /\ \A i \in 1 .. Len(s) - 1 : Tail(s)[i] = s[i + 1]
      /\ Len(s) \in Nat \ {0}
  OBVIOUS
<1>2. 1 \in 1 .. Len(s) /\ \A i \in 1 .. Len(s) - 1 : i + 1 \in 1 .. Len(s)
  BY <1>1
<1> QED BY <1>1, <1>2

-----------------------------------------------------------------------------
LEMMA InvInit == Init => IInv
<1> SUFFICES ASSUME Init PROVE IInv
  OBVIOUS
<1>1. \A K : <<>> \in Seq(K)
  OBVIOUS
<1>2. Len(<<>>) <= 1 /\ DOMAIN <<>> = {} /\ 0 \in Nat
  OBVIOUS
<1>3. TypeOK
  BY <1>1, <1>2 DEF Init, TypeOK
<1>4. Types
  BY <1>1, <1>3 DEF Init, Types
<1>5. ScanIsWatched /\ LastClicked /\ OpenedForTheDiscovered
  BY <1>2 DEF Init, ScanIsWatched, LastClicked, OpenedForTheDiscovered
<1> QED BY <1>4, <1>5 DEF IInv

(* A screen that opens is for robotDevice, the device clicked last. *)
LEMMA Opening ==
  ASSUME IInv, NEW n \in Numbers \cup {NoClient}, Open(n),
         n = NoClient \/ n \in DOMAIN clients,
         UNCHANGED <<clients, robotDevice>>
  PROVE  /\ opened' \in Seq(OpenedRecords) /\ front' = "control"
         /\ \A i \in DOMAIN opened' : /\ opened'[i].robot \in Devices \cup {null}
                                     /\ opened'[i].by \in DOMAIN clients' \cup {NoClient}
         /\ OpenedForTheDiscovered'
<1> USE DEF IInv, Types
<1> DEFINE r == [robot |-> robotDevice, by |-> n]
<1>1. opened' = Append(opened, r) /\ front' = "control"
  BY DEF Open
<1>2. r \in OpenedRecords /\ r.robot = robotDevice /\ r.by = n
  BY DEF TypeOK, OpenedRecords
<1>3. /\ opened' \in Seq(OpenedRecords)
      /\ \A i \in DOMAIN opened' :
           (i \in DOMAIN opened /\ opened'[i] = opened[i]) \/ opened'[i] = r
  BY <1>1, <1>2, Grown
<1>4. n # NoClient => \E k \in n .. Len(clients) : robotDevice = clients[k].device
  <2> SUFFICES ASSUME n \in DOMAIN clients
               PROVE  \E k \in n .. Len(clients) : robotDevice = clients[k].device
    OBVIOUS
  <2>1. Len(clients) \in DOMAIN clients /\ Len(clients) \in n .. Len(clients)
    OBVIOUS
  <2>2. robotDevice = clients[Len(clients)].device
    BY <2>1 DEF LastClicked
  <2> QED BY <2>1, <2>2
<1>5. OpenedForTheDiscovered'
  BY <1>2, <1>3, <1>4 DEF OpenedForTheDiscovered
<1>6. \A i \in DOMAIN opened' : /\ opened'[i].robot \in Devices \cup {null}
                               /\ opened'[i].by \in DOMAIN clients' \cup {NoClient}
  BY <1>2, <1>3 DEF TypeOK
<1> QED BY <1>1, <1>3, <1>5, <1>6

(* Clients that are added or change state leave the screens justified. *)
LEMMA Kept ==
  ASSUME IInv, UNCHANGED opened,
         Len(clients') \in Nat, Len(clients') >= Len(clients),
         \A k \in DOMAIN clients : clients'[k].device = clients[k].device
  PROVE  OpenedForTheDiscovered'
<1> SUFFICES ASSUME NEW i \in DOMAIN opened, opened[i].by # NoClient
             PROVE  \E k \in opened[i].by .. Len(clients') : opened[i].robot = clients'[k].device
  BY DEF OpenedForTheDiscovered
<1>1. opened[i].by \in DOMAIN clients
  BY DEF IInv, Types, TypeOK
<1>2. PICK k \in opened[i].by .. Len(clients) : opened[i].robot = clients[k].device
  BY DEF IInv, OpenedForTheDiscovered
<1>3. /\ Len(clients) \in Nat /\ DOMAIN clients = 1 .. Len(clients)
      /\ opened[i].by \in 1 .. Len(clients)
  BY <1>1 DEF IInv, Types
<1>4. k \in DOMAIN clients /\ k \in opened[i].by .. Len(clients')
  BY <1>2, <1>3
<1> QED BY <1>2, <1>4

LEMMA StateChanged ==
  ASSUME NEW c \in ClientRecords, NEW s \in ClientStates
  PROVE  /\ [c EXCEPT !.state = s] \in ClientRecords
         /\ [c EXCEPT !.state = s].device = c.device
BY DEF ClientRecords

(* Clients that only change state keep their devices. *)
LEMMA Moving ==
  ASSUME IInv, UNCHANGED <<robotDevice, opened>>,
         clients' \in Seq(ClientRecords), DOMAIN clients' = DOMAIN clients,
         \A n \in DOMAIN clients : clients'[n].device = clients[n].device
  PROVE  /\ LastClicked' /\ OpenedForTheDiscovered'
         /\ \A n \in DOMAIN clients' :
              clients'[n].device \in Devices /\ clients'[n].state \in ClientStates
<1>1. Len(clients') = Len(clients)
  <2>1. Len(clients') \in Nat /\ Len(clients) \in Nat
        /\ DOMAIN clients' = 1 .. Len(clients') /\ DOMAIN clients = 1 .. Len(clients)
    BY DEF IInv, Types
  <2>2. \A m, n \in Nat : 1 .. m = 1 .. n => m = n
    <3>1. ASSUME NEW m \in Nat, NEW n \in Nat, 1 .. m = 1 .. n, m < n PROVE FALSE
      <4>1. n \in 1 .. n /\ n \notin 1 .. m
        BY <3>1
      <4> QED BY <3>1, <4>1
    <3> QED BY <3>1
  <2> QED BY <2>1, <2>2
<1>2. LastClicked'
  BY <1>1 DEF IInv, LastClicked
<1>4. OpenedForTheDiscovered'
  BY <1>1, Kept
<1>3. \A n \in DOMAIN clients' : clients'[n] \in ClientRecords
  OBVIOUS
<1> QED BY <1>2, <1>3, <1>4 DEF ClientRecords

-----------------------------------------------------------------------------
LEMMA UIStep ==
  ASSUME IInv, UI
  PROVE  IInv'
<1> USE DEF IInv, Types
<1>1. CASE OnScanPress
  <2>1. /\ UNCHANGED <<mLeDeviceList, robotDevice, bluetoothGatt, click, front, opened, clients, callbacks>>
        /\ \/ UNCHANGED <<mScanning, stops, scanner>>
           \/ stops' = stops + 1 /\ mScanning' = TRUE /\ scanner' = TRUE
    BY <1>1 DEF OnScanPress
  <2>2. stops' \in Nat /\ (stops' = stops + 1 => stops' > 0)
    BY <2>1 DEF TypeOK
  <2>3. Types'
    BY <2>1, <2>2 DEF TypeOK
  <2>4. ScanIsWatched'
    <3>1. CASE UNCHANGED <<mScanning, stops, scanner>>
      BY <3>1 DEF ScanIsWatched
    <3>2. CASE stops' = stops + 1 /\ mScanning' = TRUE
      BY <2>2, <3>2 DEF ScanIsWatched
    <3> QED BY <2>1, <3>1, <3>2
  <2>5. LastClicked' /\ OpenedForTheDiscovered'
    BY <2>1 DEF LastClicked, OpenedForTheDiscovered
  <2> QED BY <2>3, <2>4, <2>5
<1>2. CASE DelayedStop
  <2>1. /\ UNCHANGED <<mLeDeviceList, robotDevice, bluetoothGatt, click, front, opened, clients, callbacks>>
        /\ stops > 0 /\ stops' = stops - 1 /\ mScanning' = FALSE /\ scanner' = FALSE
    BY <1>2 DEF DelayedStop
  <2>2. stops' \in Nat
    BY <2>1 DEF TypeOK
  <2>3. Types'
    BY <2>1, <2>2 DEF TypeOK
  <2>4. ScanIsWatched' /\ LastClicked' /\ OpenedForTheDiscovered'
    BY <2>1 DEF ScanIsWatched, LastClicked, OpenedForTheDiscovered
  <2> QED BY <2>3, <2>4
<1>3. CASE ConnectGattReturns
  <2>1. /\ UNCHANGED <<mLeDeviceList, robotDevice, stops, front, opened, clients, callbacks>>
        /\ click # <<>> /\ bluetoothGatt' = click[1] /\ click' = <<>>
        /\ mScanning' = FALSE /\ scanner' = FALSE
    BY <1>3 DEF ConnectGattReturns
  <2>2. click[1] \in Numbers /\ click' \in Seq(Numbers) /\ Len(click') <= 1
    <3>1. click[1] \in Numbers
      BY <2>1, First DEF TypeOK
    <3> QED BY <2>1, <3>1, AtMost
  <2>3. Types'
    BY <2>1, <2>2 DEF TypeOK
  <2>4. ScanIsWatched' /\ LastClicked' /\ OpenedForTheDiscovered'
    BY <2>1 DEF ScanIsWatched, LastClicked, OpenedForTheDiscovered
  <2> QED BY <2>3, <2>4
<1>4. CASE MenuControl
  <2>1. /\ UNCHANGED <<mScanning, mLeDeviceList, robotDevice, bluetoothGatt, stops, click, scanner,
                      clients, callbacks>>
        /\ Open(NoClient)
    BY <1>4 DEF MenuControl, stack
  <2>2. /\ opened' \in Seq(OpenedRecords) /\ front' = "control"
        /\ \A i \in DOMAIN opened' : /\ opened'[i].robot \in Devices \cup {null}
                                    /\ opened'[i].by \in DOMAIN clients' \cup {NoClient}
        /\ OpenedForTheDiscovered'
    BY <2>1, Opening
  <2>3. Types'
    BY <2>1, <2>2 DEF TypeOK
  <2>4. ScanIsWatched' /\ LastClicked'
    BY <2>1 DEF ScanIsWatched, LastClicked
  <2> QED BY <2>2, <2>3, <2>4
<1>5. CASE Back
  <2>1. /\ UNCHANGED <<mScanning, mLeDeviceList, robotDevice, bluetoothGatt, stops, click, opened,
                      scanner, clients, callbacks>>
        /\ front' = "devices"
    BY <1>5 DEF Back, stack
  <2>2. Types'
    BY <2>1 DEF TypeOK
  <2>3. ScanIsWatched' /\ LastClicked' /\ OpenedForTheDiscovered'
    BY <2>1 DEF ScanIsWatched, LastClicked, OpenedForTheDiscovered
  <2> QED BY <2>2, <2>3
<1>6. ASSUME NEW device \in Devices, OnScanResult(device)
      PROVE  IInv'
  <2>1. /\ UNCHANGED <<mScanning, robotDevice, bluetoothGatt, stops, click, front, opened, scanner,
                      clients, callbacks>>
        /\ mLeDeviceList' = mLeDeviceList \cup {device}
    BY <1>6 DEF OnScanResult, stack
  <2>2. Types'
    BY <2>1 DEF TypeOK
  <2>3. ScanIsWatched' /\ LastClicked' /\ OpenedForTheDiscovered'
    BY <2>1 DEF ScanIsWatched, LastClicked, OpenedForTheDiscovered
  <2> QED BY <2>2, <2>3
<1>7. ASSUME NEW device \in Devices, OnItemClick(device)
      PROVE  IInv'
  <2> DEFINE c == [device |-> device, state |-> "connecting"]
  <2>1. /\ UNCHANGED <<mScanning, mLeDeviceList, bluetoothGatt, stops, front, opened, scanner, callbacks>>
        /\ Len(clients) < MaxClicks
        /\ robotDevice' = device /\ clients' = Append(clients, c)
        /\ click' = <<Len(clients) + 1>>
    BY <1>7 DEF OnItemClick
  <2>2. c \in ClientRecords /\ c.device = device /\ c.state = "connecting"
    BY DEF ClientRecords, ClientStates
  <2>3. /\ clients' \in Seq(ClientRecords)
        /\ Len(clients) \in Nat /\ Len(clients') = Len(clients) + 1
        /\ DOMAIN clients \subseteq DOMAIN clients'
        /\ \A i \in DOMAIN clients' :
             \/ i \in DOMAIN clients /\ clients'[i] = clients[i] /\ i # Len(clients) + 1
             \/ i = Len(clients) + 1 /\ clients'[i] = c
    BY <2>1, <2>2, Grown
  <2>4. click' \in Seq(Numbers) /\ Len(click') <= 1
    <3>1. Len(clients) + 1 \in Numbers
      BY <2>1, <2>3, ScanAssumption DEF Numbers
    <3> QED BY <2>1, <3>1, AtMost
  <2>5. \A n \in DOMAIN clients' :
          clients'[n].device \in Devices /\ clients'[n].state \in ClientStates
    BY <2>2, <2>3 DEF TypeOK, ClientStates
  <2>6. \A i \in DOMAIN callbacks' : callbacks'[i] \in CallbackKinds \X DOMAIN clients'
    BY <2>1, <2>3 DEF TypeOK
  <2>10. \A i \in DOMAIN opened' : /\ opened'[i].robot \in Devices \cup {null}
                                   /\ opened'[i].by \in DOMAIN clients' \cup {NoClient}
    BY <2>1, <2>3 DEF TypeOK
  <2>7. Types'
    BY <2>1, <2>3, <2>4, <2>5, <2>6, <2>10 DEF TypeOK
  <2>8. ScanIsWatched' /\ LastClicked'
    BY <2>1, <2>2, <2>3 DEF ScanIsWatched, LastClicked
  <2>9. OpenedForTheDiscovered'
    <3>1. Len(clients') \in Nat /\ Len(clients') >= Len(clients)
      BY <2>3
    <3>2. \A k \in DOMAIN clients : clients'[k] = clients[k]
      BY <2>3
    <3> QED BY <2>1, <3>1, <3>2, Kept
  <2> QED BY <2>7, <2>8, <2>9
<1> QED BY <1>1, <1>2, <1>3, <1>4, <1>5, <1>6, <1>7 DEF UI

LEMMA CallbackStep ==
  ASSUME IInv, NEW n \in Numbers, Callback(n)
  PROVE  IInv'
<1> USE DEF IInv, Types
<1>1. \E kind \in CallbackKinds : Called(kind, n)
  BY DEF Callback, OnConnected, OnReported, OnServicesDiscovered, CallbackKinds
<1>2. PICK kind \in CallbackKinds : Called(kind, n)
  BY <1>1
<1>3. callbacks # <<>> /\ Head(callbacks) = <<kind, n>> /\ callbacks' = Tail(callbacks)
  BY <1>2 DEF Called, Callback, OnConnected, OnReported, OnServicesDiscovered, CallbackEnds
<1>4. /\ callbacks' \in Seq(CallbackKinds \X Numbers)
      /\ n \in DOMAIN clients
      /\ \A i \in DOMAIN callbacks' : callbacks'[i] \in CallbackKinds \X DOMAIN clients
  <2>1. /\ callbacks' \in Seq(CallbackKinds \X Numbers)
        /\ 1 \in DOMAIN callbacks /\ Head(callbacks) = callbacks[1]
        /\ \A i \in DOMAIN callbacks' : \E j \in DOMAIN callbacks : callbacks'[i] = callbacks[j]
    BY <1>3, Shrunk
  <2>2. <<kind, n>> \in CallbackKinds \X DOMAIN clients
    BY <1>3, <2>1 DEF TypeOK
  <2> QED BY <2>1, <2>2 DEF TypeOK
<1>5. CASE OnConnected(n)
  <2>1. /\ UNCHANGED <<mScanning, mLeDeviceList, robotDevice, bluetoothGatt, stops, click, front, opened,
                      scanner>>
        /\ clients' = [k \in DOMAIN clients |->
                        IF k = bluetoothGatt /\ clients[k].state = "connected"
                        THEN [clients[k] EXCEPT !.state = "discovering"] ELSE clients[k]]
    BY <1>5 DEF OnConnected, screen
  <2>2. \A k \in DOMAIN clients : clients[k] \in ClientRecords
        /\ [clients[k] EXCEPT !.state = "discovering"] \in ClientRecords
        /\ [clients[k] EXCEPT !.state = "discovering"].device = clients[k].device
    <3>1. "discovering" \in ClientStates
      BY DEF ClientStates
    <3> QED BY <3>1, StateChanged
  <2>3. /\ clients' \in Seq(ClientRecords) /\ DOMAIN clients' = DOMAIN clients
        /\ \A k \in DOMAIN clients : clients'[k].device = clients[k].device
    <3>1. Len(clients) \in Nat /\ DOMAIN clients = 1 .. Len(clients)
      OBVIOUS
    <3>2. clients' \in [1 .. Len(clients) -> ClientRecords]
      BY <2>1, <2>2, <3>1
    <3> QED BY <2>1, <2>2, <3>1, <3>2
  <2>4. /\ LastClicked' /\ OpenedForTheDiscovered'
        /\ \A k \in DOMAIN clients' :
             clients'[k].device \in Devices /\ clients'[k].state \in ClientStates
    BY <2>1, <2>3, Moving
  <2>5. Types'
    BY <1>4, <2>1, <2>3, <2>4 DEF TypeOK
  <2>6. ScanIsWatched'
    BY <2>1 DEF ScanIsWatched
  <2> QED BY <2>4, <2>5, <2>6
<1>6. CASE OnReported(n)
  <2>1. UNCHANGED <<mScanning, mLeDeviceList, robotDevice, bluetoothGatt, stops, click, front, opened,
                   scanner, clients>>
    BY <1>6 DEF OnReported, screen
  <2>2. Types'
    BY <1>4, <2>1 DEF TypeOK
  <2>3. ScanIsWatched' /\ LastClicked' /\ OpenedForTheDiscovered'
    BY <2>1 DEF ScanIsWatched, LastClicked, OpenedForTheDiscovered
  <2> QED BY <2>2, <2>3
<1>7. CASE OnServicesDiscovered(n)
  <2>1. /\ UNCHANGED <<mScanning, mLeDeviceList, robotDevice, bluetoothGatt, stops, click, scanner,
                      clients>>
        /\ Open(n)
    BY <1>7 DEF OnServicesDiscovered
  <2>2. /\ opened' \in Seq(OpenedRecords) /\ front' = "control"
        /\ \A i \in DOMAIN opened' : /\ opened'[i].robot \in Devices \cup {null}
                                    /\ opened'[i].by \in DOMAIN clients' \cup {NoClient}
        /\ OpenedForTheDiscovered'
    BY <1>4, <2>1, Opening
  <2>3. Types'
    BY <1>4, <2>1, <2>2 DEF TypeOK
  <2>4. ScanIsWatched' /\ LastClicked'
    BY <2>1 DEF ScanIsWatched, LastClicked
  <2> QED BY <2>2, <2>3, <2>4
<1> QED BY <1>5, <1>6, <1>7 DEF Callback

LEMMA ClientStep ==
  ASSUME IInv, NEW n \in Numbers, Client(n)
  PROVE  IInv'
<1> USE DEF IInv, Types
<1>1. PICK from \in SUBSET ClientStates, to \in ClientStates, kind \in CallbackKinds :
        ClientMoves(n, from, to, kind)
  BY DEF Client, ClientConnects, ClientLost, DiscoveryEnds, ClientStates, CallbackKinds
<1>2. /\ UNCHANGED <<mScanning, mLeDeviceList, robotDevice, bluetoothGatt, stops, click, front, opened,
                    scanner>>
      /\ n \in DOMAIN clients
      /\ clients' = [clients EXCEPT ![n].state = to]
      /\ callbacks' = Append(callbacks, <<kind, n>>)
  BY <1>1 DEF ClientMoves, screen
<1>3. [clients[n] EXCEPT !.state = to] \in ClientRecords
      /\ [clients[n] EXCEPT !.state = to].device = clients[n].device
  BY <1>2, StateChanged
<1>4. /\ clients' \in Seq(ClientRecords) /\ DOMAIN clients' = DOMAIN clients
      /\ \A k \in DOMAIN clients : clients'[k].device = clients[k].device
  BY <1>2, <1>3
<1>5. /\ LastClicked' /\ OpenedForTheDiscovered'
      /\ \A k \in DOMAIN clients' :
           clients'[k].device \in Devices /\ clients'[k].state \in ClientStates
  BY <1>2, <1>4, Moving
<1>6. /\ callbacks' \in Seq(CallbackKinds \X Numbers)
      /\ \A i \in DOMAIN callbacks' : callbacks'[i] \in CallbackKinds \X DOMAIN clients
  <2>1. <<kind, n>> \in CallbackKinds \X Numbers /\ <<kind, n>> \in CallbackKinds \X DOMAIN clients
    BY <1>2
  <2>2. /\ callbacks' \in Seq(CallbackKinds \X Numbers)
        /\ \A i \in DOMAIN callbacks' :
             (i \in DOMAIN callbacks /\ callbacks'[i] = callbacks[i]) \/ callbacks'[i] = <<kind, n>>
    BY <1>2, <2>1, Grown
  <2> QED BY <2>1, <2>2 DEF TypeOK
<1>7. Types'
  BY <1>2, <1>4, <1>5, <1>6 DEF TypeOK
<1>8. ScanIsWatched'
  BY <1>2 DEF ScanIsWatched
<1> QED BY <1>5, <1>7, <1>8

-----------------------------------------------------------------------------
LEMMA InvNext == IInv /\ [Next]_vars => IInv'
<1> SUFFICES ASSUME IInv, [Next]_vars PROVE IInv'
  OBVIOUS
<1>1. CASE ScanFails \/ UNCHANGED vars
  <2>1. /\ UNCHANGED <<mScanning, mLeDeviceList, robotDevice, bluetoothGatt, stops, click, front, opened,
                      clients, callbacks>>
        /\ scanner' \in BOOLEAN /\ (scanner' => scanner)
    <3>1. scanner \in BOOLEAN
      BY DEF IInv, Types, TypeOK
    <3>2. CASE ScanFails
      BY <3>2 DEF ScanFails, screen
    <3>3. CASE UNCHANGED vars
      BY <3>1, <3>3 DEF vars, screen, stack
    <3> QED BY <1>1, <3>2, <3>3
  <2>2. Types'
    BY <2>1 DEF IInv, Types, TypeOK
  <2>3. ScanIsWatched' /\ LastClicked' /\ OpenedForTheDiscovered'
    BY <2>1 DEF IInv, ScanIsWatched, LastClicked, OpenedForTheDiscovered
  <2> QED BY <2>2, <2>3 DEF IInv
<1> QED BY <1>1, UIStep, CallbackStep, ClientStep DEF Next

\* The fields of the two screens and of the stack keep their types: a callback
\* is always of a client that exists.
THEOREM TypeCorrect == Spec => []TypeOK
<1>1. IInv => TypeOK
  BY DEF IInv, Types
<1> QED BY InvInit, InvNext, <1>1, PTL DEF Spec

\* Whatever the presses, clicks, failures and stale stops, while the stack
\* scans mScanning is set and a delayed stop is pending.
THEOREM ScanIsAlwaysWatched == Spec => []ScanIsWatched
<1>1. IInv => ScanIsWatched
  BY DEF IInv
<1> QED BY InvInit, InvNext, <1>1, PTL DEF Spec

\* For any number of clients, clicked in any order and discovered in any other,
\* a control screen that a discovery opens is for the device discovered or for one
\* clicked after it.
THEOREM AlwaysOpenedForTheDiscovered == Spec => []OpenedForTheDiscovered
<1>1. IInv => OpenedForTheDiscovered
  BY DEF IInv
<1> QED BY InvInit, InvNext, <1>1, PTL DEF Spec

=============================================================================
