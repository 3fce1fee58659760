------------------------- MODULE RemoteControlProofs -------------------------
(***************************************************************************)
(* Theorems about RemoteControl, for any set of its buttons and any bounds *)
(* on touches, losses and failures.                                        *)
(*                                                                         *)
(* IInv is inductive by itself.  Told, of the commands on their way, is    *)
(* inductive where IInv holds.                                             *)
(***************************************************************************)
EXTENDS RemoteControl, TLAPS

Touches == [button : Buttons \cup {"Slider"}, action : {"down", "up", "slide"},
            at : {"check", "set", "write"}, command : Commands]
Kinds == {"connected", "disconnected", "discovered", "missing"}
Places == Kinds \cup {"close", "reconnect", "established"}

Types ==
  /\ TypeOK
  /\ touch \in Seq(Touches) /\ callback \in Seq(Places) /\ callbacks \in Seq(Kinds)
  /\ air \in Seq(Commands)

(* The listener of a press finds its button held; the button a listener of  *)
(* a release runs for accounts for prevState until the listener has ended.  *)
Released == IF touch # <<>> /\ touch[1].action = "up" THEN {touch[1].button} ELSE {}

Hand ==
  /\ touch # <<>> =>
       /\ touch[1].action = "down" => touch[1].button \in held
       /\ touch[1].action = "up" => touch[1].button \in Buttons
       /\ touch[1].button \in Straight => touch[1].action \in {"down", "up"}
  /\ ~crashed /\ prevState # "Idle" => prevState \in held \cup missed \cup Released

(* The callback that says a link was lost is the last of its client.        *)
Lost == {<<"disconnected">>, <<"close">>, <<"reconnect">>}

(* bluetoothGatt is null only while the stack has no client open, or before  *)
(* the one it has is assigned; there is none in the callback that replaces   *)
(* it, when connectGatt gave none, or when no device was given.              *)
Opened ==
  /\ assigning # "no" => bluetoothGatt = null
  /\ bluetoothGatt = null => ~client \/ assigning # "no"
  /\ ~client =>
       /\ bluetoothGatt = null /\ ~link /\ callbacks = <<>>
       /\ \/ callback = <<"reconnect">>
          \/ callback = <<>> /\ (customCharacteristic = null \/ nFailures > 0)

Client ==
  /\ discovering => link
  /\ \A i \in DOMAIN callbacks : callbacks[i] = "disconnected" => i = Len(callbacks) /\ ~link
  /\ callback \in Lost => callbacks = <<>> /\ ~link
  /\ callback = <<"reconnect">> => ~client
  /\ Opened
  /\ CrashIsEarlyOrReconnecting

IInv == Types /\ Hand /\ Client

(* A listener that writes finds the value it set, or one a discovery has put *)
(* in its place, and what it sends follows from its button.                  *)
Writing ==
  touch # <<>> =>
    /\ touch[1].at = "write" => customCharacteristic \in {touch[1].command, NoValue, null}
    /\ touch[1].action = "down" => touch[1].command = touch[1].button
    /\ touch[1].action = "up" =>
         touch[1].command = IF touch[1].button \in Straight THEN "Idle" ELSE prevState
    /\ touch[1].action = "slide" => touch[1].command = "Speed"

(* The last movement is a stop, or accounted for by a button as prevState is. *)
Accounts == {"Idle"} \cup held \cup missed \cup Released
Accounted == ~crashed /\ ~refused => \E c \in Accounts : LastMovement(c)

Told == Writing /\ Accounted

-----------------------------------------------------------------------------
(* Sequences that hold one element, grow by one and shrink by one. *)

LEMMA One ==
  ASSUME NEW K, NEW e \in K
  PROVE  <<e>> \in Seq(K) /\ Len(<<e>>) <= 1 /\ <<e>>[1] = e /\ <<e>> # <<>>
OBVIOUS

LEMMA None ==
  ASSUME NEW K
  PROVE  <<>> \in Seq(K) /\ Len(<<>>) <= 1 /\ DOMAIN <<>> = {}
OBVIOUS

LEMMA First ==
  ASSUME NEW K, NEW s \in Seq(K), s # <<>>
  PROVE  s[1] \in K
<1>1. Len(s) \in Nat /\ Len(s) # 0
  OBVIOUS
<1>2. 1 \in 1 .. Len(s)
  BY <1>1
<1> QED BY <1>2

LEMMA Grown ==
  ASSUME NEW K, NEW s \in Seq(K), NEW e \in K
  PROVE  /\ Append(s, e) \in Seq(K)
         /\ Append(s, e) # <<>>
         /\ \A i \in DOMAIN Append(s, e) :
              \/ i \in DOMAIN s /\ Append(s, e)[i] = s[i]
              \/ i = Len(Append(s, e)) /\ Append(s, e)[i] = e
OBVIOUS

LEMMA Predecessor ==
  ASSUME NEW n \in Nat, NEW i \in Nat, i + 1 = n
  PROVE  i = n - 1
OBVIOUS

LEMMA Shrunk ==
  ASSUME NEW K, NEW s \in Seq(K), s # <<>>
  PROVE  /\ Head(s) \in K /\ Head(s) = s[1] /\ 1 \in DOMAIN s
         /\ Tail(s) \in Seq(K) /\ Len(Tail(s)) = Len(s) - 1
         /\ \A i \in DOMAIN Tail(s) : i + 1 \in DOMAIN s /\ Tail(s)[i] = s[i + 1]
         /\ \A i \in DOMAIN Tail(s) : i + 1 = Len(s) => i = Len(Tail(s))
         /\ 1 = Len(s) => Tail(s) = <<>>
<1>1. /\ Head(s) \in K /\ Head(s) = s[1]
      /\ Tail(s) \in Seq(K) /\ Len(Tail(s)) = Len(s) - 1
      /\ DOMAIN s = 1 .. Len(s) /\ DOMAIN Tail(s) = 1 .. Len(s) - 1
      /\ \A i \in 1 .. Len(s) - 1 : Tail(s)[i] = s[i + 1]
      /\ Len(s) \in Nat \ {0}
  OBVIOUS
<1>2. 1 \in 1 .. Len(s) /\ \A i \in 1 .. Len(s) - 1 : i + 1 \in 1 .. Len(s)
  BY <1>1
<1>3. \A i \in 1 .. Len(s) - 1 : i + 1 = Len(s) => i = Len(s) - 1
  <2>1. Len(s) \in Nat /\ \A i \in 1 .. Len(s) - 1 : i \in Nat
    BY <1>1
  <2> QED BY <2>1, Predecessor
<1>4. ASSUME 1 = Len(s) PROVE Tail(s) = <<>>
  <2>1. s = <<s[1]>>
    BY <1>4
  <2>2. \A e : Tail(<<e>>) = <<>>
    OBVIOUS
  <2> QED BY <2>1, <2>2
<1> QED BY <1>1, <1>2, <1>3, <1>4

-----------------------------------------------------------------------------
LEMMA InvInit == Init => IInv
<1> SUFFICES ASSUME NEW given \in BOOLEAN, OnCreate(given) PROVE IInv
  BY DEF Init
<1>1. /\ touch \in Seq(Touches) /\ callback \in Seq(Places) /\ callbacks \in Seq(Kinds)
      /\ air \in Seq(Commands) /\ Len(touch) <= 1 /\ Len(callback) <= 1
      /\ DOMAIN air = {} /\ DOMAIN callbacks = {}
  BY None DEF OnCreate
<1>2. TypeOK
  <2>1. "Idle" \in Commands \ {"Speed"}
    BY DEF Commands
  <2>2. driving \in Commands \ {"Speed"}
    BY <2>1 DEF OnCreate
  <2>3. assigning \in {"no", "create", "reconnect"} /\ client \in BOOLEAN /\ created \in BOOLEAN
    BY DEF OnCreate
  <2>4. nFailures \in Nat
    BY DEF OnCreate
  <2> QED BY <1>1, <2>2, <2>3, <2>4 DEF OnCreate, TypeOK
<1>3. Hand
  BY DEF OnCreate, Hand
<1>4. Client
  <2>1. callback \notin Lost /\ callback # <<"reconnect">>
    BY DEF OnCreate, Lost
  <2>2. Opened
    BY DEF OnCreate, Opened
  <2> QED BY <1>1, <2>1, <2>2 DEF OnCreate, Client, CrashIsEarlyOrReconnecting
<1> QED BY <1>1, <1>2, <1>3, <1>4 DEF IInv, Types

-----------------------------------------------------------------------------
(* The listeners and the user. *)

LEMMA Commanded ==
  ASSUME Types, NEW button \in Buttons, NEW action \in {"down", "up"}
  PROVE  CommandOf(button, action) \in Commands
BY DEF CommandOf, Commands, Types, TypeOK

(* What a listener that starts leaves as the invariant needs it. *)
LEMMA Listening ==
  ASSUME Types, NEW button \in Buttons, NEW action \in {"down", "up"}, Listen(button, action)
  PROVE  /\ touch' \in Seq(Touches) /\ Len(touch') <= 1 /\ touch' # <<>>
         /\ touch'[1].button = button /\ touch'[1].action = action
<1> DEFINE t == [button |-> button, action |-> action, at |-> "check",
                 command |-> CommandOf(button, action)]
<1>1. t \in Touches
  BY Commanded DEF Touches
<1>2. touch' = <<t>>
  BY DEF Listen
<1> QED BY <1>1, <1>2, One

(* A step of the UI thread that leaves the fields and crashed alone. *)
LEMMA ClientKept ==
  ASSUME Client, UNCHANGED <<fields, binder, stack, crashed>>
  PROVE  Client'
BY DEF Client, Opened, CrashIsEarlyOrReconnecting, fields, binder, opening, stack, radio

LEMMA UserStep ==
  ASSUME IInv, User
  PROVE  IInv'
<1> USE DEF IInv, Types
<1>1. /\ UNCHANGED <<fields, binder, stack, prevState, crashed>>
      /\ touch = <<>> /\ ~crashed
  BY DEF User, Press, LetGo, Cancel, Slide, UiRuns
<1>2. Client'
  BY <1>1, ClientKept
<1>3. ASSUME touch' \in Seq(Touches), Len(touch') <= 1, held' \subseteq Buttons, missed' \subseteq Buttons
      PROVE  Types'
  BY <1>1, <1>3 DEF TypeOK, fields, binder, opening, stack, radio
<1>4. prevState # "Idle" => prevState \in held \cup missed
  BY <1>1 DEF Hand, Released
<1>5. ASSUME NEW button \in Buttons, Press(button)
      PROVE  IInv'
  <2>1. held' = held \cup {button} /\ missed' = missed \ {button} /\ Listen(button, "down")
    BY <1>5 DEF Press
  <2>2. /\ touch' \in Seq(Touches) /\ Len(touch') <= 1 /\ touch' # <<>>
        /\ touch'[1].button = button /\ touch'[1].action = "down"
    BY <2>1, Listening
  <2>3. Types'
    BY <1>3, <2>1, <2>2 DEF TypeOK
  <2>4. Hand'
    BY <1>1, <1>4, <2>1, <2>2 DEF Hand
  <2> QED BY <1>2, <2>3, <2>4
<1>6. ASSUME NEW button \in Buttons, LetGo(button)
      PROVE  IInv'
  <2>1. held' = held \ {button} /\ missed' = missed /\ Listen(button, "up")
    BY <1>6 DEF LetGo
  <2>2. /\ touch' \in Seq(Touches) /\ Len(touch') <= 1 /\ touch' # <<>>
        /\ touch'[1].button = button /\ touch'[1].action = "up"
    BY <2>1, Listening
  <2>3. Types'
    BY <1>3, <2>1, <2>2 DEF TypeOK
  <2>4. Released' = {button}
    BY <2>2 DEF Released
  <2>5. Hand'
    BY <1>1, <1>4, <2>1, <2>2, <2>4 DEF Hand
  <2> QED BY <1>2, <2>3, <2>5
<1>7. ASSUME NEW button \in Buttons, Cancel(button)
      PROVE  IInv'
  <2>1. held' = held \ {button} /\ missed' = missed \cup {button} /\ touch' = touch
    BY <1>7 DEF Cancel
  <2>2. Types'
    BY <1>3, <2>1 DEF TypeOK
  <2>3. Hand'
    BY <1>1, <1>4, <2>1 DEF Hand
  <2> QED BY <1>2, <2>2, <2>3
<1>8. CASE Slide
  <2> DEFINE t == [button |-> "Slider", action |-> "slide", at |-> "set", command |-> "Speed"]
  <2>1. held' = held /\ missed' = missed /\ (touch' = <<t>> \/ touch' = <<>>)
    BY <1>8 DEF Slide
  <2>2. t \in Touches
    BY DEF Touches, Commands
  <2>3. touch' \in Seq(Touches) /\ Len(touch') <= 1
    BY <2>1, <2>2, One, None
  <2>4. Types'
    BY <1>3, <2>1, <2>3 DEF TypeOK
  <2>5. touch' # <<>> => touch'[1] = t
    BY <2>1
  <2>6. Hand'
    BY <1>1, <1>4, <2>1, <2>5 DEF Hand, Straight
  <2> QED BY <1>2, <2>4, <2>6
<1> QED BY <1>5, <1>6, <1>7, <1>8 DEF User

LEMMA CrashStep ==
  ASSUME IInv, Crash, ~crashed, bluetoothGatt = null \/ customCharacteristic = null
  PROVE  IInv'
<1> USE DEF IInv, Types
<1>1. /\ UNCHANGED <<fields, binder, stack, prevState, held, missed>>
      /\ crashed' = TRUE /\ touch' = <<>>
  BY DEF Crash
<1>2. Types'
  <2>1. touch' \in Seq(Touches) /\ Len(touch') <= 1
    BY <1>1, None
  <2> QED BY <1>1, <2>1 DEF TypeOK, fields, binder, opening, stack, radio
<1>3. Hand'
  BY <1>1 DEF Hand
<1>4. Client'
  BY <1>1 DEF Client, Opened, CrashIsEarlyOrReconnecting, fields, binder, opening, stack, radio
<1> QED BY <1>2, <1>3, <1>4

LEMMA ListenerStep ==
  ASSUME IInv, Listener
  PROVE  IInv'
<1> USE DEF IInv, Types
<1> DEFINE t == touch[1]
<1>1. touch # <<>> /\ ~crashed /\ t \in Touches
  BY First DEF Listener, CheckConnection, SetValue, WriteCharacteristic, TouchAt, UiRuns
<1>2. ASSUME NEW place \in {"check", "set", "write"}, touch' = <<[t EXCEPT !.at = place]>>
      PROVE  /\ touch' \in Seq(Touches) /\ Len(touch') <= 1 /\ touch' # <<>>
             /\ touch'[1].button = t.button /\ touch'[1].action = t.action
  <2>1. [t EXCEPT !.at = place] \in Touches
        /\ [t EXCEPT !.at = place].button = t.button /\ [t EXCEPT !.at = place].action = t.action
    BY <1>1 DEF Touches
  <2> QED BY <1>2, <2>1, One
<1>3. touch' = <<>> => touch' \in Seq(Touches) /\ Len(touch') <= 1
  BY None
<1>4. CASE CheckConnection
  <2>1. UNCHANGED <<fields, binder, stack, prevState, crashed, held>>
    BY <1>4 DEF CheckConnection
  <2>2. Client'
    BY <2>1, ClientKept
  <2>3. CASE connection
    <3>1. touch' = <<[t EXCEPT !.at = "set"]>> /\ missed' = missed
      BY <1>4, <2>3 DEF CheckConnection
    <3>2. /\ touch' \in Seq(Touches) /\ Len(touch') <= 1 /\ touch' # <<>>
          /\ touch'[1].button = t.button /\ touch'[1].action = t.action
      BY <1>2, <3>1
    <3>3. Types'
      BY <2>1, <3>1, <3>2 DEF TypeOK, fields, binder, opening, stack, radio
    <3>4. Released' = Released
      BY <1>1, <3>2 DEF Released
    <3>5. Hand'
      BY <1>1, <2>1, <3>1, <3>2, <3>4 DEF Hand
    <3> QED BY <2>2, <3>3, <3>5
  <2>4. CASE ~connection
    <3>1. touch' = <<>> /\ missed' = missed \cup Released
      BY <1>1, <1>4, <2>4 DEF CheckConnection, Released
    <3>2. Released \subseteq Buttons
      BY <1>1 DEF Hand, Released
    <3>3. Types'
      BY <1>3, <2>1, <3>1, <3>2 DEF TypeOK, fields, binder, opening, stack, radio
    <3>4. Hand'
      BY <2>1, <3>1 DEF Hand
    <3> QED BY <2>2, <3>3, <3>4
  <2> QED BY <2>3, <2>4
<1>5. CASE SetValue
  <2>1. CASE customCharacteristic = null
    BY <1>1, <1>5, <2>1, CrashStep DEF SetValue
  <2>2. CASE customCharacteristic # null
    <3>1. /\ customCharacteristic' = t.command
          /\ touch' = <<[t EXCEPT !.at = "write"]>>
          /\ UNCHANGED <<robot, connection, bluetoothGatt, binder, stack, prevState, crashed, held,
                         missed>>
      BY <1>5, <2>2 DEF SetValue
    <3>2. /\ touch' \in Seq(Touches) /\ Len(touch') <= 1 /\ touch' # <<>>
          /\ touch'[1].button = t.button /\ touch'[1].action = t.action
      BY <1>2, <3>1
    <3>3. t.command \in Commands
      BY <1>1 DEF Touches
    <3>4. Types'
      BY <3>1, <3>2, <3>3 DEF TypeOK, binder, opening, stack, radio
    <3>5. Released' = Released
      BY <1>1, <3>2 DEF Released
    <3>6. Hand'
      BY <1>1, <3>1, <3>2, <3>5 DEF Hand
    <3>7. Opened'
      BY <2>2, <3>1 DEF Client, Opened, binder, opening, stack, radio
    <3>8. Client'
      BY <1>1, <3>1, <3>7 DEF Client, CrashIsEarlyOrReconnecting, binder, opening, stack, radio
    <3> QED BY <3>4, <3>6, <3>8
  <2> QED BY <2>1, <2>2
<1>6. CASE WriteCharacteristic
  <2>1. CASE bluetoothGatt = null \/ customCharacteristic = null
    BY <1>1, <1>6, <2>1, CrashStep DEF WriteCharacteristic
  <2>2. CASE ~(bluetoothGatt = null \/ customCharacteristic = null)
    <3>1. /\ prevState' = NextState(t) /\ touch' = <<>>
          /\ UNCHANGED <<fields, binder, link, discovering, driving, nFailures, crashed, held, missed>>
          /\ \/ air' = air
             \/ customCharacteristic # NoValue /\ air' = Append(air, customCharacteristic)
      BY <1>6, <2>2 DEF WriteCharacteristic
    <3>2. air' \in Seq(Commands) /\ \A i \in DOMAIN air' : air'[i] \in Commands
      <4>1. air' \in Seq(Commands)
        <5>1. CASE air' = air
          BY <5>1
        <5>2. CASE customCharacteristic # NoValue /\ air' = Append(air, customCharacteristic)
          <6>1. customCharacteristic \in Commands
            BY <2>2, <5>2 DEF TypeOK
          <6> QED BY <5>2, <6>1, Grown
        <5> QED BY <3>1, <5>1, <5>2
      <4> QED BY <4>1
    <3>3. prevState' \in (Buttons \cap Straight) \cup {"Idle"}
          /\ (prevState' # "Idle" => prevState' \in held \cup missed)
      <4>1. CASE t.button \in Straight
        <5>1. t.action = "down" => t.button \in held
          BY <1>1 DEF Hand
        <5> QED BY <3>1, <4>1, <5>1 DEF NextState, TypeOK
      <4>2. CASE t.button \notin Straight
        <5>1. prevState' = prevState
          BY <3>1, <4>2 DEF NextState
        <5>2. Released \subseteq {t.button}
          BY DEF Released
        <5>3. prevState \in (Buttons \cap Straight) \cup {"Idle"} /\ "Idle" \notin Straight
          BY DEF TypeOK, Straight
        <5>4. prevState # "Idle" => prevState \in held \cup missed \cup Released
          BY <1>1 DEF Hand
        <5> QED BY <4>2, <5>1, <5>2, <5>3, <5>4
      <4> QED BY <4>1, <4>2
    <3>4. Types'
      BY <1>3, <3>1, <3>2, <3>3 DEF TypeOK, fields, binder, opening
    <3>5. Hand'
      BY <3>1, <3>3 DEF Hand
    <3>6. Client'
      BY <3>1 DEF Client, Opened, CrashIsEarlyOrReconnecting, fields, binder, opening
    <3> QED BY <3>4, <3>5, <3>6
  <2> QED BY <2>1, <2>2
<1> QED BY <1>4, <1>5, <1>6 DEF Listener

-----------------------------------------------------------------------------
(* The callbacks and the stack. *)

LEMMA HandKept ==
  ASSUME Hand, UNCHANGED ui
  PROVE  Hand'
BY DEF Hand, Released, ui

LEMMA Counted ==
  ASSUME TypeOK, Fails \/ UNCHANGED nFailures
  PROVE  nFailures' \in Nat
BY DEF TypeOK, Fails

LEMMA CallbackStep ==
  ASSUME IInv, Callback
  PROVE  IInv'
<1> USE DEF IInv, Types
<1>1. UNCHANGED ui /\ ~crashed
  BY DEF Callback, TakeCallback, CallbackAt, BinderRuns, OnConnected, OnDisconnected, CloseGatt,
         Reconnect, OnServicesMissing, OnServicesDiscovered
<1>2. Hand'
  BY <1>1, HandKept
<1>3. ~crashed' /\ UNCHANGED <<prevState, touch, crashed, held, missed>>
  BY <1>1 DEF ui
<1>4. \A e : <<e>> # <<>> /\ \A f : <<e>> = <<f>> => e = f
  OBVIOUS
<1>5. CASE TakeCallback
  <2>1. /\ callback = <<>> /\ callbacks # <<>>
        /\ callback' = <<Head(callbacks)>> /\ callbacks' = Tail(callbacks)
        /\ UNCHANGED <<fields, opening, stack>>
    BY <1>5 DEF TakeCallback
  <2>2. /\ Head(callbacks) \in Kinds /\ Head(callbacks) = callbacks[1] /\ 1 \in DOMAIN callbacks
        /\ callbacks' \in Seq(Kinds)
        /\ \A i \in DOMAIN callbacks' : i + 1 \in DOMAIN callbacks /\ callbacks'[i] = callbacks[i + 1]
        /\ \A i \in DOMAIN callbacks' : i + 1 = Len(callbacks) => i = Len(callbacks')
        /\ 1 = Len(callbacks) => callbacks' = <<>>
    BY <2>1, Shrunk
  <2>3. callback' \in Seq(Places) /\ Len(callback') <= 1
    BY <2>1, <2>2, One DEF Places
  <2>4. Types'
    BY <1>3, <2>1, <2>2, <2>3 DEF TypeOK, fields, opening, stack, radio
  <2>5. client
    BY <2>1 DEF Client, Opened
  <2>6. callback' \in Lost => Head(callbacks) = "disconnected"
    BY <1>4, <2>1, <2>2 DEF Lost, Kinds
  <2>7. callback' \in Lost => callbacks' = <<>> /\ ~link
    BY <2>2, <2>6 DEF Client
  <2>8. \A i \in DOMAIN callbacks' : callbacks'[i] = "disconnected" => i = Len(callbacks') /\ ~link
    BY <2>2 DEF Client
  <2>9. callback' # <<"reconnect">>
    BY <1>4, <2>1, <2>2 DEF Kinds
  <2>10. Opened'
    BY <2>1, <2>5 DEF Client, Opened, fields, opening, stack, radio
  <2>11. Client'
    BY <1>3, <2>1, <2>7, <2>8, <2>9, <2>10
       DEF Client, CrashIsEarlyOrReconnecting, fields, stack, radio
  <2> QED BY <1>2, <2>4, <2>11
<1>6. CASE OnConnected
  <2>1. /\ callback = <<"connected">> /\ callback' = <<>> /\ robot' = TRUE
        /\ UNCHANGED <<connection, bluetoothGatt, customCharacteristic, callbacks, link, air,
                       driving, client, assigning, created>>
    BY <1>6 DEF OnConnected, CallbackAt
  <2>9. discovering' => discovering \/ link
    BY <1>6, Zenon DEF OnConnected
  <2>7. early' \in BOOLEAN
    BY <1>6 DEF OnConnected, TypeOK
  <2>8. nFailures' \in Nat
    BY <1>6, Counted DEF OnConnected
  <2>2. callback' \in Seq(Places) /\ Len(callback') <= 1
    BY <2>1, None
  <2>3. Types'
    BY <1>3, <2>1, <2>2, <2>7, <2>8 DEF TypeOK
  <2>4. client /\ callback' \notin Lost /\ callback' # <<"reconnect">>
    BY <1>4, <2>1 DEF Client, Opened, Lost
  <2>5. Opened'
    BY <2>1, <2>4 DEF Client, Opened
  <2>6. Client'
    BY <1>3, <2>1, <2>4, <2>5, <2>9 DEF Client, CrashIsEarlyOrReconnecting
  <2> QED BY <1>2, <2>3, <2>6
<1>7. CASE OnDisconnected
  <2>1. /\ callback = <<"disconnected">> /\ callback' \in {<<"close">>, <<>>}
        /\ robot' = TRUE /\ connection' \in {connection, FALSE}
        /\ UNCHANGED <<bluetoothGatt, customCharacteristic, callbacks, opening, radio>>
    BY <1>7 DEF OnDisconnected, CallbackAt
  <2>7. nFailures' \in Nat
    BY <1>7, Counted DEF OnDisconnected
  <2>2. callback' \in Seq(Places) /\ Len(callback') <= 1
    BY <2>1, One, None DEF Places
  <2>3. Types'
    BY <1>3, <2>1, <2>2, <2>7 DEF TypeOK, opening, radio
  <2>4. client /\ callbacks = <<>> /\ ~link /\ callback' # <<"reconnect">>
    BY <1>4, <2>1 DEF Client, Opened, Lost
  <2>5. Opened'
    BY <2>1, <2>4 DEF Client, Opened, opening, radio
  <2>6. Client'
    BY <1>3, <2>1, <2>4, <2>5 DEF Client, CrashIsEarlyOrReconnecting, radio
  <2> QED BY <1>2, <2>3, <2>6
<1>8. CASE CloseGatt
  <2>1. /\ callback = <<"close">>
        /\ \/ bluetoothGatt = null /\ callback' = <<>> /\ client' = client
           \/ bluetoothGatt # null /\ callback' = <<"reconnect">> /\ client' = FALSE
        /\ bluetoothGatt' = null
        /\ UNCHANGED <<robot, connection, customCharacteristic, callbacks, assigning, created,
                       early, stack>>
    BY <1>8 DEF CloseGatt, CallbackAt
  <2>2. client /\ callbacks = <<>> /\ ~link
    BY <1>4, <2>1 DEF Client, Opened, Lost
  <2>3. callback' \in Seq(Places) /\ Len(callback') <= 1
    BY <2>1, One, None DEF Places
  <2>4. Types'
    BY <1>3, <2>1, <2>3 DEF TypeOK, stack, radio
  <2>5. Opened'
    BY <2>1, <2>2 DEF Client, Opened, stack, radio
  <2>6. callback' = <<"reconnect">> => ~client'
    BY <1>4, <2>1
  <2>7. Client'
    BY <1>3, <2>1, <2>2, <2>5, <2>6 DEF Client, CrashIsEarlyOrReconnecting, stack, radio
  <2> QED BY <1>2, <2>4, <2>7
<1>9. CASE Reconnect
  <2>1. /\ callback = <<"reconnect">> /\ callback' = <<>> /\ assigning' = "reconnect"
        /\ UNCHANGED <<fields, callbacks, created, early, radio>>
        /\ \/ client' = TRUE /\ nFailures' = nFailures
           \/ client' = client /\ nFailures' = nFailures + 1
    BY <1>9 DEF Reconnect, CallbackAt, Fails
  <2>2. callback' \in Seq(Places) /\ Len(callback') <= 1
    BY <2>1, None
  <2>3. nFailures' \in Nat /\ (~client' => nFailures' > 0)
    BY <2>1 DEF TypeOK
  <2>4. Types'
    BY <1>3, <2>1, <2>2, <2>3 DEF TypeOK, fields, radio
  <2>5. ~client /\ bluetoothGatt = null /\ callback' \notin Lost /\ callback' # <<"reconnect">>
    BY <1>4, <2>1 DEF Client, Opened, Lost
  <2>6. Opened'
    BY <2>1, <2>3, <2>5 DEF Client, Opened, fields, radio
  <2>7. Client'
    BY <1>3, <2>1, <2>5, <2>6 DEF Client, CrashIsEarlyOrReconnecting, fields, radio
  <2> QED BY <1>2, <2>4, <2>7
<1>10. CASE OnServicesMissing \/ OnServicesDiscovered
  <2>1. /\ \E place \in Places \ {"disconnected", "close", "reconnect"} : callback = <<place>>
        /\ callback' \in {<<>>, <<"established">>}
        /\ customCharacteristic' \in {customCharacteristic, null, NoValue}
        /\ UNCHANGED <<robot, bluetoothGatt, callbacks, opening, radio>>
        /\ connection' \in {connection, TRUE}
    <3>1. /\ \E place \in Places \ {"disconnected", "close", "reconnect"} : callback = <<place>>
          /\ callback' \in {<<>>, <<"established">>}
      BY <1>10 DEF OnServicesMissing, OnServicesDiscovered, CallbackAt, Places, Kinds
    <3>2. /\ customCharacteristic' \in {customCharacteristic, null, NoValue}
          /\ UNCHANGED <<robot, bluetoothGatt, callbacks, opening, radio>>
          /\ connection' \in {connection, TRUE}
      BY <1>10 DEF OnServicesMissing, OnServicesDiscovered, fields, stack
    <3> QED BY <3>1, <3>2
  <2>8. nFailures' \in Nat
    BY <1>10, Counted DEF OnServicesMissing, OnServicesDiscovered, stack
  <2>2. callback' \in Seq(Places) /\ Len(callback') <= 1
    <3>1. "established" \in Places
      BY DEF Places
    <3> QED BY <2>1, <3>1, One, None
  <2>3. callback' \notin Lost /\ callback' # <<"reconnect">>
    BY <1>4, <2>1 DEF Lost
  <2>4. Types'
    BY <1>3, <2>1, <2>2, <2>8 DEF TypeOK, opening, radio
  <2>5. client
    BY <1>4, <2>1 DEF Client, Opened
  <2>6. Opened'
    BY <2>1, <2>5 DEF Client, Opened, opening, radio
  <2>7. Client'
    BY <1>3, <2>1, <2>3, <2>6 DEF Client, CrashIsEarlyOrReconnecting, radio
  <2> QED BY <1>2, <2>4, <2>7
<1> QED BY <1>5, <1>6, <1>7, <1>8, <1>9, <1>10 DEF Callback

(* connectGatt's result is assigned, and onCreate returns, at any time. *)
LEMMA OpeningStep ==
  ASSUME IInv, Assign \/ CreateEnds
  PROVE  IInv'
<1> USE DEF IInv, Types
<1>1. UNCHANGED <<robot, customCharacteristic, ui, callback, callbacks, client, early, stack>>
  BY DEF Assign, CreateEnds
<1>2. Hand'
  BY <1>1, HandKept
<1>3. CASE Assign
  <2>1. /\ ~crashed /\ assigning' = "no" /\ UNCHANGED <<connection, created>>
        /\ bluetoothGatt' = IF client THEN "client" ELSE null
    BY <1>3 DEF Assign
  <2>2. Types'
    BY <1>1, <2>1 DEF TypeOK, ui, stack, radio
  <2>3. Opened'
    BY <1>1, <2>1 DEF Client, Opened, stack, radio, null
  <2>4. Client'
    BY <1>1, <2>1, <2>3 DEF Client, CrashIsEarlyOrReconnecting, ui, stack, radio
  <2> QED BY <1>2, <2>2, <2>4
<1>4. CASE CreateEnds
  <2>1. UNCHANGED <<bluetoothGatt, assigning>> /\ connection' = TRUE /\ created' = TRUE
    BY <1>4 DEF CreateEnds
  <2>2. Types'
    BY <1>1, <2>1 DEF TypeOK, ui, stack, radio
  <2>3. Client'
    BY <1>1, <2>1 DEF Client, Opened, CrashIsEarlyOrReconnecting, ui, stack, radio
  <2> QED BY <1>2, <2>2, <2>3
<1> QED BY <1>3, <1>4

LEMMA BluetoothStep ==
  ASSUME IInv, Bluetooth
  PROVE  IInv'
<1> USE DEF IInv, Types
<1>1. UNCHANGED <<fields, ui, callback, opening>> /\ nFailures' \in Nat
  BY DEF Bluetooth, LinkUp, LinkDown, DiscoveryEnds, WriteEnds, RobotObeys, binder, TypeOK
<1>2. Hand'
  BY <1>1, HandKept
<1>3. ASSUME callbacks' \in Seq(Kinds), air' \in Seq(Commands), driving' \in Commands \ {"Speed"}
      PROVE  Types'
  <2>1. \A i \in DOMAIN air' : air'[i] \in Commands
    BY <1>3
  <2> QED BY <1>1, <1>3, <2>1 DEF TypeOK, fields, ui, opening
<1>4. ASSUME client PROVE Opened'
  BY <1>1, <1>4 DEF Client, Opened, fields, opening
<1>5. CASE LinkUp
  <2>1. /\ client /\ ~link /\ callback = <<>> /\ ~crashed
        /\ callbacks' = <<"connected">>
        /\ UNCHANGED <<discovering, air, driving>>
    BY <1>5 DEF LinkUp
  <2>2. callbacks' \in Seq(Kinds) /\ \A i \in DOMAIN callbacks' : callbacks'[i] # "disconnected"
    BY <2>1 DEF Kinds
  <2>3. Types'
    BY <1>3, <2>1, <2>2 DEF TypeOK
  <2>4. callback \notin Lost /\ callback # <<"reconnect">> /\ ~discovering
    BY <2>1 DEF Lost, Client
  <2>5. Client'
    BY <1>1, <1>4, <2>1, <2>2, <2>4 DEF Client, CrashIsEarlyOrReconnecting, fields, ui
  <2> QED BY <1>2, <2>3, <2>5
<1>6. CASE LinkDown
  <2>1. /\ link /\ ~crashed /\ link' = FALSE /\ discovering' = FALSE /\ air' = <<>> /\ driving' = "Idle"
        /\ callbacks' = Append(callbacks, "disconnected")
    BY <1>6 DEF LinkDown
  <2>2. callbacks' \in Seq(Kinds)
        /\ \A i \in DOMAIN callbacks' : \/ i \in DOMAIN callbacks /\ callbacks'[i] = callbacks[i]
                                        \/ i = Len(callbacks')
    BY <2>1, Grown DEF Kinds
  <2>3. air' \in Seq(Commands) /\ driving' \in Commands \ {"Speed"}
    BY <2>1, None DEF Commands
  <2>4. client /\ callback \notin Lost
        /\ \A i \in DOMAIN callbacks : callbacks[i] # "disconnected"
    BY <2>1 DEF Client, Opened
  <2>5. callback # <<"reconnect">>
    BY <2>4 DEF Lost
  <2>6. Client'
    BY <1>1, <1>4, <2>1, <2>2, <2>4, <2>5 DEF Client, CrashIsEarlyOrReconnecting, fields, ui
  <2> QED BY <1>2, <1>3, <2>2, <2>3, <2>6
<1>7. CASE DiscoveryEnds
  <2>1. /\ discovering /\ ~crashed /\ discovering' = FALSE /\ UNCHANGED <<link, air, driving>>
        /\ \E kind \in {"discovered", "missing"} : callbacks' = Append(callbacks, kind)
    BY <1>7 DEF DiscoveryEnds
  <2>2. link /\ client /\ callback \notin Lost
        /\ \A i \in DOMAIN callbacks : callbacks[i] # "disconnected"
    BY <2>1 DEF Client, Opened
  <2>3. PICK kind \in {"discovered", "missing"} : callbacks' = Append(callbacks, kind)
    BY <2>1
  <2>4. callbacks' \in Seq(Kinds)
        /\ \A i \in DOMAIN callbacks' : \/ i \in DOMAIN callbacks /\ callbacks'[i] = callbacks[i]
                                        \/ callbacks'[i] = kind
    BY <2>3, Grown DEF Kinds
  <2>5. Types'
    BY <1>3, <2>1, <2>4 DEF TypeOK
  <2>6. \A i \in DOMAIN callbacks' : callbacks'[i] # "disconnected"
    BY <2>2, <2>4
  <2>7. callback # <<"reconnect">>
    BY <2>2 DEF Lost
  <2>8. Client'
    BY <1>1, <1>4, <2>1, <2>2, <2>6, <2>7 DEF Client, CrashIsEarlyOrReconnecting, fields, ui
  <2> QED BY <1>2, <2>5, <2>8
<1>8. CASE WriteEnds \/ RobotObeys
  <2>1. UNCHANGED <<callbacks, link, discovering, nFailures>>
    BY <1>8 DEF WriteEnds, RobotObeys, binder
  <2>2. air' \in Seq(Commands) /\ driving' \in Commands \ {"Speed"}
    <3>1. CASE WriteEnds
      BY <3>1 DEF WriteEnds, TypeOK
    <3>2. CASE RobotObeys
      <4>1. Head(air) \in Commands /\ Tail(air) \in Seq(Commands)
        BY <3>2, Shrunk DEF RobotObeys
      <4> QED BY <3>2, <4>1 DEF RobotObeys, TypeOK
    <3> QED BY <1>8, <3>1, <3>2
  <2>3. Types'
    BY <1>3, <2>1, <2>2
  <2>4. Client'
    BY <1>1, <2>1 DEF Client, Opened, CrashIsEarlyOrReconnecting, fields, ui, opening
  <2> QED BY <1>2, <2>3, <2>4
<1> QED BY <1>5, <1>6, <1>7, <1>8 DEF Bluetooth

-----------------------------------------------------------------------------
LEMMA InvNext == IInv /\ [RemoteNext]_remoteVars => IInv'
<1> SUFFICES ASSUME IInv, [RemoteNext]_remoteVars PROVE IInv'
  OBVIOUS
<1>1. CASE UNCHANGED remoteVars
  <2>1. Types'
    BY <1>1 DEF remoteVars, fields, ui, binder, opening, stack, radio, IInv, Types, TypeOK
  <2>2. Hand' /\ Client'
    BY <1>1, HandKept, ClientKept DEF remoteVars, ui, IInv
  <2> QED BY <2>1, <2>2 DEF IInv
<1> QED BY <1>1, OpeningStep, UserStep, ListenerStep, CallbackStep, BluetoothStep DEF RemoteNext

-----------------------------------------------------------------------------
(* The last movement. *)

LEMMA SentIsLast ==
  ASSUME Types, NEW c \in Commands, c # "Speed", air' = Append(air, c)
  PROVE  LastMovement(c)'
<1>1. air \in Seq(Commands)
  BY DEF Types
<1>2. /\ Len(air) \in Nat /\ Len(air') = Len(air) + 1 /\ DOMAIN air' = 1 .. Len(air) + 1
      /\ air'[Len(air) + 1] = c
  BY <1>1
<1>3. /\ Len(air) + 1 \in DOMAIN air' /\ \A j \in DOMAIN air' : ~(j > Len(air) + 1)
  BY <1>2
<1> QED BY <1>2, <1>3 DEF LastMovement

LEMMA SpeedIsNone ==
  ASSUME Types, NEW c, LastMovement(c), air' = Append(air, "Speed"), driving' = driving
  PROVE  LastMovement(c)'
<1>1. air \in Seq(Commands) /\ "Speed" \in Commands
  BY DEF Types, Commands
<1>2. /\ Len(air) \in Nat /\ DOMAIN air = 1 .. Len(air) /\ DOMAIN air' = 1 .. Len(air) + 1
      /\ air'[Len(air) + 1] = "Speed"
      /\ \A i \in 1 .. Len(air) : air'[i] = air[i]
  BY <1>1
<1>3. \A j \in DOMAIN air' : j \in DOMAIN air \/ j = Len(air) + 1
  BY <1>2
<1>4. CASE driving = c /\ \A i \in DOMAIN air : air[i] = "Speed"
  <2>1. \A i \in DOMAIN air' : air'[i] = "Speed"
    BY <1>2, <1>3, <1>4
  <2> QED BY <1>4, <2>1 DEF LastMovement
<1>5. CASE c # "Speed" /\ \E i \in DOMAIN air :
             air[i] = c /\ \A j \in DOMAIN air : j > i => air[j] = "Speed"
  <2>1. PICK i \in DOMAIN air : air[i] = c /\ \A j \in DOMAIN air : j > i => air[j] = "Speed"
    BY <1>5
  <2>2. i \in DOMAIN air' /\ air'[i] = c
    BY <1>2, <2>1
  <2>3. \A j \in DOMAIN air' : j > i => air'[j] = "Speed"
    BY <1>2, <1>3, <2>1
  <2> QED BY <1>5, <2>2, <2>3 DEF LastMovement
<1> QED BY <1>4, <1>5 DEF LastMovement

LEMMA ObeyedIsTold ==
  ASSUME Types, NEW c, LastMovement(c), RobotObeys
  PROVE  LastMovement(c)'
<1>1. /\ air \in Seq(Commands) /\ air # <<>> /\ air' = Tail(air)
      /\ driving' = IF air[1] = "Speed" THEN driving ELSE air[1]
  BY DEF Types, RobotObeys
<1>2. /\ Len(air) \in Nat \ {0} /\ DOMAIN air = 1 .. Len(air) /\ DOMAIN air' = 1 .. Len(air) - 1
      /\ \A i \in 1 .. Len(air) - 1 : air'[i] = air[i + 1]
  BY <1>1
<1>3. 1 \in DOMAIN air /\ \A j \in DOMAIN air' : j + 1 \in DOMAIN air /\ air'[j] = air[j + 1]
  BY <1>2
<1>4. CASE driving = c /\ \A i \in DOMAIN air : air[i] = "Speed"
  <2>1. driving' = c /\ \A i \in DOMAIN air' : air'[i] = "Speed"
    BY <1>1, <1>3, <1>4
  <2> QED BY <2>1 DEF LastMovement
<1>5. CASE c # "Speed" /\ \E i \in DOMAIN air :
             air[i] = c /\ \A j \in DOMAIN air : j > i => air[j] = "Speed"
  <2>1. PICK i \in DOMAIN air : air[i] = c /\ \A j \in DOMAIN air : j > i => air[j] = "Speed"
    BY <1>5
  <2>2. CASE i = 1
    <3>1. driving' = c
      BY <1>1, <1>5, <2>1, <2>2
    <3>2. \A j \in DOMAIN air' : j + 1 > 1
      BY <1>2
    <3>3. \A j \in DOMAIN air' : air'[j] = "Speed"
      BY <1>3, <2>1, <2>2, <3>2
    <3> QED BY <3>1, <3>3 DEF LastMovement
  <2>3. CASE i # 1
    <3>1. PICK k \in DOMAIN air' : k + 1 = i
      <4>1. i - 1 \in DOMAIN air' /\ i - 1 + 1 = i
        BY <1>2, <2>3
      <4> QED BY <4>1
    <3>2. air'[k] = c
      BY <1>3, <2>1, <3>1
    <3>3. \A j \in DOMAIN air' : j > k => j + 1 > i
      BY <1>2, <3>1
    <3>4. \A j \in DOMAIN air' : j > k => air'[j] = "Speed"
      BY <1>3, <2>1, <3>3
    <3> QED BY <1>5, <3>2, <3>4 DEF LastMovement
  <2> QED BY <2>2, <2>3
<1> QED BY <1>4, <1>5 DEF LastMovement

LEMMA LastKept ==
  ASSUME NEW c, LastMovement(c), UNCHANGED <<air, driving>>
  PROVE  LastMovement(c)'
BY DEF LastMovement

(* The accounts grow, the commands stay. *)
LEMMA AccountedKept ==
  ASSUME Accounted, UNCHANGED <<air, driving, crashed, refused>>, Accounts \subseteq Accounts'
  PROVE  Accounted'
<1> SUFFICES ASSUME ~crashed, ~refused PROVE \E c \in Accounts' : LastMovement(c)'
  BY DEF Accounted
<1>1. PICK c \in Accounts : LastMovement(c)
  BY DEF Accounted
<1> QED BY <1>1, LastKept

LEMMA ToldInit == Init => Told
<1> SUFFICES ASSUME NEW given \in BOOLEAN, OnCreate(given) PROVE Told
  BY DEF Init
<1>1. touch = <<>> /\ driving = "Idle" /\ DOMAIN air = {}
  BY None DEF OnCreate
<1>2. LastMovement("Idle")
  BY <1>1 DEF LastMovement
<1> QED BY <1>1, <1>2 DEF Told, Writing, Accounted, Accounts

LEMMA UserTold ==
  ASSUME IInv, Told, User
  PROVE  Told'
<1>1. /\ UNCHANGED <<fields, air, driving, prevState, crashed, refused>>
      /\ touch = <<>>
  BY DEF User, Press, LetGo, Cancel, Slide, stack, radio
<1>2. Released = {}
  BY <1>1 DEF Released
<1>3. ASSUME NEW button \in Buttons, NEW action \in {"down", "up"}, Listen(button, action)
      PROVE  Writing'
  <2>1. PICK t : /\ touch' = <<t>> /\ t.button = button /\ t.action = action /\ t.at = "check"
                 /\ t.command = CommandOf(button, action)
    BY <1>3 DEF Listen
  <2> QED BY <1>1, <1>3, <2>1 DEF Writing, CommandOf
<1>4. ASSUME NEW button \in Buttons, Press(button)
      PROVE  Told'
  <2>1. held' = held \cup {button} /\ missed' = missed \ {button} /\ Listen(button, "down")
    BY <1>4 DEF Press
  <2>2. Accounts \subseteq Accounts'
    BY <1>2, <2>1 DEF Accounts
  <2>3. Writing'
    BY <1>3, <2>1
  <2> QED BY <1>1, <2>2, <2>3, AccountedKept DEF Told
<1>5. ASSUME NEW button \in Buttons, LetGo(button)
      PROVE  Told'
  <2>1. held' = held \ {button} /\ missed' = missed /\ Listen(button, "up")
    BY <1>5 DEF LetGo
  <2>2. Released' = {button}
    BY <2>1 DEF Listen, Released
  <2>3. Accounts \subseteq Accounts'
    BY <1>2, <2>1, <2>2 DEF Accounts
  <2>4. Writing'
    BY <1>3, <2>1
  <2> QED BY <1>1, <2>3, <2>4, AccountedKept DEF Told
<1>6. ASSUME NEW button \in Buttons, Cancel(button)
      PROVE  Told'
  <2>1. held' = held \ {button} /\ missed' = missed \cup {button} /\ touch' = touch
    BY <1>6 DEF Cancel
  <2>2. Accounts \subseteq Accounts'
    BY <1>2, <2>1 DEF Accounts
  <2>3. Writing'
    BY <1>1, <2>1 DEF Writing
  <2> QED BY <1>1, <2>2, <2>3, AccountedKept DEF Told
<1>7. CASE Slide
  <2>1. held' = held /\ missed' = missed
    BY <1>7 DEF Slide
  <2>2. Accounts \subseteq Accounts'
    BY <1>2, <2>1 DEF Accounts
  <2>3. Writing'
    BY <1>7 DEF Slide, Writing
  <2> QED BY <1>1, <2>2, <2>3, AccountedKept DEF Told
<1> QED BY <1>4, <1>5, <1>6, <1>7 DEF User

LEMMA WriteTold ==
  ASSUME IInv, Told, WriteCharacteristic, bluetoothGatt # null, customCharacteristic # null
  PROVE  Accounted'
<1> DEFINE t == touch[1]
           accepted == link /\ ~busy /\ customCharacteristic # NoValue
<1>1. touch # <<>> /\ t.at = "write" /\ Types /\ Hand /\ t \in Touches
  BY First DEF WriteCharacteristic, TouchAt, IInv, Types
<1>2. /\ air' = IF accepted THEN Append(air, customCharacteristic) ELSE air
      /\ refused' = IF t.command = "Speed" THEN refused ELSE ~accepted
      /\ touch' = <<>> /\ UNCHANGED <<driving, crashed, held, missed>>
  BY DEF WriteCharacteristic
<1>3. /\ customCharacteristic \in {t.command, NoValue}
      /\ t.action = "down" => t.command = t.button
      /\ t.action = "up" => t.command = IF t.button \in Straight THEN "Idle" ELSE prevState
      /\ t.action = "slide" => t.command = "Speed"
  BY <1>1 DEF Told, Writing
<1>4. Accounts' = {"Idle"} \cup held \cup missed
  BY <1>2 DEF Accounts, Released
<1> SUFFICES ASSUME ~crashed, ~refused' PROVE \E c \in Accounts' : LastMovement(c)'
  BY <1>2 DEF Accounted
<1>5. t.action \in {"down", "up", "slide"} /\ t.command \in Commands
  BY <1>1 DEF Touches
<1>6. t.command # "Speed" => t.command \in {"Idle"} \cup held \cup missed
  <2>1. CASE t.action = "down"
    BY <1>1, <1>3, <2>1 DEF Hand
  <2>2. CASE t.action = "up"
    <3>1. Released = {t.button}
      BY <1>1, <2>2 DEF Released
    <3>2. prevState # "Idle" => prevState \in held \cup missed \cup {t.button}
      BY <1>1, <3>1 DEF Hand
    <3>3. prevState # "Idle" => prevState \in Straight
      BY <1>1 DEF Types, TypeOK
    <3> QED BY <1>3, <2>2, <3>2, <3>3
  <2> QED BY <1>3, <1>5, <2>1, <2>2
<1>7. CASE t.command = "Speed"
  <2>1. ~refused
    BY <1>2, <1>7
  <2>2. PICK c \in Accounts : LastMovement(c)
    BY <2>1 DEF Told, Accounted
  <2>3. LastMovement(c)'
    <3>1. CASE accepted
      <4>1. air' = Append(air, "Speed") /\ driving' = driving
        BY <1>2, <1>3, <1>7, <3>1
      <4> QED BY <1>1, <2>2, <4>1, SpeedIsNone
    <3>2. CASE ~accepted
      <4>1. UNCHANGED <<air, driving>>
        BY <1>2, <3>2
      <4> QED BY <2>2, <4>1, LastKept
    <3> QED BY <3>1, <3>2
  <2>4. t.action = "slide"
    <3>1. t.button \notin {"Speed"} \/ t.action # "down"
      BY <1>1, RemoteAssumption DEF Hand, Types, TypeOK
    <3>2. prevState # "Speed"
      BY <1>1 DEF Types, TypeOK, Straight
    <3> QED BY <1>3, <1>5, <1>7, <3>1, <3>2
  <2>5. Released = {}
    BY <2>4 DEF Released
  <2> QED BY <1>4, <2>2, <2>3, <2>5 DEF Accounts
<1>8. CASE t.command # "Speed"
  <2>1. accepted
    BY <1>2, <1>8
  <2>2. air' = Append(air, t.command)
    BY <1>2, <1>3, <2>1
  <2>3. PICK c \in Commands : c = t.command
    BY <1>5
  <2>4. c # "Speed" /\ air' = Append(air, c) /\ c \in Accounts'
    BY <1>4, <1>6, <1>8, <2>2, <2>3
  <2>5. LastMovement(c)'
    BY <1>1, <2>4, SentIsLast
  <2> QED BY <2>4, <2>5
<1> QED BY <1>7, <1>8

LEMMA ListenerTold ==
  ASSUME IInv, Told, Listener
  PROVE  Told'
<1> DEFINE t == touch[1]
<1>1. touch # <<>> /\ ~crashed /\ t \in Touches
  BY First DEF Listener, CheckConnection, SetValue, WriteCharacteristic, TouchAt, UiRuns, IInv, Types
<1>2. ASSUME NEW place \in {"check", "set", "write"}, touch' = <<[t EXCEPT !.at = place]>>
      PROVE  /\ touch' # <<>> /\ touch'[1].at = place /\ touch'[1].command = t.command
             /\ touch'[1].button = t.button /\ touch'[1].action = t.action
  <2>1. /\ [t EXCEPT !.at = place].button = t.button /\ [t EXCEPT !.at = place].action = t.action
        /\ [t EXCEPT !.at = place].at = place /\ [t EXCEPT !.at = place].command = t.command
    BY <1>1 DEF Touches
  <2> QED BY <1>2, <2>1
<1>3. Crash => Told'
  BY DEF Crash, Told, Writing, Accounted
<1>4. CASE CheckConnection
  <2>1. UNCHANGED <<fields, air, driving, prevState, crashed, refused, held>>
    BY <1>4 DEF CheckConnection, stack, radio
  <2>2. CASE connection
    <3>1. touch' = <<[t EXCEPT !.at = "set"]>> /\ missed' = missed
      BY <1>4, <2>2 DEF CheckConnection
    <3>2. /\ touch' # <<>> /\ touch'[1].at = "set" /\ touch'[1].command = t.command
          /\ touch'[1].button = t.button /\ touch'[1].action = t.action
      BY <1>2, <3>1
    <3>3. Writing'
      BY <1>1, <2>1, <3>2 DEF Told, Writing
    <3>4. Accounts' = Accounts
      BY <1>1, <2>1, <3>1, <3>2 DEF Accounts, Released
    <3> QED BY <2>1, <3>3, <3>4, AccountedKept DEF Told
  <2>3. CASE ~connection
    <3>1. touch' = <<>> /\ missed' = missed \cup Released
      BY <1>1, <1>4, <2>3 DEF CheckConnection, Released
    <3>2. Accounts \subseteq Accounts'
      BY <2>1, <3>1 DEF Accounts
    <3>3. Writing'
      BY <3>1 DEF Writing
    <3> QED BY <2>1, <3>2, <3>3, AccountedKept DEF Told
  <2> QED BY <2>2, <2>3
<1>5. CASE SetValue
  <2>1. CASE customCharacteristic = null
    BY <1>3, <1>5, <2>1 DEF SetValue
  <2>2. CASE customCharacteristic # null
    <3>1. /\ customCharacteristic' = t.command
          /\ touch' = <<[t EXCEPT !.at = "write"]>>
          /\ UNCHANGED <<air, driving, prevState, crashed, refused, held, missed>>
      BY <1>5, <2>2 DEF SetValue, stack, radio
    <3>2. /\ touch' # <<>> /\ touch'[1].at = "write" /\ touch'[1].command = t.command
          /\ touch'[1].button = t.button /\ touch'[1].action = t.action
      BY <1>2, <3>1
    <3>3. Writing'
      BY <1>1, <3>1, <3>2 DEF Told, Writing
    <3>4. Accounts' = Accounts
      BY <1>1, <3>1, <3>2 DEF Accounts, Released
    <3> QED BY <3>1, <3>3, <3>4, AccountedKept DEF Told
  <2> QED BY <2>1, <2>2
<1>6. CASE WriteCharacteristic
  <2>1. CASE bluetoothGatt = null \/ customCharacteristic = null
    BY <1>3, <1>6, <2>1 DEF WriteCharacteristic
  <2>2. CASE ~(bluetoothGatt = null \/ customCharacteristic = null)
    <3>1. touch' = <<>>
      BY <1>6, <2>2 DEF WriteCharacteristic
    <3>2. Writing'
      BY <3>1 DEF Writing
    <3> QED BY <1>6, <2>2, <3>2, WriteTold DEF Told
  <2> QED BY <2>1, <2>2
<1> QED BY <1>4, <1>5, <1>6 DEF Listener

(* The callbacks write no command; the stack drops all of them or none. *)
LEMMA OthersTold ==
  ASSUME IInv, Told, Assign \/ CreateEnds \/ Callback \/ Bluetooth
  PROVE  Told'
<1>1. /\ UNCHANGED ui
      /\ customCharacteristic' \in {customCharacteristic, null, NoValue}
  BY DEF Assign, CreateEnds, Callback, TakeCallback, OnConnected, OnDisconnected, CloseGatt,
         Reconnect, OnServicesMissing,
         OnServicesDiscovered, Bluetooth, LinkUp, LinkDown, DiscoveryEnds, WriteEnds, RobotObeys, fields
<1>2. UNCHANGED <<prevState, touch, crashed, held, missed, refused>>
  BY <1>1 DEF ui
<1>3. Accounts' = Accounts
  BY <1>2 DEF Accounts, Released
<1>4. Writing'
  BY <1>1, <1>2 DEF Told, Writing
<1>5. CASE Assign \/ CreateEnds \/ Callback \/ LinkUp \/ DiscoveryEnds \/ WriteEnds
  <2>1. UNCHANGED <<air, driving>>
    BY <1>5 DEF Assign, CreateEnds, Callback, TakeCallback, OnConnected, OnDisconnected, CloseGatt, Reconnect,
       OnServicesMissing, OnServicesDiscovered, LinkUp, DiscoveryEnds, WriteEnds, stack, radio
  <2> QED BY <1>2, <1>3, <1>4, <2>1, AccountedKept DEF Told
<1>6. CASE LinkDown
  <2>1. driving' = "Idle" /\ DOMAIN air' = {}
    BY <1>6, None DEF LinkDown
  <2>2. LastMovement("Idle")'
    BY <2>1 DEF LastMovement
  <2> QED BY <1>4, <2>2 DEF Told, Accounted, Accounts
<1>7. CASE RobotObeys
  <2>1. \A c : LastMovement(c) => LastMovement(c)'
    BY <1>7, ObeyedIsTold DEF IInv
  <2> QED BY <1>2, <1>3, <1>4, <2>1 DEF Told, Accounted
<1> QED BY <1>5, <1>6, <1>7 DEF Bluetooth

LEMMA ToldNext == IInv /\ Told /\ [RemoteNext]_remoteVars => Told'
<1> SUFFICES ASSUME IInv, Told, [RemoteNext]_remoteVars PROVE Told'
  OBVIOUS
<1>1. CASE UNCHANGED remoteVars
  BY <1>1, AccountedKept DEF remoteVars, fields, ui, binder, opening, stack, radio, Told, Writing, Accounts, Released
<1> QED BY <1>1, UserTold, ListenerTold, OthersTold DEF RemoteNext

\* The fields of the activity keep their types; robot and connection are never
\* anything but flags, whatever the two threads do.
THEOREM TypeCorrect == Spec => []TypeOK
<1>1. IInv => TypeOK
  BY DEF IInv, Types
<1> QED BY InvInit, InvNext, <1>1, PTL DEF Spec

\* prevState names a held button, or one whose release the app missed, over
\* any sequence of presses, releases, cancelled touches and lost links.
THEOREM PrevStateIsAlwaysHeld == Spec => []PrevStateIsHeld
<1>1. IInv => PrevStateIsHeld
  BY DEF IInv, Hand, Released, PrevStateIsHeld
<1> QED BY InvInit, InvNext, <1>1, PTL DEF Spec

\* A listener dereferences null only before a discovery has given it the
\* characteristic, while the callback of a lost link replaces bluetoothGatt and
\* until the new client is assigned, or where connectGatt gave none: for any
\* interleaving of listeners, callbacks and the late assignment.
THEOREM CrashesOnlyThere == Spec => []CrashIsEarlyOrReconnecting
<1>1. IInv => CrashIsEarlyOrReconnecting
  BY DEF IInv, Client
<1> QED BY InvInit, InvNext, <1>1, PTL DEF Spec

\* When no finger is on a button, the last movement the robot was told is the
\* stop: whatever buttons were held together, and however the callbacks ran in
\* between, unless the app missed a release or the stack refused a write.
THEOREM ReleasedIsAlwaysStopped == Spec => []ReleasedIsStopped
<1>1. IInv /\ Told => ReleasedIsStopped
  BY DEF Told, Accounted, Accounts, Released, ReleasedIsStopped
<1> QED BY InvInit, InvNext, ToldInit, ToldNext, <1>1, PTL DEF Spec

=============================================================================
