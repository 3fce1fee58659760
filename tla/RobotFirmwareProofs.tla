------------------------- MODULE RobotFirmwareProofs -------------------------
(***************************************************************************)
(* Theorems about RobotFirmware, for any number of packets and any bounds. *)
(*                                                                         *)
(* Undelivered, the events on their way to user_notify, grows at its end   *)
(* in a step of the controller, loses its head when an event is handed     *)
(* over, loses any event when the host discards one, and stays as it is    *)
(* when the interrupt moves an event from the controller to the host.      *)
(***************************************************************************)
EXTENDS RobotFirmware, SequenceTheorems, TLAPS

(* A server starts no GATT procedure. *)
Server == BLE_Role = "SERVER" /\ procedure = <<>>

(* The chance to connect is in one place at a time: due to be asked for,    *)
(* open in the controller, or used by a link or by what is left of it.  No  *)
(* event is on its way until a link uses it.                                *)
Due == set_connectable /\ pc # "connecting"

OnePlace ==
  /\ Due => ~open /\ ~link /\ Undelivered = <<>>
  /\ open => ~link /\ Undelivered = <<>>
  /\ open \/ link => \A i \in DOMAIN Undelivered : Undelivered[i] # "disconnected"
  /\ \A i \in DOMAIN Undelivered : Undelivered[i] = "disconnected" => i = Len(Undelivered)

(* Events that start or stop the robot. *)
Decisive == {"move", "stop", "disconnected"}

(* While nothing is discarded, the last decisive event on its way agrees    *)
(* with the peer's last command; with none on its way, the robot does.      *)
Obeyed ==
  ~discarded =>
    /\ \A i \in DOMAIN Undelivered :
         /\ Undelivered[i] \in Decisive
         /\ \A j \in DOMAIN Undelivered : i < j => Undelivered[j] \notin Decisive
         => (Undelivered[i] = "move" <=> commanded = "move")
    /\ (\A i \in DOMAIN Undelivered : Undelivered[i] \notin Decisive) =>
         (moving <=> commanded = "move")

(* The report of a link is the first event until it has been handled, and   *)
(* the message of the button is sent to a peer only.                        *)
Announced ==
  /\ link => connected \/ (Undelivered # <<>> /\ Undelivered[1] = "connected")
  /\ pc = "send" => connected

IInv == TypeOK /\ moving \in BOOLEAN /\ Server /\ OnePlace /\ Announced /\ Obeyed

-----------------------------------------------------------------------------
(* Queues in series. *)

LEMMA HeadAndTail ==
  ASSUME NEW K, NEW s \in Seq(K), s # <<>>
  PROVE  /\ Head(s) \in K /\ Tail(s) \in Seq(K) /\ Len(s) \in Nat \ {0}
         /\ Len(Tail(s)) = Len(s) - 1
         /\ Head(s) = s[1] /\ \A i \in 1 .. Len(s) - 1 : Tail(s)[i] = s[i + 1]
         /\ s = <<Head(s)>> \o Tail(s)
<1>1. /\ Head(s) \in K /\ Tail(s) \in Seq(K) /\ Len(s) \in Nat \ {0}
      /\ Len(Tail(s)) = Len(s) - 1
      /\ Head(s) = s[1] /\ \A i \in 1 .. Len(s) - 1 : Tail(s)[i] = s[i + 1]
  OBVIOUS
<1>2. SubSeq(s, 1, Len(s)) = s /\ Tail(s) = SubSeq(s, 2, Len(s))
  BY SubSeqFull, TailIsSubSeq
<1>3. 1 \in 1 .. Len(s) /\ Len(s) \in 1 .. Len(s) /\ 1 + 1 = 2
  BY <1>1
<1>4. SubSeq(s, 1, Len(s)) = <<s[1]>> \o SubSeq(s, 1 + 1, Len(s))
  BY <1>3, SubSeqRecursiveFirst
<1> QED BY <1>1, <1>2, <1>3, <1>4

(* An event that moves from one queue to the next stays in its place. *)
LEMMA PassedOn ==
  ASSUME NEW K, NEW s \in Seq(K), NEW t \in Seq(K), t # <<>>
  PROVE  Append(s, Head(t)) \o Tail(t) = s \o t
<1>1. Head(t) \in K /\ Tail(t) \in Seq(K) /\ t = <<Head(t)>> \o Tail(t)
  BY HeadAndTail
<1>2. Append(s, Head(t)) = s \o <<Head(t)>> /\ <<Head(t)>> \in Seq(K)
  BY <1>1, AppendIsConcat
<1>3. (s \o <<Head(t)>>) \o Tail(t) = s \o (<<Head(t)>> \o Tail(t))
  BY <1>1, <1>2, ConcatAssociative
<1> QED BY <1>1, <1>2, <1>3

LEMMA Joined ==
  ASSUME NEW K, NEW s \in Seq(K), NEW t \in Seq(K)
  PROVE  /\ s \o t \in Seq(K) /\ Len(s \o t) = Len(s) + Len(t)
         /\ Len(s) \in Nat /\ Len(t) \in Nat
         /\ \A i \in 1 .. Len(s) + Len(t) :
              (s \o t)[i] = IF i <= Len(s) THEN s[i] ELSE t[i - Len(s)]
BY ConcatProperties, LenProperties

LEMMA Grown ==
  ASSUME NEW K, NEW s \in Seq(K), NEW t \in Seq(K), NEW e \in K
  PROVE  /\ s \o Append(t, e) \in Seq(K)
         /\ Len(s \o t) \in Nat /\ Len(s \o Append(t, e)) = Len(s \o t) + 1
         /\ \A i \in 1 .. Len(s \o t) : (s \o Append(t, e))[i] = (s \o t)[i]
         /\ (s \o Append(t, e))[Len(s \o t) + 1] = e
<1>1. <<e>> \in Seq(K) /\ s \o t \in Seq(K)
  BY ConcatProperties
<1>2. Append(t, e) = t \o <<e>> /\ Append(s \o t, e) = (s \o t) \o <<e>>
  BY <1>1, AppendIsConcat
<1>3. s \o Append(t, e) = Append(s \o t, e)
  BY <1>1, <1>2, ConcatAssociative
<1> HIDE <1>2
<1> QED BY <1>1, <1>3, AppendProperties, LenProperties

LEMMA Shrunk ==
  ASSUME NEW K, NEW s \in Seq(K), NEW t \in Seq(K), s # <<>>
  PROVE  /\ Tail(s) \o t \in Seq(K) /\ s \o t \in Seq(K)
         /\ Len(s \o t) \in Nat \ {0} /\ Len(Tail(s) \o t) = Len(s \o t) - 1
         /\ \A i \in 1 .. Len(s \o t) - 1 : (Tail(s) \o t)[i] = (s \o t)[i + 1]
         /\ (s \o t)[1] = Head(s)
<1>1. /\ Head(s) \in K /\ Tail(s) \in Seq(K) /\ Len(s) \in Nat \ {0}
      /\ Len(Tail(s)) = Len(s) - 1
      /\ Head(s) = s[1] /\ \A i \in 1 .. Len(s) - 1 : Tail(s)[i] = s[i + 1]
  BY HeadAndTail
<1>2. /\ s \o t \in Seq(K) /\ Len(s \o t) = Len(s) + Len(t) /\ Len(t) \in Nat
      /\ \A i \in 1 .. Len(s) + Len(t) :
           (s \o t)[i] = IF i <= Len(s) THEN s[i] ELSE t[i - Len(s)]
  BY Joined
<1>3. /\ Tail(s) \o t \in Seq(K) /\ Len(Tail(s) \o t) = Len(s) - 1 + Len(t)
      /\ \A i \in 1 .. Len(s) - 1 + Len(t) :
           (Tail(s) \o t)[i] = IF i <= Len(s) - 1 THEN Tail(s)[i] ELSE t[i - (Len(s) - 1)]
  BY <1>1, Joined
<1>4. (s \o t)[1] = Head(s)
  BY <1>1, <1>2
<1>5. ASSUME NEW i \in 1 .. Len(s \o t) - 1 PROVE (Tail(s) \o t)[i] = (s \o t)[i + 1]
  <2>1. i \in 1 .. Len(s) - 1 + Len(t) /\ i + 1 \in 1 .. Len(s) + Len(t)
    BY <1>1, <1>2
  <2>2. CASE i <= Len(s) - 1
    BY <1>1, <1>2, <1>3, <2>1, <2>2
  <2>3. CASE ~(i <= Len(s) - 1)
    <3>1. i - (Len(s) - 1) = i + 1 - Len(s) /\ ~(i + 1 <= Len(s))
      BY <1>1, <2>1, <2>3
    <3> QED BY <1>2, <1>3, <2>1, <2>3, <3>1
  <2> QED BY <2>2, <2>3
<1> QED BY <1>1, <1>2, <1>3, <1>4, <1>5

LEMMA FrontOf ==
  ASSUME NEW K, NEW s \in Seq(K), s # <<>>
  PROVE  /\ SubSeq(s, 1, Len(s) - 1) \in Seq(K)
         /\ Len(s) \in Nat \ {0} /\ Len(SubSeq(s, 1, Len(s) - 1)) = Len(s) - 1
         /\ \A i \in 1 .. Len(s) - 1 : SubSeq(s, 1, Len(s) - 1)[i] = s[i]
<1>1. Len(s) \in Nat \ {0} /\ Len(s) - 1 \in Int /\ 1 \in Int
  OBVIOUS
<1>2. \A i \in 1 .. Len(s) - 1 : s[i] \in K
  BY <1>1
<1>3. /\ SubSeq(s, 1, Len(s) - 1) \in Seq(K)
      /\ Len(SubSeq(s, 1, Len(s) - 1)) = IF 1 <= Len(s) - 1 THEN Len(s) - 1 - 1 + 1 ELSE 0
      /\ \A i \in 1 .. Len(s) - 1 - 1 + 1 : SubSeq(s, 1, Len(s) - 1)[i] = s[1 + i - 1]
  BY <1>1, <1>2, SubSeqProperties
<1>4. Len(s) - 1 - 1 + 1 = Len(s) - 1 /\ \A i \in 1 .. Len(s) - 1 : 1 + i - 1 = i
  BY <1>1
<1> QED BY <1>1, <1>3, <1>4

(* An event that is discarded: the others keep their order. *)
LEMMA CutNewest ==
  ASSUME NEW K, NEW s \in Seq(K), NEW t \in Seq(K), s # <<>>
  PROVE  LET u == SubSeq(s, 1, Len(s) - 1) \o t
         IN  /\ u \in Seq(K)
             /\ \A i \in 1 .. Len(u) :
                  \E j \in 1 .. Len(s \o t) :
                    u[i] = (s \o t)[j] /\ (j = Len(s \o t) => i = Len(u))
<1> DEFINE f == SubSeq(s, 1, Len(s) - 1)
<1>1. /\ f \in Seq(K) /\ Len(s) \in Nat \ {0} /\ Len(f) = Len(s) - 1
      /\ \A i \in 1 .. Len(s) - 1 : f[i] = s[i]
  BY FrontOf
<1> HIDE DEF f
<1>2. /\ Len(s \o t) = Len(s) + Len(t) /\ Len(t) \in Nat
      /\ \A i \in 1 .. Len(s) + Len(t) :
           (s \o t)[i] = IF i <= Len(s) THEN s[i] ELSE t[i - Len(s)]
  BY Joined
<1>3. /\ f \o t \in Seq(K) /\ Len(f \o t) = Len(f) + Len(t)
      /\ \A i \in 1 .. Len(f) + Len(t) :
           (f \o t)[i] = IF i <= Len(f) THEN f[i] ELSE t[i - Len(f)]
  BY <1>1, Joined
<1>4. ASSUME NEW i \in 1 .. Len(f \o t)
      PROVE  \E j \in 1 .. Len(s \o t) :
               (f \o t)[i] = (s \o t)[j] /\ (j = Len(s \o t) => i = Len(f \o t))
  <2>1. i \in 1 .. Len(s) - 1 + Len(t)
    BY <1>1, <1>3
  <2>2. CASE i <= Len(s) - 1
    <3>1. i \in 1 .. Len(s) - 1 /\ i \in 1 .. Len(s \o t) /\ i # Len(s \o t)
      BY <1>1, <1>2, <2>1, <2>2
    <3>2. (f \o t)[i] = (s \o t)[i]
      BY <1>1, <1>2, <1>3, <2>1, <2>2, <3>1
    <3> QED BY <3>1, <3>2
  <2>3. CASE ~(i <= Len(s) - 1)
    <3>1. /\ i + 1 \in 1 .. Len(s) + Len(t) /\ ~(i + 1 <= Len(s))
          /\ i + 1 - Len(s) = i - (Len(s) - 1)
          /\ i + 1 = Len(s) + Len(t) => i = Len(s) - 1 + Len(t)
      BY <1>1, <1>2, <2>1, <2>3
    <3>2. (f \o t)[i] = t[i - (Len(s) - 1)] /\ (s \o t)[i + 1] = t[i + 1 - Len(s)]
      BY <1>1, <1>2, <1>3, <2>1, <2>3, <3>1
    <3> QED BY <1>1, <1>2, <1>3, <3>1, <3>2
  <2> QED BY <2>2, <2>3
<1> QED BY <1>3, <1>4 DEF f

LEMMA CutOldest ==
  ASSUME NEW K, NEW s \in Seq(K), NEW t \in Seq(K), s # <<>>
  PROVE  LET u == Tail(s) \o t
         IN  /\ u \in Seq(K)
             /\ \A i \in 1 .. Len(u) :
                  \E j \in 1 .. Len(s \o t) :
                    u[i] = (s \o t)[j] /\ (j = Len(s \o t) => i = Len(u))
<1>1. /\ Tail(s) \o t \in Seq(K)
      /\ Len(s \o t) \in Nat \ {0} /\ Len(Tail(s) \o t) = Len(s \o t) - 1
      /\ \A i \in 1 .. Len(s \o t) - 1 : (Tail(s) \o t)[i] = (s \o t)[i + 1]
  BY Shrunk
<1>2. ASSUME NEW i \in 1 .. Len(Tail(s) \o t)
      PROVE  \E j \in 1 .. Len(s \o t) :
               (Tail(s) \o t)[i] = (s \o t)[j] /\ (j = Len(s \o t) => i = Len(Tail(s) \o t))
  <2>1. i \in 1 .. Len(s \o t) - 1 /\ i + 1 \in 1 .. Len(s \o t)
        /\ (i + 1 = Len(s \o t) => i = Len(Tail(s) \o t))
    BY <1>1
  <2> QED BY <1>1, <2>1
<1> QED BY <1>1, <1>2

-----------------------------------------------------------------------------
(* The steps. *)

Heard(e) == IF e \in {"move", "stop"} THEN e ELSE IF e = "disconnected" THEN "stop" ELSE commanded

LEMMA Raises ==
  ASSUME TypeOK, Server, ControllerStep
  PROVE  \E e \in Host!EventKinds :
           /\ remote' = Append(remote, e) /\ commanded' = Heard(e)
           /\ \/ e = "connected" /\ open /\ ~open' /\ link'
              \/ e = "disconnected" /\ link /\ ~link' /\ open' = open
              \/ e \notin {"connected", "disconnected"} /\ link /\ link' = link /\ open' = open
           /\ UNCHANGED <<local, handed, listening, discarded, moving, connected,
                          set_connectable, BLE_Role, procedure, pc>>
<1>1. /\ UNCHANGED <<local, handed, listening, discarded>>
      /\ remote \in Seq(Host!EventKinds)
      /\ commanded' = IF Raised \in {"move", "stop"} THEN Raised
                      ELSE IF Raised = "disconnected" THEN "stop" ELSE commanded
  BY DEF ControllerStep, TypeOK
<1>2. ASSUME NEW e \in Host!EventKinds, remote' = remote \o <<e>>
      PROVE  remote' = Append(remote, e) /\ commanded' = Heard(e)
  <2>1. remote' = Append(remote, e)
    BY <1>1, <1>2
  <2>2. Raised = e
    BY <1>1, <2>1 DEF Raised
  <2> QED BY <1>1, <2>1, <2>2 DEF Heard
<1>3. Controller!Connect \/ Controller!Disconnect \/ Controller!PeerWrites
  BY DEF ControllerStep, Controller!Controller, Controller!Refuse, Controller!ProcedureEnds, Server
<1>4. CASE Controller!Connect
  <2>1. remote' = remote \o <<"connected">> /\ "connected" \in Host!EventKinds
    BY <1>4 DEF Controller!Connect, Controller!Report, Host!EventKinds
  <2>2. /\ open /\ ~open' /\ link'
        /\ UNCHANGED <<moving, connected, set_connectable, BLE_Role, procedure, pc>>
    BY <1>4 DEF Controller!Connect, Controller!host, Controller!service
  <2> QED BY <1>1, <1>2, <2>1, <2>2
<1>5. CASE Controller!Disconnect
  <2>1. remote' = remote \o <<"disconnected">> /\ "disconnected" \in Host!EventKinds
    BY <1>5 DEF Controller!Disconnect, Controller!Report, Host!EventKinds, Server
  <2>2. /\ link /\ ~link' /\ open' = open /\ procedure' = <<>> /\ procedure = <<>>
        /\ UNCHANGED <<moving, connected, set_connectable, BLE_Role, pc>>
    BY <1>5 DEF Controller!Disconnect, Controller!host, Controller!service, Server
  <2> QED BY <1>1, <1>2, <2>1, <2>2
<1>6. CASE Controller!PeerWrites
  <2>1. PICK e \in {"move", "stop", "subscribe", "unsubscribe"} : Controller!Report(<<e>>)
    BY <1>6 DEF Controller!PeerWrites
  <2>2. remote' = remote \o <<e>> /\ e \in Host!EventKinds
    BY <2>1 DEF Controller!Report, Host!EventKinds
  <2>3. /\ link /\ link' = link /\ open' = open /\ e \notin {"connected", "disconnected"}
        /\ UNCHANGED <<moving, connected, set_connectable, BLE_Role, procedure, pc>>
    BY <1>6, <2>1 DEF Controller!PeerWrites, Controller!host, Controller!service
  <2> QED BY <1>1, <1>2, <2>2, <2>3
<1> QED BY <1>3, <1>4, <1>5, <1>6

(* What a step of the main loop outside user_notify may do. *)
LEMMA Turns ==
  ASSUME Server, UserProcess
  PROVE  /\ Server' /\ UNCHANGED <<queues, listening, ghosts, moving, connected, link>>
         /\ \/ (Due' => Due) /\ open' = open
            \/ Due /\ ~Due' /\ open' = ~link
         /\ pc' = "send" => connected
<1>1. UNCHANGED <<queues, listening, ghosts>>
  BY DEF UserProcess
<1>2. CASE Host!MakeConnection
  BY <1>1, <1>2 DEF Host!MakeConnection, Host!RequestFails, Host!radio, Host!service, Server, Due
<1>3. CASE Host!MadeConnection
  BY <1>1, <1>3 DEF Host!MadeConnection, Host!radio, Server, Due
<1>4. CASE Host!Discover
  BY <1>1, <1>4 DEF Host!Discover, Host!radio, Server, Due
<1>5. CASE Host!EnableNotification
  BY <1>1, <1>5 DEF Host!EnableNotification, Host!radio, Server, Due
<1>6. CASE Host!Button \/ Host!SendData \/ Host!EventsDone
  BY <1>1, <1>6 DEF Host!Button, Host!SendData, Host!EventsDone, Host!radio, Host!service, Server, Due
<1> QED BY <1>2, <1>3, <1>4, <1>5, <1>6 DEF UserProcess, Host!UserProcess

(* user_notify is handed the oldest event. *)
LEMMA Notified ==
  ASSUME UserEvtProc
  PROVE  /\ pc = "events" /\ local # <<>> /\ local' = Tail(local) /\ handed' = <<Head(local)>>
         /\ UNCHANGED <<remote, listening, commanded, discarded, open, link, procedure, BLE_Role>>
         /\ moving' = CASE Head(local) = "disconnected" -> FALSE
                        [] Head(local) \in {"move", "stop"} -> Head(local) = "move"
                        [] OTHER -> moving
         /\ set_connectable' = (IF Head(local) = "disconnected" THEN TRUE ELSE set_connectable)
         /\ pc' = pc
         /\ connected' = CASE Head(local) = "disconnected" -> FALSE
                           [] Head(local) \in {"connected", "refused"} -> TRUE
                           [] OTHER -> connected
<1> DEFINE kind == Head(local)
<1>1. /\ pc = "events" /\ local # <<>> /\ local' = Tail(local) /\ handed' = <<kind>>
      /\ UNCHANGED <<remote, listening, commanded, discarded, open, link, procedure, BLE_Role, pc>>
  BY DEF UserEvtProc, Host!UserEvtRx, Channel!Deliver, ghosts
<1>2. \/ Host!GAP_ConnectionComplete_CB(kind)
      \/ Host!GAP_DisconnectionComplete_CB(kind)
      \/ Host!Robot_ParseCommand(kind)
      \/ Host!Attribute_Modified_CB(kind)
      \/ Host!CharacteristicFound(kind)
      \/ Host!ProcedureComplete(kind)
  BY DEF UserEvtProc, Host!UserEvtRx
<1> HIDE DEF kind
<1>3. /\ moving' = CASE kind = "disconnected" -> FALSE
                     [] kind \in {"move", "stop"} -> kind = "move"
                     [] OTHER -> moving
      /\ set_connectable' = (IF kind = "disconnected" THEN TRUE ELSE set_connectable)
      /\ connected' = CASE kind = "disconnected" -> FALSE
                        [] kind \in {"connected", "refused"} -> TRUE
                        [] OTHER -> connected
  <2>1. CASE Host!GAP_ConnectionComplete_CB(kind)
    BY <2>1 DEF Host!GAP_ConnectionComplete_CB
  <2>2. CASE Host!GAP_DisconnectionComplete_CB(kind)
    BY <2>2 DEF Host!GAP_DisconnectionComplete_CB, Host!Robot_Stop
  <2>3. CASE Host!Robot_ParseCommand(kind)
    BY <2>3 DEF Host!Robot_ParseCommand, Host!service
  <2>4. CASE Host!Attribute_Modified_CB(kind)
    BY <2>4 DEF Host!Attribute_Modified_CB
  <2>5. CASE Host!CharacteristicFound(kind)
    BY <2>5 DEF Host!CharacteristicFound, Host!Chars
  <2>6. CASE Host!ProcedureComplete(kind)
    BY <2>6 DEF Host!ProcedureComplete
  <2> QED BY <1>2, <2>1, <2>2, <2>3, <2>4, <2>5, <2>6
<1> QED BY <1>1, <1>3 DEF kind

LEMMA Queued ==
  ASSUME TypeOK
  PROVE  /\ Undelivered \in Seq(Host!EventKinds) /\ Len(Undelivered) \in Nat
         /\ DOMAIN Undelivered = 1 .. Len(Undelivered)
         /\ Undelivered = <<>> => local = <<>>
<1>1. local \in Seq(Host!EventKinds) /\ remote \in Seq(Host!EventKinds)
  BY DEF TypeOK
<1>2. /\ local \o remote \in Seq(Host!EventKinds)
      /\ Len(local \o remote) = Len(local) + Len(remote)
      /\ Len(local) \in Nat /\ Len(remote) \in Nat
  BY <1>1, Joined
<1>3. Undelivered \in Seq(Host!EventKinds) /\ Len(Undelivered) = Len(local) + Len(remote)
  BY <1>2 DEF Undelivered
<1>4. Undelivered = <<>> => Len(local) = 0
  BY <1>2, <1>3
<1> QED BY <1>1, <1>2, <1>3, <1>4

LEMMA ControllerPreserves ==
  ASSUME IInv, ControllerStep
  PROVE  IInv'
<1>0. TypeOK /\ moving \in BOOLEAN /\ Server /\ OnePlace /\ Announced /\ Obeyed
  BY DEF IInv
<1>1. PICK e \in Host!EventKinds :
           /\ remote' = Append(remote, e) /\ commanded' = Heard(e)
           /\ \/ e = "connected" /\ open /\ ~open' /\ link'
              \/ e = "disconnected" /\ link /\ ~link' /\ open' = open
              \/ e \notin {"connected", "disconnected"} /\ link /\ link' = link /\ open' = open
           /\ UNCHANGED <<local, handed, listening, discarded, moving, connected,
                          set_connectable, BLE_Role, procedure, pc>>
  BY <1>0, Raises
<1>2. local \in Seq(Host!EventKinds) /\ remote \in Seq(Host!EventKinds)
  BY <1>0 DEF TypeOK
<1>3. TypeOK'
  <2>1. remote' \in Seq(Host!EventKinds) /\ local' = local
    BY <1>1, <1>2, AppendProperties
  <2>2. commanded' \in {"move", "stop"}
    BY <1>0, <1>1 DEF TypeOK, Heard
  <2> QED BY <1>0, <1>1, <2>1, <2>2 DEF TypeOK
<1>4. Server' /\ moving' \in BOOLEAN
  BY <1>0, <1>1 DEF Server
<1> DEFINE n == Len(Undelivered)
<1>5. /\ n \in Nat /\ DOMAIN Undelivered = 1 .. n
      /\ \A i \in 1 .. n : Undelivered'[i] = Undelivered[i]
      /\ Undelivered'[n + 1] = e
      /\ Len(Undelivered') = n + 1 /\ DOMAIN Undelivered' = 1 .. n + 1
  <2>1. /\ Len(local \o remote) \in Nat
        /\ Len(local \o Append(remote, e)) = Len(local \o remote) + 1
        /\ \A i \in 1 .. Len(local \o remote) :
             (local \o Append(remote, e))[i] = (local \o remote)[i]
        /\ (local \o Append(remote, e))[Len(local \o remote) + 1] = e
    BY <1>2, Grown
  <2>2. Undelivered' = local \o Append(remote, e)
    BY <1>1 DEF Undelivered
  <2>3. DOMAIN Undelivered' = 1 .. Len(Undelivered')
    BY <1>2, <2>2, Grown
  <2>4. DOMAIN Undelivered = 1 .. n
    BY <1>0, Queued
  <2>5. n = Len(local \o remote) /\ Undelivered = local \o remote
    BY DEF Undelivered
  <2> HIDE DEF n
  <2> QED BY <2>1, <2>2, <2>3, <2>4, <2>5
<1> HIDE DEF n
<1>6. OnePlace'
  <2>1. ~Due' /\ ~open'
    BY <1>0, <1>1 DEF OnePlace, Due
  <2>2. \A i \in 1 .. n : Undelivered[i] # "disconnected"
    BY <1>0, <1>1, <1>5 DEF OnePlace
  <2>3. open' \/ link' => e # "disconnected"
    BY <1>0, <1>1 DEF OnePlace
  <2>4. \A i \in 1 .. n + 1 : Undelivered'[i] = "disconnected" => i = n + 1
    BY <1>5, <2>2
  <2>5. open' \/ link' => \A i \in 1 .. n + 1 : Undelivered'[i] # "disconnected"
    BY <1>5, <2>3, <2>4
  <2> QED BY <1>5, <2>1, <2>4, <2>5 DEF OnePlace
<1>7. Obeyed'
  <2> SUFFICES ASSUME ~discarded' PROVE
        /\ \A i \in 1 .. n + 1 :
             /\ Undelivered'[i] \in Decisive
             /\ \A j \in 1 .. n + 1 : i < j => Undelivered'[j] \notin Decisive
             => (Undelivered'[i] = "move" <=> commanded' = "move")
        /\ (\A i \in 1 .. n + 1 : Undelivered'[i] \notin Decisive) =>
             (moving' <=> commanded' = "move")
    BY <1>5 DEF Obeyed, Decisive
  <2>1. /\ \A i \in 1 .. n :
             /\ Undelivered[i] \in Decisive
             /\ \A j \in 1 .. n : i < j => Undelivered[j] \notin Decisive
             => (Undelivered[i] = "move" <=> commanded = "move")
        /\ (\A i \in 1 .. n : Undelivered[i] \notin Decisive) =>
             (moving <=> commanded = "move")
    BY <1>0, <1>1, <1>5 DEF Obeyed
  <2>2. n + 1 \in 1 .. n + 1 /\ \A i \in 1 .. n : i \in 1 .. n + 1 /\ i < n + 1
    BY <1>5
  <2>3. \A i \in 1 .. n + 1 : i \in 1 .. n \/ i = n + 1
    BY <1>5
  <2>4. moving' = moving
    BY <1>1
  <2>5. CASE e \in Decisive
    <3>1. e = "move" <=> commanded' = "move"
      BY <1>1, <2>5 DEF Heard, Decisive
    <3> QED BY <1>5, <2>2, <2>3, <2>5, <3>1
  <2>6. CASE e \notin Decisive
    <3>1. commanded' = commanded
      BY <1>1, <2>6 DEF Heard, Decisive
    <3>2. ASSUME NEW i \in 1 .. n + 1, Undelivered'[i] \in Decisive,
                 \A j \in 1 .. n + 1 : i < j => Undelivered'[j] \notin Decisive
          PROVE  Undelivered'[i] = "move" <=> commanded' = "move"
      <4>1. i \in 1 .. n
        BY <1>5, <2>3, <2>6, <3>2
      <4>2. Undelivered[i] \in Decisive /\ \A j \in 1 .. n : i < j => Undelivered[j] \notin Decisive
        BY <1>5, <2>2, <3>2, <4>1
      <4> QED BY <1>5, <2>1, <3>1, <4>1, <4>2
    <3>3. ASSUME \A i \in 1 .. n + 1 : Undelivered'[i] \notin Decisive
          PROVE  moving' <=> commanded' = "move"
      BY <1>5, <2>1, <2>2, <2>4, <3>1, <3>3
    <3> QED BY <3>2, <3>3
  <2> QED BY <2>5, <2>6
<1>8. Announced'
  <2>1. CASE open
    <3>1. n = 0 /\ link' => e = "connected"
      BY <1>0, <1>1, <1>5, <2>1 DEF OnePlace
    <3>2. Undelivered = <<>>
      BY <1>0, <2>1 DEF OnePlace
    <3>3. n = 0
      BY <3>2 DEF n
    <3>4. Undelivered'[1] = e /\ Len(Undelivered') = 1
      BY <1>5, <3>3
    <3>5. Undelivered' # <<>>
      BY <3>4
    <3> QED BY <1>0, <1>1, <2>1, <3>1, <3>3, <3>4, <3>5 DEF Announced
  <2>2. CASE ~open
    <3>1. link' => link
      BY <1>1, <2>2
    <3>2. ASSUME Undelivered # <<>> PROVE Undelivered' # <<>> /\ Undelivered'[1] = Undelivered[1]
      <4>1. n # 0
        BY <1>0, <3>2, Queued, EmptySeq DEF n
      <4>2. 1 \in 1 .. n /\ Len(Undelivered') # 0
        BY <1>5, <4>1
      <4> QED BY <1>5, <4>2
    <3> QED BY <1>0, <1>1, <3>1, <3>2 DEF Announced
  <2> QED BY <2>1, <2>2
<1> QED BY <1>3, <1>4, <1>6, <1>7, <1>8 DEF IInv

LEMMA TurnPreserves ==
  ASSUME IInv, UserProcess
  PROVE  IInv'
<1>0. TypeOK /\ moving \in BOOLEAN /\ Server /\ OnePlace /\ Announced /\ Obeyed
  BY DEF IInv
<1>1. /\ Server' /\ UNCHANGED <<queues, listening, ghosts, moving, connected, link>>
      /\ \/ (Due' => Due) /\ open' = open
         \/ Due /\ ~Due' /\ open' = ~link
      /\ pc' = "send" => connected
  BY <1>0, Turns
<1>2. TypeOK' /\ moving' \in BOOLEAN
  BY <1>0, <1>1 DEF TypeOK, queues, ghosts
<1>3. Undelivered' = Undelivered
  BY <1>1 DEF Undelivered, queues
<1>4. Obeyed'
  BY <1>0, <1>1, <1>3 DEF Obeyed, ghosts
<1>5. OnePlace'
  <2>1. CASE (Due' => Due) /\ open' = open
    BY <1>0, <1>1, <1>3, <2>1 DEF OnePlace
  <2>2. CASE Due /\ ~Due' /\ open' = ~link
    <3>1. Undelivered = <<>> /\ DOMAIN Undelivered = {} /\ ~link
      BY <1>0, <2>2 DEF OnePlace
    <3> QED BY <1>0, <1>1, <1>3, <2>2, <3>1 DEF OnePlace
  <2> QED BY <1>1, <2>1, <2>2
<1>6. Announced'
  BY <1>0, <1>1, <1>3 DEF Announced
<1> QED BY <1>1, <1>2, <1>4, <1>5, <1>6 DEF IInv

LEMMA UserEvtProcPreserves ==
  ASSUME IInv, UserEvtProc
  PROVE  IInv'
<1>0. TypeOK /\ moving \in BOOLEAN /\ Server /\ OnePlace /\ Announced /\ Obeyed
  BY DEF IInv
<1>1. /\ pc = "events" /\ local # <<>> /\ local' = Tail(local)
      /\ UNCHANGED <<remote, listening, commanded, discarded, open, link, procedure, BLE_Role>>
      /\ moving' = CASE Head(local) = "disconnected" -> FALSE
                     [] Head(local) \in {"move", "stop"} -> Head(local) = "move"
                     [] OTHER -> moving
      /\ set_connectable' = (IF Head(local) = "disconnected" THEN TRUE ELSE set_connectable)
      /\ pc' = pc
      /\ connected' = CASE Head(local) = "disconnected" -> FALSE
                        [] Head(local) \in {"connected", "refused"} -> TRUE
                        [] OTHER -> connected
  BY Notified
<1>2. local \in Seq(Host!EventKinds) /\ remote \in Seq(Host!EventKinds) /\ Len(local) <= NumPackets
  BY <1>0 DEF TypeOK
<1>3. Head(local) \in Host!EventKinds /\ Tail(local) \in Seq(Host!EventKinds)
      /\ Len(local) \in Nat \ {0} /\ Len(Tail(local)) = Len(local) - 1
  BY <1>1, <1>2, HeadAndTail
<1>4. TypeOK'
  <2>1. Len(local') <= NumPackets
    BY <1>1, <1>2, <1>3, FirmwareAssumption
  <2> QED BY <1>0, <1>1, <1>3, <2>1 DEF TypeOK
<1>5. Server' /\ moving' \in BOOLEAN
  BY <1>0, <1>1 DEF Server
<1> DEFINE n == Len(Undelivered)
<1>6. /\ n \in Nat \ {0} /\ DOMAIN Undelivered = 1 .. n
      /\ \A i \in 1 .. n - 1 : Undelivered'[i] = Undelivered[i + 1]
      /\ Undelivered[1] = Head(local)
      /\ Len(Undelivered') = n - 1 /\ DOMAIN Undelivered' = 1 .. n - 1
      /\ Undelivered' \in Seq(Host!EventKinds)
  <2>1. /\ Len(local \o remote) \in Nat \ {0}
        /\ Len(Tail(local) \o remote) = Len(local \o remote) - 1
        /\ \A i \in 1 .. Len(local \o remote) - 1 :
             (Tail(local) \o remote)[i] = (local \o remote)[i + 1]
        /\ (local \o remote)[1] = Head(local)
        /\ Tail(local) \o remote \in Seq(Host!EventKinds)
    BY <1>1, <1>2, Shrunk
  <2>2. Undelivered' = Tail(local) \o remote
    BY <1>1 DEF Undelivered
  <2>3. DOMAIN Undelivered' = 1 .. Len(Undelivered')
    BY <2>1, <2>2
  <2>4. DOMAIN Undelivered = 1 .. n
    BY <1>0, Queued
  <2>5. n = Len(local \o remote) /\ Undelivered = local \o remote
    BY DEF Undelivered
  <2> HIDE DEF n
  <2> QED BY <2>1, <2>2, <2>3, <2>4, <2>5
<1>7. 1 \in 1 .. n /\ \A i \in 1 .. n - 1 : i + 1 \in 1 .. n
  BY <1>6
<1>8. Undelivered # <<>> /\ (n = 1 => Undelivered' = <<>>)
  <2>1. n # 0 /\ Undelivered \in Seq(Host!EventKinds)
    BY <1>0, <1>6, Queued
  <2>2. Len(Undelivered') = n - 1 /\ Undelivered' \in Seq(Host!EventKinds)
    BY <1>6
  <2>3. Undelivered # <<>>
    BY <2>1 DEF n
  <2>4. ASSUME n = 1 PROVE Undelivered' = <<>>
    <3>1. Len(Undelivered') = 0
      BY <2>2, <2>4
    <3> HIDE DEF n
    <3> QED BY <2>2, <3>1
  <2> QED BY <2>3, <2>4
<1> HIDE DEF n
<1>9. OnePlace'
  <2>1. ~Due /\ ~open
    BY <1>0, <1>8 DEF OnePlace
  <2>2. CASE Head(local) = "disconnected"
    <3>1. n = 1 /\ ~(open \/ link)
      <4>1. Undelivered[1] = "disconnected"
        BY <1>6, <2>2
      <4>2. 1 = Len(Undelivered) /\ ~(open \/ link)
        BY <1>0, <1>6, <1>7, <4>1 DEF OnePlace
      <4> QED BY <4>2 DEF n
    <3>2. Undelivered' = <<>> /\ DOMAIN Undelivered' = {}
      BY <1>6, <1>8, <3>1
    <3> QED BY <1>1, <3>1, <3>2 DEF OnePlace
  <2>3. CASE Head(local) # "disconnected"
    <3>1. ~Due' /\ ~open' /\ open' = open /\ link' = link
      BY <1>0, <1>1, <2>1, <2>3 DEF OnePlace, Due
    <3>2. ASSUME NEW i \in 1 .. n - 1, Undelivered'[i] = "disconnected" PROVE i = n - 1
      <4>1. Undelivered[i + 1] = "disconnected" /\ i + 1 \in 1 .. n
        BY <1>6, <1>7, <3>2
      <4>2. i + 1 = n
        BY <1>0, <1>6, <4>1 DEF OnePlace, n
      <4> QED BY <1>6, <4>2
    <3>3. ASSUME open \/ link, NEW i \in 1 .. n - 1 PROVE Undelivered'[i] # "disconnected"
      <4>1. Undelivered[i + 1] # "disconnected"
        BY <1>0, <1>6, <1>7, <3>3 DEF OnePlace
      <4> QED BY <1>6, <4>1
    <3> QED BY <1>6, <3>1, <3>2, <3>3 DEF OnePlace
  <2> QED BY <2>2, <2>3
<1>10. Obeyed'
  <2> SUFFICES ASSUME ~discarded' PROVE
        /\ \A i \in 1 .. n - 1 :
             /\ Undelivered'[i] \in Decisive
             /\ \A j \in 1 .. n - 1 : i < j => Undelivered'[j] \notin Decisive
             => (Undelivered'[i] = "move" <=> commanded' = "move")
        /\ (\A i \in 1 .. n - 1 : Undelivered'[i] \notin Decisive) =>
             (moving' <=> commanded' = "move")
    BY <1>6 DEF Obeyed, Decisive
  <2>1. /\ \A i \in 1 .. n :
             /\ Undelivered[i] \in Decisive
             /\ \A j \in 1 .. n : i < j => Undelivered[j] \notin Decisive
             => (Undelivered[i] = "move" <=> commanded = "move")
        /\ (\A i \in 1 .. n : Undelivered[i] \notin Decisive) =>
             (moving <=> commanded = "move")
    BY <1>0, <1>1, <1>6 DEF Obeyed
  <2>2. commanded' = commanded
    BY <1>1
  <2>3. \A j \in 1 .. n : j = 1 \/ (j - 1 \in 1 .. n - 1 /\ Undelivered'[j - 1] = Undelivered[j])
    <3> SUFFICES ASSUME NEW j \in 1 .. n, j # 1
                 PROVE  j - 1 \in 1 .. n - 1 /\ Undelivered'[j - 1] = Undelivered[j]
      OBVIOUS
    <3>1. j - 1 \in 1 .. n - 1 /\ j - 1 + 1 = j
      BY <1>6
    <3> QED BY <1>6, <3>1
  <2>4. ASSUME NEW i \in 1 .. n - 1, Undelivered'[i] \in Decisive,
               \A j \in 1 .. n - 1 : i < j => Undelivered'[j] \notin Decisive
        PROVE  Undelivered'[i] = "move" <=> commanded' = "move"
    <3>1. Undelivered[i + 1] = Undelivered'[i] /\ i + 1 \in 1 .. n
      BY <1>6, <1>7
    <3>2. ASSUME NEW j \in 1 .. n, i + 1 < j PROVE Undelivered[j] \notin Decisive
      <4>1. j # 1 /\ i < j - 1
        BY <1>6, <3>2
      <4> QED BY <2>3, <2>4, <4>1
    <3> QED BY <2>1, <2>2, <2>4, <3>1, <3>2
  <2>5. ASSUME \A i \in 1 .. n - 1 : Undelivered'[i] \notin Decisive
        PROVE  moving' <=> commanded' = "move"
    <3>1. ASSUME NEW j \in 1 .. n, 1 < j PROVE Undelivered[j] \notin Decisive
      BY <1>6, <2>3, <2>5, <3>1
    <3>2. CASE Head(local) \in Decisive
      <4>1. Undelivered[1] = "move" <=> commanded = "move"
        BY <1>6, <1>7, <2>1, <3>1, <3>2
      <4>2. moving' <=> Head(local) = "move"
        BY <1>1, <3>2 DEF Decisive
      <4> QED BY <1>6, <2>2, <4>1, <4>2
    <3>3. CASE Head(local) \notin Decisive
      <4>1. moving' = moving
        BY <1>1, <3>3 DEF Decisive
      <4>2. \A j \in 1 .. n : Undelivered[j] \notin Decisive
        BY <1>6, <2>3, <2>5, <3>3
      <4> QED BY <2>1, <2>2, <4>1, <4>2
    <3> QED BY <3>2, <3>3
  <2> QED BY <2>4, <2>5
<1>11. Announced'
  <2>1. ASSUME link PROVE connected'
    <3>1. Head(local) # "disconnected"
      BY <1>0, <1>6, <1>7, <2>1 DEF OnePlace
    <3>2. connected \/ Head(local) = "connected"
      BY <1>0, <1>6, <2>1 DEF Announced
    <3> QED BY <1>1, <3>1, <3>2
  <2> QED BY <1>1, <2>1 DEF Announced
<1> QED BY <1>4, <1>5, <1>9, <1>10, <1>11 DEF IInv

LEMMA IsrReadPreserves ==
  ASSUME IInv, IsrRead
  PROVE  IInv'
<1>0. TypeOK /\ moving \in BOOLEAN /\ Server /\ OnePlace /\ Announced /\ Obeyed
  BY DEF IInv
<1>1. /\ remote # <<>> /\ Len(local) < NumPackets
      /\ local' = Append(local, Head(remote)) /\ remote' = Tail(remote)
      /\ UNCHANGED <<robot, listening, ghosts>>
  BY DEF IsrRead, Channel!Read
<1>2. local \in Seq(Host!EventKinds) /\ remote \in Seq(Host!EventKinds)
  BY <1>0 DEF TypeOK
<1>3. Head(remote) \in Host!EventKinds /\ Tail(remote) \in Seq(Host!EventKinds)
  BY <1>1, <1>2, HeadAndTail
<1>4. local' \in Seq(Host!EventKinds) /\ Len(local') <= NumPackets
  BY <1>1, <1>2, <1>3, AppendProperties, LenProperties, FirmwareAssumption
<1>5. TypeOK'
  BY <1>0, <1>1, <1>3, <1>4 DEF TypeOK, ghosts
<1>6. Undelivered' = Undelivered
  BY <1>1, <1>2, PassedOn DEF Undelivered
<1>7. UNCHANGED <<moving, connected, BLE_Role, procedure, set_connectable, pc, open, link,
                  commanded, discarded>>
  BY <1>1 DEF robot, ghosts
<1>8. Server' /\ OnePlace' /\ Announced' /\ Obeyed' /\ moving' \in BOOLEAN
  BY <1>0, <1>6, <1>7 DEF Server, OnePlace, Due, Announced, Obeyed
<1> QED BY <1>5, <1>8 DEF IInv

(* The host holds events when it discards one. *)
LEMMA Discards ==
  ASSUME TypeOK, Channel!DiscardOldest \/ Channel!DiscardNewest
  PROVE  /\ local # <<>> /\ UNCHANGED remote
         /\ \/ Channel!DiscardOldest /\ local' = Tail(local)
            \/ Len(local) = NumPackets /\ local' = SubSeq(local, 1, Len(local) - 1)
<1>1. NumPackets - NumPackets \div 2 >= 0 /\ NumPackets > 0
  BY FirmwareAssumption
<1>2. local \in Seq(Host!EventKinds)
  BY DEF TypeOK
<1>3. Len(local) # 0
  <2>1. CASE Channel!DiscardOldest
    <3>1. Len(local) > NumPackets - NumPackets \div 2 /\ Len(local) \in Nat
      BY <1>2, <2>1 DEF Channel!DiscardOldest
    <3> QED BY <1>1, <3>1, FirmwareAssumption
  <2>2. CASE Channel!DiscardNewest
    BY <1>1, <2>2, FirmwareAssumption DEF Channel!DiscardNewest
  <2> QED BY <2>1, <2>2
<1>4. local # <<>>
  BY <1>3
<1> QED BY <1>4 DEF Channel!DiscardOldest, Channel!DiscardNewest

LEMMA DiscardPreserves ==
  ASSUME IInv, Discard
  PROVE  IInv'
<1>0. TypeOK /\ moving \in BOOLEAN /\ Server /\ OnePlace /\ Announced /\ Obeyed
  BY DEF IInv
<1>1. /\ local # <<>> /\ UNCHANGED remote
      /\ local' = Tail(local) \/ local' = SubSeq(local, 1, Len(local) - 1)
  BY <1>0, Discards DEF Discard
<1>2. UNCHANGED <<moving, connected, BLE_Role, procedure, set_connectable, pc, open, link,
                  commanded, listening>>
      /\ discarded' = TRUE
  BY DEF Discard, robot
<1>3. local \in Seq(Host!EventKinds) /\ remote \in Seq(Host!EventKinds) /\ Len(local) <= NumPackets
  BY <1>0 DEF TypeOK
<1>4. /\ Undelivered' \in Seq(Host!EventKinds)
      /\ \A i \in 1 .. Len(Undelivered') :
           \E j \in 1 .. Len(Undelivered) :
             Undelivered'[i] = Undelivered[j] /\ (j = Len(Undelivered) => i = Len(Undelivered'))
  <2>1. CASE local' = Tail(local)
    BY <1>1, <1>3, <2>1, CutOldest DEF Undelivered
  <2>2. CASE local' = SubSeq(local, 1, Len(local) - 1)
    BY <1>1, <1>3, <2>2, CutNewest DEF Undelivered
  <2> QED BY <1>1, <2>1, <2>2
<1>5. ~Due /\ ~open
  BY <1>0, <1>1, Queued DEF OnePlace
<1>6. TypeOK'
  <2>1. /\ Tail(local) \in Seq(Host!EventKinds) /\ Len(Tail(local)) = Len(local) - 1
        /\ Len(local) \in Nat
        /\ SubSeq(local, 1, Len(local) - 1) \in Seq(Host!EventKinds)
        /\ Len(SubSeq(local, 1, Len(local) - 1)) = Len(local) - 1
    BY <1>1, <1>3, HeadAndTail, FrontOf
  <2>2. local' \in Seq(Host!EventKinds) /\ Len(local') = Len(local) - 1
    BY <1>1, <2>1
  <2>3. Len(local') <= NumPackets
    BY <1>3, <2>1, <2>2, FirmwareAssumption
  <2> QED BY <1>0, <1>1, <1>2, <2>2, <2>3 DEF TypeOK
<1>7. DOMAIN Undelivered = 1 .. Len(Undelivered) /\ DOMAIN Undelivered' = 1 .. Len(Undelivered')
  <2>1. DOMAIN Undelivered = 1 .. Len(Undelivered)
    BY <1>0, Queued
  <2>2. DOMAIN Undelivered' = 1 .. Len(Undelivered')
    BY <1>4
  <2> QED BY <2>1, <2>2
<1>8. OnePlace'
  <2>1. ~Due' /\ ~open'
    BY <1>2, <1>5 DEF Due
  <2>2. ASSUME NEW i \in 1 .. Len(Undelivered'), Undelivered'[i] = "disconnected"
        PROVE  i = Len(Undelivered') /\ ~(open \/ link)
    <3>1. PICK j \in 1 .. Len(Undelivered) :
            Undelivered'[i] = Undelivered[j] /\ (j = Len(Undelivered) => i = Len(Undelivered'))
      BY <1>4
    <3> QED BY <1>0, <1>7, <2>2, <3>1 DEF OnePlace
  <2> QED BY <1>2, <1>7, <2>1, <2>2 DEF OnePlace
<1>9. Server' /\ Obeyed' /\ moving' \in BOOLEAN
  BY <1>0, <1>2 DEF Server, Obeyed
<1>10. Announced'
  <2>1. CASE connected
    BY <1>0, <1>2, <2>1 DEF Announced
  <2>2. CASE ~connected
    <3>1. pc # "send" /\ ~Sending
      BY <1>0, <1>5, <2>2 DEF Announced, Sending, Due
    <3>2. Len(local) = NumPackets /\ local' = SubSeq(local, 1, Len(local) - 1)
      BY <1>0, <3>1, Discards DEF Discard, Channel!DiscardNewest
    <3>3. Len(local) \in Nat /\ 1 \in 1 .. Len(local) - 1
      BY <3>2, FirmwareAssumption
    <3>4. local'[1] = local[1] /\ Len(local') = Len(local) - 1 /\ local' \in Seq(Host!EventKinds)
      BY <1>1, <1>3, <3>2, <3>3, FrontOf
    <3>5. /\ Len(Undelivered) = Len(local) + Len(remote) /\ Undelivered[1] = local[1]
          /\ Len(Undelivered') = Len(local') + Len(remote) /\ Undelivered'[1] = local'[1]
          /\ Len(remote) \in Nat
      <4>1. /\ Len(local \o remote) = Len(local) + Len(remote) /\ Len(remote) \in Nat
            /\ \A i \in 1 .. Len(local) + Len(remote) :
                 (local \o remote)[i] = IF i <= Len(local) THEN local[i] ELSE remote[i - Len(local)]
        BY <1>3, Joined
      <4>2. /\ Len(local' \o remote) = Len(local') + Len(remote)
            /\ \A i \in 1 .. Len(local') + Len(remote) :
                 (local' \o remote)[i] = IF i <= Len(local') THEN local'[i] ELSE remote[i - Len(local')]
        BY <1>3, <3>4, Joined
      <4>3. Undelivered = local \o remote /\ Undelivered' = local' \o remote
        BY <1>1 DEF Undelivered
      <4>4. /\ 1 \in 1 .. Len(local) + Len(remote) /\ 1 <= Len(local)
            /\ 1 \in 1 .. Len(local') + Len(remote) /\ 1 <= Len(local')
        BY <3>3, <3>4, <4>1
      <4> QED BY <4>1, <4>2, <4>3, <4>4
    <3>6. Undelivered' # <<>>
      BY <3>3, <3>4, <3>5
    <3> QED BY <1>0, <1>2, <3>4, <3>5, <3>6 DEF Announced
  <2> QED BY <2>1, <2>2
<1> QED BY <1>6, <1>8, <1>9, <1>10 DEF IInv

LEMMA RestPreserves ==
  ASSUME IInv, IsrGivesUp \/ Select \/ Press \/ Release \/ UNCHANGED vars
  PROVE  IInv'
<1>1. UNCHANGED <<queues, ghosts, moving, connected, BLE_Role, procedure, set_connectable, pc,
                  open, link>>
      /\ (listening' \in BOOLEAN \/ listening' = listening)
  <2>1. CASE IsrGivesUp \/ Select \/ UNCHANGED vars
    BY <2>1 DEF IsrGivesUp, Select, vars, robot
  <2>2. CASE Press \/ Release
    BY <2>2 DEF Press, Release, Host!BSP_PB_Callback, Host!Press, Host!service, Host!radio
  <2> QED BY <2>1, <2>2
<1>2. Undelivered' = Undelivered
  BY <1>1 DEF Undelivered, queues, ghosts
<1>3. TypeOK'
  BY <1>1 DEF IInv, TypeOK, queues, ghosts
<1> QED BY <1>1, <1>2, <1>3 DEF IInv, Server, OnePlace, Due, Announced, Obeyed, queues, ghosts

LEMMA InitHolds == Init => IInv
<1> SUFFICES ASSUME Init PROVE IInv
  OBVIOUS
<1>1. /\ remote = <<>> /\ local = <<>> /\ listening = TRUE /\ commanded = "stop"
      /\ discarded = FALSE /\ moving = FALSE /\ BLE_Role = "SERVER" /\ procedure = <<>>
      /\ ~open /\ ~link /\ pc = "connect"
  BY DEF Init, Host!Init, Channel!Init, Roles
<1>2. TypeOK
  <2>1. <<>> \in Seq(Host!EventKinds) /\ Len(local) = 0
    BY <1>1
  <2>2. Len(local) <= NumPackets
    BY <2>1, FirmwareAssumption
  <2>3. remote \in Seq(Host!EventKinds) /\ local \in Seq(Host!EventKinds)
    BY <1>1, <2>1
  <2> QED BY <1>1, <2>2, <2>3 DEF TypeOK
<1>3. Undelivered = <<>> /\ DOMAIN Undelivered = {}
  <2>1. <<>> \o <<>> = <<>>
    OBVIOUS
  <2>2. Undelivered = <<>>
    BY <1>1, <2>1 DEF Undelivered
  <2> QED BY <2>2
<1> QED BY <1>1, <1>2, <1>3 DEF IInv, Server, OnePlace, Due, Announced, Obeyed

LEMMA NextPreserves == IInv /\ [Next]_vars => IInv'
<1> SUFFICES ASSUME IInv, [Next]_vars PROVE IInv'
  OBVIOUS
<1>1. \/ ControllerStep \/ UserProcess \/ UserEvtProc \/ IsrRead \/ Discard
      \/ IsrGivesUp \/ Select \/ Press \/ Release \/ UNCHANGED vars
  BY DEF Next, Isr, Main
<1> QED BY <1>1, ControllerPreserves, TurnPreserves, UserEvtProcPreserves, IsrReadPreserves,
           DiscardPreserves, RestPreserves

LEMMA Invariance == Spec => []IInv
BY InitHolds, NextPreserves, PTL DEF Spec

-----------------------------------------------------------------------------

\* The packets of the host never hold more events than there are packets, and
\* the queues hold events of the service only.
THEOREM TypeCorrect == Spec => []TypeOK
<1>1. IInv => TypeOK
  BY DEF IInv
<1> QED BY <1>1, Invariance, PTL

\* Whatever the interrupt handler and the main loop take turns at, for however
\* many packets: with nothing on its way and nothing discarded the robot drives
\* exactly when the peer's last command was to move.
THEOREM LastCommandAlwaysObeyed == Spec => []LastCommandIsObeyed
<1>1. IInv => LastCommandIsObeyed
  <2> SUFFICES ASSUME IInv, Undelivered = <<>>, ~discarded
               PROVE  moving = (commanded = "move")
    BY DEF LastCommandIsObeyed
  <2>1. DOMAIN Undelivered = {}
    OBVIOUS
  <2>2. moving <=> commanded = "move"
    BY <2>1 DEF IInv, Obeyed
  <2> QED BY <2>2 DEF IInv
<1> QED BY <1>1, Invariance, PTL

\* However the handler, the discards of Make_Connection and of the button's
\* message and the deliveries interleave, for any number of packets from two on:
\* the report of a link that exists has been handled or is on its way.
THEOREM PeerIsAlwaysKnown == Spec => []PeerIsKnown
<1>1. IInv => PeerIsKnown
  <2> SUFFICES ASSUME IInv, link, ~connected PROVE Whole!Pending("connected")
    BY DEF PeerIsKnown
  <2>1. Undelivered # <<>> /\ Undelivered[1] = "connected"
    BY DEF IInv, Announced
  <2>2. /\ Undelivered \in Seq(Host!EventKinds) /\ Len(Undelivered) \in Nat
        /\ DOMAIN Undelivered = 1 .. Len(Undelivered)
    BY Queued DEF IInv
  <2>3. 1 \in DOMAIN Undelivered
    BY <2>1, <2>2
  <2> QED BY <2>1, <2>3 DEF Whole!Pending
<1> QED BY <1>1, Invariance, PTL

\* The firmware's queues are the channel HciTransport implements: the service
\* relies on no more than the transport promises.
THEOREM UsesChannel == Spec => Channel!Spec
<1>1. Init => Channel!Init
  BY DEF Init
<1>2. ASSUME IInv, [Next]_vars PROVE [Channel!Next]_Channel!vars
  <2>1. CASE ControllerStep
    <3>1. TypeOK /\ Server
      BY <1>2 DEF IInv
    <3>2. PICK e \in Host!EventKinds : remote' = Append(remote, e) /\ UNCHANGED <<local, handed>>
      BY <2>1, <3>1, Raises
    <3>3. remote \in Seq(Host!EventKinds)
      BY <3>1 DEF TypeOK
    <3>4. remote' # <<>> /\ remote'[Len(remote')] = e
      BY <3>2, <3>3
    <3>5. Channel!Raise
      BY <3>2, <3>4 DEF Channel!Raise
    <3> QED BY <3>5 DEF Channel!Next
  <2>2. CASE IsrRead
    BY <2>2 DEF IsrRead, Channel!Next
  <2>3. CASE UserEvtProc
    BY <2>3 DEF UserEvtProc, Channel!Next
  <2>4. CASE Discard
    BY <2>4 DEF Discard, Channel!Next
  <2>5. CASE UserProcess \/ IsrGivesUp \/ Select \/ Press \/ Release \/ UNCHANGED vars
    BY <2>5 DEF UserProcess, IsrGivesUp, Select, Press, Release, vars, queues, Channel!vars
  <2> QED BY <1>2, <2>1, <2>2, <2>3, <2>4, <2>5 DEF Next, Isr, Main
<1> QED BY <1>1, <1>2, Invariance, PTL DEF Spec, Channel!Spec
-----------------------------------------------------------------------------
(* SampleService over the whole queue. *)

LEMMA Beginning == Init => Whole!Init
<1> SUFFICES ASSUME Init PROVE Whole!Init
  OBVIOUS
<1>1. Undelivered = <<>>
  <2>1. local = <<>> /\ remote = <<>> /\ <<>> \o <<>> = <<>>
    BY DEF Init, Channel!Init
  <2> QED BY <2>1 DEF Undelivered
<1> QED BY <1>1 DEF Init, Host!Init, Whole!Init, Host!Chars, Whole!Chars, Host!Unknown, Whole!Unknown

LEMMA FirstOfBoth ==
  ASSUME NEW K, NEW s \in Seq(K), NEW t \in Seq(K), s # <<>>
  PROVE  /\ s \o t \in Seq(K) /\ s \o t # <<>>
         /\ Head(s \o t) = Head(s) /\ Tail(s \o t) = Tail(s) \o t
<1> DEFINE u == s \o t  v == Tail(s) \o t
<1>1. /\ v \in Seq(K) /\ u \in Seq(K) /\ Len(u) \in Nat \ {0} /\ Len(v) = Len(u) - 1
      /\ \A i \in 1 .. Len(u) - 1 : v[i] = u[i + 1]
      /\ u[1] = Head(s)
  BY Shrunk
<1> HIDE DEF u, v
<1>2. u # <<>>
  BY <1>1
<1>3. /\ Head(u) = u[1] /\ Tail(u) \in Seq(K) /\ Len(Tail(u)) = Len(u) - 1
      /\ \A i \in 1 .. Len(u) - 1 : Tail(u)[i] = u[i + 1]
  BY <1>1, <1>2, HeadAndTail
<1>4. \A i \in 1 .. Len(v) : Tail(u)[i] = v[i]
  BY <1>1, <1>3
<1>5. Tail(u) = v
  BY <1>1, <1>3, <1>4, SeqEqual
<1> QED BY <1>1, <1>2, <1>3, <1>5 DEF u, v

(* What the controller reports goes to the end of the whole queue too. *)
LEMMA ReportedToo ==
  ASSUME TypeOK, NEW kinds \in Seq(Host!EventKinds), Controller!Report(kinds), local' = local
  PROVE  Whole!Report(kinds)
<1>1. /\ local \in Seq(Host!EventKinds) /\ remote \in Seq(Host!EventKinds)
      /\ Len(local) <= NumPackets
  BY DEF TypeOK
<1>2. Len(remote) + Len(kinds) <= MaxEvents /\ remote' = remote \o kinds
  BY DEF Controller!Report
<1>3. Undelivered' = Undelivered \o kinds
  <2>1. (local \o remote) \o kinds = local \o (remote \o kinds)
    BY <1>1, ConcatAssociative
  <2> QED BY <1>2, <2>1 DEF Undelivered
<1>4. Len(Undelivered) + Len(kinds) <= NumPackets + MaxEvents
  <2>1. /\ Len(local \o remote) = Len(local) + Len(remote)
        /\ Len(local) \in Nat /\ Len(remote) \in Nat
    BY <1>1, Joined
  <2>2. Len(kinds) \in Nat /\ NumPackets \in Nat /\ MaxEvents \in Nat
    BY FirmwareAssumption
  <2>3. Len(Undelivered) = Len(local) + Len(remote)
    BY <2>1 DEF Undelivered
  <2> QED BY <1>1, <1>2, <2>1, <2>2, <2>3
<1> QED BY <1>3, <1>4 DEF Whole!Report

LEMMA ControllerServes ==
  ASSUME TypeOK, Server, ControllerStep
  PROVE  Whole!Next
<1>1. local' = local
  BY DEF ControllerStep
<1>2. \A k \in Host!EventKinds : <<k>> \in Seq(Host!EventKinds)
  OBVIOUS
<1>3. {"connected", "disconnected", "move", "stop", "subscribe", "unsubscribe"} \subseteq Host!EventKinds
  BY DEF Host!EventKinds
<1>4. ASSUME NEW k \in Host!EventKinds, Controller!Report(<<k>>) PROVE Whole!Report(<<k>>)
  BY <1>1, <1>2, <1>4, ReportedToo
<1>5. Controller!Connect \/ Controller!Disconnect \/ Controller!PeerWrites
  BY DEF ControllerStep, Controller!Controller, Controller!Refuse, Controller!ProcedureEnds, Server
<1>6. CASE Controller!Connect
  <2>1. Whole!Report(<<"connected">>)
    BY <1>3, <1>4, <1>6 DEF Controller!Connect
  <2>2. Whole!Connect
    BY <1>6, <2>1 DEF Controller!Connect, Whole!Connect, Controller!host, Controller!service,
       Whole!host, Whole!service, Controller!button, Whole!button
  <2> QED BY <2>2 DEF Whole!Next, Whole!Controller
<1>7. CASE Controller!Disconnect
  <2>1. Whole!Report(<<"disconnected">>)
    BY <1>3, <1>4, <1>7 DEF Controller!Disconnect, Server
  <2>2. Whole!Disconnect
    BY <1>7, <2>1 DEF Controller!Disconnect, Whole!Disconnect, Controller!host, Controller!service,
       Whole!host, Whole!service, Controller!button, Whole!button
  <2> QED BY <2>2 DEF Whole!Next, Whole!Controller
<1>8. CASE Controller!PeerWrites
  <2>1. PICK k \in {"move", "stop", "subscribe", "unsubscribe"} : Controller!Report(<<k>>)
    BY <1>8 DEF Controller!PeerWrites
  <2>2. Whole!Report(<<k>>)
    BY <1>3, <1>4, <2>1
  <2>3. Whole!PeerWrites
    BY <1>8, <2>2 DEF Controller!PeerWrites, Whole!PeerWrites, Controller!host, Controller!service,
       Whole!host, Whole!service, Controller!button, Whole!button
  <2> QED BY <2>3 DEF Whole!Next, Whole!Controller
<1> QED BY <1>5, <1>6, <1>7, <1>8

(* The main loop finds the whole queue empty when it finds its own empty. *)
LEMMA TurnServes ==
  ASSUME UserProcess, listening
  PROVE  Whole!Next
<1>1. UNCHANGED <<local, remote>> /\ Undelivered' = Undelivered
  BY DEF UserProcess, queues, Undelivered
<1>2. CASE Host!MakeConnection
  <2>1. Whole!MakeConnection
    BY <1>1, <1>2 DEF Host!MakeConnection, Whole!MakeConnection, Host!RequestFails,
       Whole!RequestFails, Host!radio, Whole!radio, Host!service, Whole!service,
       Host!button, Whole!button
  <2> QED BY <2>1 DEF Whole!Next, Whole!MX_BlueNRG_MS_Process, Whole!UserProcess
<1>3. CASE Host!Discover
  <2>1. Whole!Discover
    BY <1>1, <1>3 DEF Host!Discover, Whole!Discover, Host!StartRead, Whole!StartRead,
       Host!RequestFails, Whole!RequestFails, Host!StartProcedure, Whole!StartProcedure,
       Host!radio, Whole!radio, Host!button, Whole!button
  <2> QED BY <2>1 DEF Whole!Next, Whole!MX_BlueNRG_MS_Process, Whole!UserProcess
<1>4. CASE Host!EnableNotification
  <2>1. Whole!EnableNotification
    BY <1>1, <1>4 DEF Host!EnableNotification, Whole!EnableNotification, Host!RequestFails,
       Whole!RequestFails, Host!StartProcedure, Whole!StartProcedure, Host!radio, Whole!radio,
       Host!button, Whole!button
  <2> QED BY <2>1 DEF Whole!Next, Whole!MX_BlueNRG_MS_Process, Whole!UserProcess
<1>5. CASE Host!Button \/ Host!SendData
  <2>1. Whole!Button \/ Whole!SendData
    BY <1>1, <1>5 DEF Host!Button, Whole!Button, Host!SendData, Whole!SendData, Host!radio,
       Whole!radio, Host!service, Whole!service, Host!button, Whole!button
  <2> QED BY <2>1 DEF Whole!Next, Whole!MX_BlueNRG_MS_Process, Whole!UserProcess
<1>6. CASE Host!EventsDone
  <2>1. remote = <<>> /\ local = <<>> /\ <<>> \o <<>> = <<>>
    BY <1>6 DEF UserProcess, MainRuns, Host!EventsDone
  <2>2. Undelivered = <<>>
    BY <2>1 DEF Undelivered
  <2>3. Whole!EventsDone
    BY <1>1, <1>6, <2>2 DEF Host!EventsDone, Whole!EventsDone, Host!radio, Whole!radio,
       Host!service, Whole!service, Host!button, Whole!button
  <2> QED BY <2>3 DEF Whole!Next, Whole!MX_BlueNRG_MS_Process
<1>7. CASE Host!MadeConnection
  <2>1. Whole!MadeConnection
    BY <1>1, <1>7 DEF Host!MadeConnection, Whole!MadeConnection, Host!radio, Whole!radio,
       Host!button, Whole!button
  <2> QED BY <2>1 DEF Whole!Next, Whole!MX_BlueNRG_MS_Process, Whole!UserProcess
<1> QED BY <1>2, <1>3, <1>4, <1>5, <1>6, <1>7 DEF UserProcess, Host!UserProcess

LEMMA NotifiedToo ==
  ASSUME TypeOK, UserEvtProc
  PROVE  Whole!Next
<1>1. /\ local \in Seq(Host!EventKinds) /\ remote \in Seq(Host!EventKinds)
      /\ local # <<>> /\ local' = Tail(local) /\ remote' = remote
  BY DEF UserEvtProc, Channel!Deliver, TypeOK
<1>2. /\ Undelivered # <<>> /\ Head(Undelivered) = Head(local)
      /\ Undelivered' = Tail(Undelivered)
  <2>1. /\ local \o remote \in Seq(Host!EventKinds) /\ local \o remote # <<>>
        /\ Head(local \o remote) = Head(local)
        /\ Tail(local \o remote) = Tail(local) \o remote
    BY <1>1, FirstOfBoth
  <2> QED BY <1>1, <2>1 DEF Undelivered
<1>3. Whole!UserEvtRx
  BY <1>2 DEF UserEvtProc, Host!UserEvtRx, Whole!UserEvtRx,
     Host!GAP_ConnectionComplete_CB, Whole!GAP_ConnectionComplete_CB,
     Host!GAP_DisconnectionComplete_CB, Whole!GAP_DisconnectionComplete_CB,
     Host!Robot_Stop, Whole!Robot_Stop, Host!ForgetDiscovery, Whole!ForgetDiscovery,
     Host!Robot_ParseCommand, Whole!Robot_ParseCommand, Host!service, Whole!service,
     Host!Attribute_Modified_CB, Whole!Attribute_Modified_CB,
     Host!CharacteristicFound, Whole!CharacteristicFound, Host!Reading, Whole!Reading,
     Host!ProcedureComplete, Whole!ProcedureComplete, Host!Chars, Whole!Chars,
     Host!button, Whole!button
<1> QED BY <1>3 DEF Whole!Next, Whole!MX_BlueNRG_MS_Process

(* The steps of the transport move events within the whole queue. *)
LEMMA MovedAlong ==
  ASSUME TypeOK, IsrRead \/ IsrGivesUp \/ Select \/ UNCHANGED vars
  PROVE  UNCHANGED Whole!vars
<1>1. UNCHANGED robot
  BY DEF IsrRead, IsrGivesUp, Select, vars
<1>2. Undelivered' = Undelivered
  <2>1. CASE IsrRead
    <3>1. /\ remote # <<>> /\ local' = Append(local, Head(remote)) /\ remote' = Tail(remote)
          /\ local \in Seq(Host!EventKinds) /\ remote \in Seq(Host!EventKinds)
      BY <2>1 DEF IsrRead, Channel!Read, TypeOK
    <3>2. Append(local, Head(remote)) \o Tail(remote) = local \o remote
      BY <3>1, PassedOn
    <3> QED BY <3>1, <3>2 DEF Undelivered
  <2>2. CASE IsrGivesUp \/ Select \/ UNCHANGED vars
    BY <2>2 DEF IsrGivesUp, Select, vars, queues, Undelivered
  <2> QED BY <2>1, <2>2
<1> QED BY <1>1, <1>2 DEF robot, Whole!vars, Whole!host, Whole!service, Whole!button, Whole!radio

LEMMA Serves ==
  ASSUME TypeOK, Server, [Next]_vars, listening, ~discarded'
  PROVE  [Whole!Next]_Whole!vars
<1>1. CASE ControllerStep
  BY <1>1, ControllerServes
<1>2. CASE UserProcess
  BY <1>2, TurnServes
<1>3. CASE UserEvtProc
  BY <1>3, NotifiedToo
<1>4. CASE IsrRead \/ IsrGivesUp \/ Select \/ UNCHANGED vars
  BY <1>4, MovedAlong
<1>5. CASE Press \/ Release
  <2>1. UNCHANGED Undelivered
    BY <1>5 DEF Press, Release, queues, Undelivered
  <2>2. Whole!BSP_PB_Callback \/ Whole!Press
    BY <1>5, <2>1 DEF Press, Release, Host!BSP_PB_Callback, Whole!BSP_PB_Callback, Host!Press,
       Whole!Press, Host!service, Whole!service, Host!radio, Whole!radio
  <2> QED BY <2>2 DEF Whole!Next
<1>6. CASE Discard
  BY <1>6 DEF Discard
<1> QED BY <1>1, <1>2, <1>3, <1>4, <1>5, <1>6 DEF Next, Isr, Main

\* A step of the firmware that starts with the handler listening and discards
\* nothing is a step of SampleService over the events of the host and of the
\* controller, or none: for that long the service sees a queue without loss.
THEOREM ServesWhileHeard == Spec => ServiceWhileHeard
<1>1. IInv /\ [Next]_vars =>
        [listening /\ ~discarded' => [Whole!Next]_Whole!vars]_vars
  BY Serves DEF IInv
<1> QED BY <1>1, Invariance, PTL DEF Spec, ServiceWhileHeard

\* A firmware whose handler stays awake and which never has to discard an event
\* behaves as SampleService does by itself, so that what SampleServiceProofs
\* proves of that module's steps is true of the firmware.
THEOREM ImplementsService ==
  Spec /\ [](listening /\ ~discarded) => Whole!Init /\ [][Whole!Next]_Whole!vars
<1>1. IInv /\ [Next]_vars /\ listening /\ ~discarded' => [Whole!Next]_Whole!vars
  BY Serves DEF IInv
<1> QED BY <1>1, Beginning, Invariance, PTL DEF Spec
=============================================================================
