------------------------ MODULE HciTransportProofs ------------------------
(***************************************************************************)
(* Theorems about HciTransport.  The inductive invariant IInv adds to the  *)
(* type invariant what holds at each point of the main loop (MainInv), how *)
(* many packets there are (CountInv) and that each is in one place.  The   *)
(* last part proves that HciTransport implements EventChannel.             *)
(***************************************************************************)
EXTENDS HciTransport, SequenceTheorems, TLAPS

(* Where the main loop holds a packet, and where hciTempQueue may be used. *)
MainInv ==
  /\ pc \in {"freePut", "park", "done", "put"} => hand # NoPacket
  /\ pc \in {"idle", "free", "freeTake", "send", "wait", "move", "proc"} => hand = NoPacket
  /\ pc \in {"idle", "free", "freeTake", "freePut", "send", "proc", "put"} => tempQueue = <<>>
  /\ pc \notin {"idle", "proc", "put"} => Len(req) = 1
  /\ pc = "freeTake" => Len(pool) < NumPackets \div 2

InHandCount == IF hand = NoPacket THEN 0 ELSE 1

CountInv == Len(pool) + Len(rxQueue) + Len(tempQueue) + InHandCount = NumPackets

IInv == TypeOK /\ MainInv /\ CountInv /\ PacketsConserved

-----------------------------------------------------------------------------
(* What the list operations do to the packets of a list. *)

LEMMA TailHeld ==
  ASSUME NEW S, NEW s \in Seq(S), s # <<>>, Distinct(s)
  PROVE  /\ Head(s) \in S /\ Tail(s) \in Seq(S) /\ Len(Tail(s)) = Len(s) - 1
         /\ Head(s) \in Held(s)
         /\ Held(Tail(s)) = Held(s) \ {Head(s)}
         /\ Distinct(Tail(s))
<1>1. /\ Head(s) \in S /\ Tail(s) \in Seq(S) /\ Len(Tail(s)) = Len(s) - 1
      /\ Len(s) \in Nat \ {0} /\ Head(s) = s[1]
  OBVIOUS
<1>2. \A i \in 1..Len(s) - 1 : Tail(s)[i] = s[i + 1]
  OBVIOUS
<1>3. Head(s) \in Held(s)
  BY <1>1 DEF Held
<1>4. Distinct(Tail(s))
  BY <1>1, <1>2 DEF Distinct
<1>5. ASSUME NEW x \in Held(Tail(s)) PROVE x \in Held(s) \ {Head(s)}
  <2>1. PICK i \in 1..Len(s) - 1 : x = s[i + 1]
    BY <1>1, <1>2 DEF Held
  <2>2. i + 1 \in 1..Len(s) /\ i + 1 # 1 /\ 1 \in 1..Len(s)
    BY <1>1
  <2> QED BY <1>1, <2>1, <2>2 DEF Held, Distinct
<1>6. ASSUME NEW x \in Held(s) \ {Head(s)} PROVE x \in Held(Tail(s))
  <2>1. PICK i \in 1..Len(s) : x = s[i]
    BY DEF Held
  <2>2. i - 1 \in 1..Len(s) - 1 /\ Tail(s)[i - 1] = s[i]
    BY <1>1, <1>2, <2>1
  <2> QED BY <1>1, <2>1, <2>2 DEF Held
<1> QED BY <1>1, <1>3, <1>4, <1>5, <1>6

LEMMA AppendHeld ==
  ASSUME NEW S, NEW s \in Seq(S), NEW x \in S, x \notin Held(s), Distinct(s)
  PROVE  /\ Append(s, x) \in Seq(S) /\ Len(Append(s, x)) = Len(s) + 1
         /\ Held(Append(s, x)) = Held(s) \cup {x}
         /\ Distinct(Append(s, x))
<1>1. /\ Append(s, x) \in Seq(S) /\ Len(Append(s, x)) = Len(s) + 1 /\ Len(s) \in Nat
      /\ \A i \in 1..Len(s) : Append(s, x)[i] = s[i]
      /\ Append(s, x)[Len(s) + 1] = x
  OBVIOUS
<1>2. \A i \in 1..Len(s) : s[i] # x
  BY DEF Held
<1>3. Distinct(Append(s, x))
  BY <1>1, <1>2 DEF Distinct
<1>4. Held(Append(s, x)) = Held(s) \cup {x}
  <2>1. \A i : i \in 1..Len(s) + 1 <=> i \in 1..Len(s) \/ i = Len(s) + 1
    BY <1>1
  <2> QED BY <1>1, <2>1 DEF Held
<1> QED BY <1>1, <1>3, <1>4

LEMMA PrependHeld ==
  ASSUME NEW S, NEW s \in Seq(S), NEW x \in S, x \notin Held(s), Distinct(s)
  PROVE  /\ <<x>> \o s \in Seq(S) /\ Len(<<x>> \o s) = Len(s) + 1
         /\ Held(<<x>> \o s) = Held(s) \cup {x}
         /\ Distinct(<<x>> \o s)
<1>1. /\ <<x>> \o s \in Seq(S) /\ Len(<<x>> \o s) = Len(s) + 1 /\ Len(s) \in Nat
      /\ \A i \in 1..Len(s) : (<<x>> \o s)[i + 1] = s[i]
      /\ (<<x>> \o s)[1] = x
  OBVIOUS
<1>2. \A i \in 1..Len(s) : s[i] # x
  BY DEF Held
<1>3. \A i \in 1..Len(s) + 1 : i = 1 \/ (i - 1 \in 1..Len(s) /\ (<<x>> \o s)[i] = s[i - 1])
  BY <1>1
<1>4. Distinct(<<x>> \o s)
  BY <1>1, <1>2, <1>3 DEF Distinct
<1>5. Held(<<x>> \o s) = Held(s) \cup {x}
  <2>1. Held(<<x>> \o s) \subseteq Held(s) \cup {x}
    BY <1>1, <1>3 DEF Held
  <2>2. ASSUME NEW y \in Held(s) PROVE y \in Held(<<x>> \o s)
    <3>1. PICK i \in 1..Len(s) : y = s[i]
      BY DEF Held
    <3>2. i + 1 \in 1..Len(s) + 1
      BY <1>1
    <3> QED BY <1>1, <3>1, <3>2 DEF Held
  <2>3. x \in Held(<<x>> \o s)
    BY <1>1 DEF Held
  <2> QED BY <2>1, <2>2, <2>3
<1> QED BY <1>1, <1>4, <1>5

LEMMA FrontHeld ==
  ASSUME NEW S, NEW s \in Seq(S), s # <<>>, Distinct(s)
  PROVE  /\ s[Len(s)] \in S /\ SubSeq(s, 1, Len(s) - 1) \in Seq(S)
         /\ Len(SubSeq(s, 1, Len(s) - 1)) = Len(s) - 1
         /\ s[Len(s)] \in Held(s)
         /\ Held(SubSeq(s, 1, Len(s) - 1)) = Held(s) \ {s[Len(s)]}
         /\ Distinct(SubSeq(s, 1, Len(s) - 1))
<1> DEFINE f == SubSeq(s, 1, Len(s) - 1)
<1>1. Len(s) \in Nat \ {0} /\ s[Len(s)] \in S
  OBVIOUS
<1>2. /\ f \in Seq(S) /\ Len(f) = Len(s) - 1
      /\ \A i \in 1..Len(s) - 1 : f[i] = s[i]
  <2> DEFINE n == Len(s) - 1
  <2>1. n \in Nat /\ 1 \in Int
    BY <1>1
  <2>2. \A i \in 1..n : s[i] \in S
    OBVIOUS
  <2> HIDE DEF n
  <2>3. /\ SubSeq(s, 1, n) \in Seq(S)
        /\ Len(SubSeq(s, 1, n)) = IF 1 <= n THEN n - 1 + 1 ELSE 0
        /\ \A i \in 1..n - 1 + 1 : SubSeq(s, 1, n)[i] = s[1 + i - 1]
    BY <2>1, <2>2, SubSeqProperties
  <2>4. Len(SubSeq(s, 1, n)) = n /\ \A i \in 1..n : SubSeq(s, 1, n)[i] = s[i]
    BY <2>1, <2>3
  <2> QED BY <2>3, <2>4 DEF n, f
<1> HIDE DEF f
<1>3. s[Len(s)] \in Held(s)
  BY <1>1 DEF Held
<1>4. Distinct(f)
  BY <1>1, <1>2 DEF Distinct
<1>5. \A i : i \in 1..Len(s) <=> i \in 1..Len(s) - 1 \/ i = Len(s)
  BY <1>1
<1>6. \A i \in 1..Len(s) - 1 : s[i] # s[Len(s)]
  BY <1>1 DEF Distinct
<1>7. Held(f) = Held(s) \ {s[Len(s)]}
  BY <1>2, <1>5, <1>6 DEF Held
<1> QED BY <1>1, <1>2, <1>3, <1>4, <1>7 DEF f

(* Lengths under the list operations, for lists of packets. *)
LEMMA TakeLength ==
  ASSUME NEW s \in Seq(Packets), s # <<>>
  PROVE  /\ Head(s) \in Packets /\ Head(s) # NoPacket
         /\ Tail(s) \in Seq(Packets) /\ Len(s) \in Nat \ {0} /\ Len(Tail(s)) = Len(s) - 1
<1>1. Head(s) \in Packets /\ Tail(s) \in Seq(Packets)
  OBVIOUS
<1>2. Len(s) \in Nat \ {0} /\ Len(Tail(s)) = Len(s) - 1
  OBVIOUS
<1>3. Head(s) # NoPacket
  BY <1>1, TransportAssumption DEF Packets, NoPacket
<1> QED BY <1>1, <1>2, <1>3

LEMMA PutLength ==
  ASSUME NEW s \in Seq(Packets), NEW p \in Packets
  PROVE  /\ Len(s) \in Nat
         /\ Len(Append(s, p)) = Len(s) + 1 /\ Len(<<p>> \o s) = Len(s) + 1
OBVIOUS

LEMMA CutLength ==
  ASSUME NEW s \in Seq(Packets), s # <<>>
  PROVE  /\ s[Len(s)] \in Packets
         /\ Len(s) \in Nat \ {0} /\ Len(SubSeq(s, 1, Len(s) - 1)) = Len(s) - 1
<1>1. Len(s) \in Nat \ {0} /\ Len(s) - 1 \in Nat
  OBVIOUS
<1>2. s[Len(s)] \in Packets
  BY <1>1
<1>3. Len(SubSeq(s, 1, Len(s) - 1)) = Len(s) - 1
  <2> DEFINE n == Len(s) - 1
  <2>1. n \in Nat /\ 1 \in Int /\ \A i \in 1..n : s[i] \in Packets
    BY <1>1
  <2> HIDE DEF n
  <2>2. Len(SubSeq(s, 1, n)) = IF 1 <= n THEN n - 1 + 1 ELSE 0
    BY <2>1, SubSeqProperties
  <2>3. Len(SubSeq(s, 1, n)) = n
    BY <2>1, <2>2
  <2> QED BY <2>3 DEF n
<1> QED BY <1>1, <1>2, <1>3

LEMMA EmptyHeld == Held(<<>>) = {} /\ Distinct(<<>>)
BY DEF Held, Distinct

-----------------------------------------------------------------------------
(* The type invariant. *)

LEMMA NoEventType == NoEvent \in Event
BY DEF NoEvent, Event

LEMMA TypeInit == Init => TypeOK
<1> SUFFICES ASSUME Init PROVE TypeOK
  OBVIOUS
<1>1. NumPackets \in Nat /\ Len(pool) = NumPackets /\ pool \in Seq(Packets)
  BY TransportAssumption DEF Init, Packets
<1>3. content \in [Packets -> Event]
  BY NoEventType DEF Init
<1>4. \A S : <<>> \in Seq(S)
  OBVIOUS
<1>5. Len(req) = 0 /\ Len(handed) = 0 /\ hand \in {NoPacket}
  BY DEF Init
<1>6. /\ remote \in Seq(Event) /\ commands \in Seq(Request) /\ handed \in Seq(Event)
      /\ rxQueue \in Seq(Packets) /\ tempQueue \in Seq(Packets) /\ req \in Seq(Request)
  BY <1>4, Zenon DEF Init
<1>7. /\ pending \in BOOLEAN /\ inIsr \in BOOLEAN /\ ret \in {0, -1}
      /\ nEvents \in Nat /\ nRequests \in Nat
  BY DEF Init
<1> QED BY <1>1, <1>3, <1>5, <1>6, <1>7 DEF Init, TypeOK

(* free_event_list removes a packet from the receive queue: with fewer than *)
(* half the packets in the pool and none elsewhere, there is one.           *)
LEMMA TakenIsThere ==
  TypeOK /\ MainInv /\ CountInv => NeverTakesFromEmptyQueue
BY TransportAssumption
   DEF TypeOK, MainInv, CountInv, InHandCount, NeverTakesFromEmptyQueue

LEMMA RaiseType ==
  ASSUME TypeOK, NEW kind \in {"complete", "status", "leMeta", "hwError", "vendor", "bad"},
         NEW op \in Opcodes \cup {NoOp}, NEW ok \in BOOLEAN, NEW cmd \in Nat,
         Raise(kind, op, ok, cmd)
  PROVE  remote' \in Seq(Event) /\ nEvents' \in Nat /\ pending' \in BOOLEAN
<1> DEFINE e == [id |-> nEvents + 1, kind |-> kind, op |-> op, ok |-> ok, cmd |-> cmd]
<1>1. e \in Event
  BY DEF Event, TypeOK
<1>2. pending' = (pending \/ ~LineHigh)
  BY DEF Raise
<1>3. remote' = Append(remote, e) /\ nEvents' = nEvents + 1
  BY DEF Raise
<1> HIDE DEF e
<1>4. remote' \in Seq(Event) /\ nEvents' \in Nat
  BY <1>1, <1>3 DEF TypeOK
<1>5. pending' \in BOOLEAN
  BY <1>2
<1> QED BY <1>4, <1>5

LEMMA TypeStep == TypeOK /\ MainInv /\ CountInv /\ [Next]_vars => TypeOK'
<1> SUFFICES ASSUME TypeOK, MainInv, CountInv, [Next]_vars PROVE TypeOK'
  OBVIOUS
<1>1. CASE Notify
  <2>1. PICK kind \in Unsolicited : Raise(kind, NoOp, TRUE, 0)
    BY <1>1 DEF Notify
  <2>2. kind \in {"complete", "status", "leMeta", "hwError", "vendor", "bad"}
    BY TransportAssumption
  <2>3. NoOp \in Opcodes \cup {NoOp} /\ TRUE \in BOOLEAN /\ 0 \in Nat
    OBVIOUS
  <2>4. remote' \in Seq(Event) /\ nEvents' \in Nat /\ pending' \in BOOLEAN
    BY <2>1, <2>2, <2>3, RaiseType
  <2> QED BY <1>1, <2>1, <2>4 DEF Notify, Raise, TypeOK, lists, app
<1>2. CASE Answer
  <2> DEFINE c == Head(commands)
  <2>1. c \in Request /\ Tail(commands) \in Seq(Request)
    BY <1>2 DEF Answer, TypeOK
  <2>2. c.op \in Opcodes /\ c.n \in Nat
    BY <2>1 DEF Request
  <2>3. PICK kind \in {"complete", "status"}, ok \in BOOLEAN : Raise(kind, c.op, ok, c.n)
    BY <1>2 DEF Answer
  <2>4. remote' \in Seq(Event) /\ nEvents' \in Nat /\ pending' \in BOOLEAN
    BY <2>2, <2>3, RaiseType
  <2>5. commands' \in Seq(Request)
    BY <1>2, <2>1 DEF Answer
  <2> QED BY <2>3, <2>4, <2>5 DEF Raise, TypeOK, lists, app
<1>3. CASE IsrEnter
  BY <1>3 DEF IsrEnter, TypeOK, controller, lists, app
<1>4. CASE IsrReceive
  <2>1. /\ Head(pool) \in Packets /\ Tail(pool) \in Seq(Packets)
        /\ Head(remote) \in Event /\ Tail(remote) \in Seq(Event)
    BY <1>4 DEF IsrReceive, TypeOK, LineHigh
  <2>2. Append(rxQueue, Head(pool)) \in Seq(Packets)
    BY <2>1 DEF TypeOK
  <2>3. [content EXCEPT ![Head(pool)] = Head(remote)] \in [Packets -> Event]
    BY <2>1 DEF TypeOK
  <2>4. /\ pool' \in Seq(Packets) /\ rxQueue' \in Seq(Packets)
        /\ content' \in [Packets -> Event]
    BY <1>4, <2>1, <2>2, <2>3 DEF IsrReceive, TypeOK
  <2>5. pending' \in BOOLEAN
    BY <1>4 DEF IsrReceive
  <2> QED BY <1>4, <2>1, <2>4, <2>5 DEF IsrReceive, TypeOK, app
<1>5. CASE IsrReturn
  BY <1>5 DEF IsrReturn, TypeOK, controller, lists, app
<1>6. ASSUME NEW op \in Opcodes, NEW wait \in Waits, SendReq(op, wait) PROVE TypeOK'
  <2>1. [op |-> op, wait |-> wait, n |-> nRequests + 1] \in Request
    BY DEF Request, TypeOK
  <2>2. req' \in Seq(Request) /\ Len(req') <= 1
    BY <1>6, <2>1 DEF SendReq
  <2> QED BY <1>6, <2>2 DEF SendReq, TypeOK, controller, lists
<1>7. CASE FreeEventList
  BY <1>7 DEF FreeEventList, TypeOK, controller, lists, app
<1>8. CASE FreeTake
  <2>1. rxQueue # <<>>
    BY <1>8, TakenIsThere DEF FreeTake, NeverTakesFromEmptyQueue
  <2>2. Head(rxQueue) \in Packets /\ Tail(rxQueue) \in Seq(Packets)
    BY <2>1 DEF TypeOK
  <2> QED BY <1>8, <2>2 DEF FreeTake, TypeOK, controller, app
<1>9. CASE FreePut
  <2>1. hand \in Packets
    BY <1>9 DEF FreePut, TypeOK, MainInv
  <2>2. [content EXCEPT ![hand] = NoEvent] \in [Packets -> Event]
    BY NoEventType DEF TypeOK
  <2>3. Append(pool, hand) \in Seq(Packets)
    BY <2>1 DEF TypeOK
  <2> QED BY <1>9, <2>2, <2>3 DEF FreePut, TypeOK, controller, app
<1>10. CASE SendCmd
  <2>1. Len(req) = 1 /\ req \in Seq(Request) /\ commands \in Seq(Request)
    BY <1>10 DEF SendCmd, TypeOK, MainInv
  <2>2. Append(commands, req[1]) \in Seq(Request)
    <3>1. req[1] \in Request
      BY <2>1
    <3> QED BY <2>1, <3>1
  <2>4. commands' \in Seq(Request)
    BY <1>10, <2>1, <2>2, Zenon DEF SendCmd
  <2>3. pending' \in BOOLEAN
    BY <1>10, TransportAssumption DEF SendCmd, LineHigh
  <2> QED BY <1>10, <2>4, <2>3 DEF SendCmd, TypeOK, lists, app
<1>11. CASE Timeout
  BY <1>11 DEF Timeout, TypeOK, controller, lists, app
<1>12. CASE TakeEvent
  BY <1>12 DEF TakeEvent, TypeOK, controller, app
<1>13. CASE Park
  <2>1. hand \in Packets
    BY <1>13 DEF Park, TypeOK, MainInv
  <2>2. [content EXCEPT ![hand] = NoEvent] \in [Packets -> Event]
    BY NoEventType DEF TypeOK
  <2>3. /\ pool' \in Seq(Packets) /\ tempQueue' \in Seq(Packets)
        /\ content' \in [Packets -> Event]
    <3>1. Append(pool, hand) \in Seq(Packets) /\ Append(tempQueue, hand) \in Seq(Packets)
      BY <2>1 DEF TypeOK
    <3> QED BY <1>13, <2>2, <3>1, Zenon DEF Park, TypeOK
  <2> QED BY <1>13, <2>3 DEF Park, TypeOK, controller, app
<1>14. CASE Release
  <2>1. [content EXCEPT ![hand] = NoEvent] \in [Packets -> Event]
    BY NoEventType DEF TypeOK
  <2>2. pool' \in Seq(Packets) /\ content' \in [Packets -> Event]
    <3>1. CASE hand = NoPacket
      BY <1>14, <3>1 DEF Release, TypeOK
    <3>2. CASE hand # NoPacket
      <4>1. <<hand>> \o pool \in Seq(Packets)
        BY <3>2 DEF TypeOK
      <4> QED BY <1>14, <2>1, <3>2, <4>1 DEF Release
    <3> QED BY <3>1, <3>2
  <2> QED BY <1>14, <2>2 DEF Release, TypeOK, controller
<1>15. CASE MoveList
  BY <1>15 DEF MoveList, TypeOK, controller, app
<1>16. CASE Return
  BY <1>16 DEF Return, TypeOK, controller, lists
<1>17. CASE UserEvtProc
  BY <1>17 DEF UserEvtProc, TypeOK, controller, lists, app
<1>18. CASE Deliver
  BY <1>18 DEF Deliver, TypeOK, controller
<1>19. CASE PutBack
  <2>1. hand \in Packets
    BY <1>19 DEF PutBack, TypeOK, MainInv
  <2>2. [content EXCEPT ![hand] = NoEvent] \in [Packets -> Event]
    BY NoEventType DEF TypeOK
  <2>3. Append(pool, hand) \in Seq(Packets)
    BY <2>1 DEF TypeOK
  <2> QED BY <1>19, <2>2, <2>3 DEF PutBack, TypeOK, controller, app
<1>20. CASE ProcEnd
  BY <1>20 DEF ProcEnd, TypeOK, controller, lists, app
<1>21. CASE UNCHANGED vars
  BY <1>21 DEF vars, TypeOK, controller, lists, app
<1> QED
  BY <1>1, <1>2, <1>3, <1>4, <1>5, <1>6, <1>7, <1>8, <1>9, <1>10, <1>11, <1>12, <1>13,
     <1>14, <1>15, <1>16, <1>17, <1>18, <1>19, <1>20, <1>21
  DEF Next, Isr, Main, HciSendReq, HciUserEvtProc

-----------------------------------------------------------------------------
(* Where the main loop is. *)

LEMMA MainStep == TypeOK /\ MainInv /\ CountInv /\ [Next]_vars => MainInv'
<1> SUFFICES ASSUME TypeOK, MainInv, CountInv, [Next]_vars PROVE MainInv'
  OBVIOUS
<1>1. CASE Notify
  BY <1>1 DEF Notify, Raise, lists, app, MainInv
<1>2. CASE Answer
  BY <1>2 DEF Answer, Raise, lists, app, MainInv
<1>3. CASE IsrEnter
  BY <1>3 DEF IsrEnter, lists, app, MainInv
<1>4. CASE IsrReceive
  <2>1. Len(pool') <= Len(pool) /\ Len(pool) \in Nat /\ Len(pool') \in Nat
    BY <1>4, TakeLength DEF IsrReceive, TypeOK
  <2>2. Len(pool) < NumPackets \div 2 => Len(pool') < NumPackets \div 2
    BY <2>1, TransportAssumption
  <2> QED BY <1>4, <2>2 DEF IsrReceive, app, MainInv
<1>5. CASE IsrReturn
  BY <1>5 DEF IsrReturn, lists, app, MainInv
<1>6. ASSUME NEW op \in Opcodes, NEW wait \in Waits, SendReq(op, wait) PROVE MainInv'
  BY <1>6 DEF SendReq, lists, MainInv
<1>7. CASE FreeEventList
  BY <1>7 DEF FreeEventList, lists, app, MainInv
<1>8. CASE FreeTake
  <2>1. Head(rxQueue) # NoPacket
    BY <1>8, TakenIsThere, TakeLength DEF FreeTake, NeverTakesFromEmptyQueue, TypeOK
  <2> QED BY <1>8, <2>1 DEF FreeTake, app, MainInv
<1>9. CASE FreePut
  BY <1>9 DEF FreePut, app, MainInv
<1>10. CASE SendCmd
  BY <1>10 DEF SendCmd, lists, app, MainInv
<1>11. CASE Timeout
  BY <1>11 DEF Timeout, lists, app, MainInv
<1>12. CASE TakeEvent
  <2>1. Head(rxQueue) # NoPacket
    BY <1>12, TakeLength DEF TakeEvent, TypeOK
  <2> QED BY <1>12, <2>1 DEF TakeEvent, app, MainInv
<1>13. CASE Park
  BY <1>13 DEF Park, app, MainInv
<1>14. CASE Release
  BY <1>14 DEF Release, MainInv
<1>15. CASE MoveList
  BY <1>15 DEF MoveList, app, MainInv
<1>16. CASE Return
  BY <1>16 DEF Return, lists, MainInv
<1>17. CASE UserEvtProc
  BY <1>17 DEF UserEvtProc, lists, app, MainInv
<1>18. CASE Deliver
  <2>1. Head(rxQueue) # NoPacket
    BY <1>18, TakeLength DEF Deliver, TypeOK
  <2> QED BY <1>18, <2>1 DEF Deliver, MainInv
<1>19. CASE PutBack
  BY <1>19 DEF PutBack, app, MainInv
<1>20. CASE ProcEnd
  BY <1>20 DEF ProcEnd, lists, app, MainInv
<1>21. CASE UNCHANGED vars
  BY <1>21 DEF vars, lists, app, MainInv
<1> QED
  BY <1>1, <1>2, <1>3, <1>4, <1>5, <1>6, <1>7, <1>8, <1>9, <1>10, <1>11, <1>12, <1>13,
     <1>14, <1>15, <1>16, <1>17, <1>18, <1>19, <1>20, <1>21
  DEF Next, Isr, Main, HciSendReq, HciUserEvtProc

(* No list operation changes the number of packets. *)
LEMMA CountStep == TypeOK /\ MainInv /\ CountInv /\ [Next]_vars => CountInv'
<1> SUFFICES ASSUME TypeOK, MainInv, CountInv, [Next]_vars PROVE CountInv'
  OBVIOUS
<1>1. CASE Notify
  BY <1>1 DEF Notify, Raise, lists, app, CountInv, InHandCount, TypeOK
<1>2. CASE Answer
  BY <1>2 DEF Answer, Raise, lists, app, CountInv, InHandCount, TypeOK
<1>3. CASE IsrEnter
  BY <1>3 DEF IsrEnter, lists, app, CountInv, InHandCount, TypeOK
<1>4. CASE IsrReceive
  <2>1. pool \in Seq(Packets) /\ rxQueue \in Seq(Packets) /\ tempQueue \in Seq(Packets)
    BY DEF TypeOK
  <2>2. Len(pool') + Len(rxQueue') = Len(pool) + Len(rxQueue)
    <3>1. CASE Head(remote).kind = "bad"
      BY <1>4, <3>1 DEF IsrReceive
    <3>2. CASE Head(remote).kind # "bad"
      <4>1. pool # <<>> /\ pool' = Tail(pool) /\ rxQueue' = Append(rxQueue, Head(pool))
        BY <1>4, <3>2 DEF IsrReceive
      <4>2. /\ Head(pool) \in Packets /\ Len(pool) \in Nat /\ Len(rxQueue) \in Nat
            /\ Len(Tail(pool)) = Len(pool) - 1
        BY <2>1, <4>1, TakeLength
      <4>3. Len(Append(rxQueue, Head(pool))) = Len(rxQueue) + 1
        BY <2>1, <4>2, PutLength
      <4> QED BY <4>1, <4>2, <4>3
    <3> QED BY <3>1, <3>2
  <2>3. tempQueue' = tempQueue /\ hand' = hand
    BY <1>4 DEF IsrReceive
  <2> QED BY <2>2, <2>3 DEF CountInv, InHandCount
<1>5. CASE IsrReturn
  BY <1>5 DEF IsrReturn, lists, app, CountInv, InHandCount, TypeOK
<1>6. ASSUME NEW op \in Opcodes, NEW wait \in Waits, SendReq(op, wait) PROVE CountInv'
  BY <1>6 DEF SendReq, lists, CountInv, InHandCount, TypeOK
<1>7. CASE FreeEventList
  BY <1>7 DEF FreeEventList, lists, app, CountInv, InHandCount, TypeOK
<1>8. CASE FreeTake
  <2>1. rxQueue # <<>> /\ rxQueue' = Tail(rxQueue) /\ hand' = Head(rxQueue)
    BY <1>8, TakenIsThere DEF FreeTake, NeverTakesFromEmptyQueue
  <2>2. hand = NoPacket /\ pool' = pool /\ tempQueue' = tempQueue
    BY <1>8 DEF FreeTake, MainInv
  <2>3. /\ hand' # NoPacket /\ Len(rxQueue) \in Nat /\ Len(rxQueue') = Len(rxQueue) - 1
        /\ Len(pool) \in Nat /\ Len(tempQueue) \in Nat
    BY <2>1, TakeLength DEF TypeOK
  <2> QED BY <2>2, <2>3 DEF CountInv, InHandCount
<1>9. CASE FreePut
  BY <1>9 DEF FreePut, app, CountInv, InHandCount, TypeOK, MainInv
<1>10. CASE SendCmd
  BY <1>10 DEF SendCmd, lists, app, CountInv, InHandCount, TypeOK
<1>11. CASE Timeout
  BY <1>11 DEF Timeout, lists, app, CountInv, InHandCount, TypeOK
<1>12. CASE TakeEvent
  <2>1. rxQueue # <<>> /\ rxQueue' = Tail(rxQueue) /\ hand' = Head(rxQueue)
    BY <1>12 DEF TakeEvent
  <2>2. hand = NoPacket /\ pool' = pool /\ tempQueue' = tempQueue
    BY <1>12 DEF TakeEvent, MainInv
  <2>3. /\ hand' # NoPacket /\ Len(rxQueue) \in Nat /\ Len(rxQueue') = Len(rxQueue) - 1
        /\ Len(pool) \in Nat /\ Len(tempQueue) \in Nat
    BY <2>1, TakeLength DEF TypeOK
  <2> QED BY <2>2, <2>3 DEF CountInv, InHandCount
<1>13. CASE Park
  <2>1. /\ hand \in Packets /\ hand # NoPacket /\ hand' = NoPacket
        /\ rxQueue' = rxQueue
    BY <1>13 DEF Park, TypeOK, MainInv
  <2>2. \/ pool' = Append(pool, hand) /\ tempQueue' = tempQueue
        \/ pool' = pool /\ tempQueue' = Append(tempQueue, hand)
    BY <1>13 DEF Park
  <2>3. /\ Len(pool) \in Nat /\ Len(tempQueue) \in Nat /\ Len(rxQueue) \in Nat
        /\ Len(Append(pool, hand)) = Len(pool) + 1
        /\ Len(Append(tempQueue, hand)) = Len(tempQueue) + 1
    BY <2>1, PutLength DEF TypeOK
  <2> QED BY <2>1, <2>2, <2>3 DEF CountInv, InHandCount
<1>14. CASE Release
  <2>1. tempQueue' = tempQueue /\ rxQueue' = rxQueue /\ hand' = NoPacket
    BY <1>14 DEF Release
  <2>2. CASE hand = NoPacket
    BY <1>14, <2>1, <2>2 DEF Release, CountInv, InHandCount
  <2>3. CASE hand # NoPacket
    <3>1. hand \in Packets /\ pool' = <<hand>> \o pool
      BY <1>14, <2>3 DEF Release, TypeOK
    <3>2. /\ Len(pool) \in Nat /\ Len(tempQueue) \in Nat /\ Len(rxQueue) \in Nat
          /\ Len(<<hand>> \o pool) = Len(pool) + 1
      BY <3>1, PutLength DEF TypeOK
    <3> QED BY <2>1, <2>3, <3>1, <3>2 DEF CountInv, InHandCount
  <2> QED BY <2>2, <2>3
<1>15. CASE MoveList
  <2>1. /\ tempQueue # <<>>
        /\ rxQueue' = <<tempQueue[Len(tempQueue)]>> \o rxQueue
        /\ tempQueue' = SubSeq(tempQueue, 1, Len(tempQueue) - 1)
    BY <1>15 DEF MoveList
  <2>4. pool' = pool /\ hand' = hand
    BY <1>15 DEF MoveList
  <2>2. /\ tempQueue[Len(tempQueue)] \in Packets
        /\ Len(tempQueue) \in Nat \ {0} /\ Len(tempQueue') = Len(tempQueue) - 1
    BY <2>1, CutLength DEF TypeOK
  <2>3. Len(rxQueue) \in Nat /\ Len(rxQueue') = Len(rxQueue) + 1 /\ Len(pool) \in Nat
    BY <2>1, <2>2, PutLength DEF TypeOK
  <2> QED BY <2>4, <2>2, <2>3 DEF CountInv, InHandCount
<1>16. CASE Return
  BY <1>16 DEF Return, lists, CountInv, InHandCount, TypeOK
<1>17. CASE UserEvtProc
  BY <1>17 DEF UserEvtProc, lists, app, CountInv, InHandCount, TypeOK
<1>18. CASE Deliver
  <2>1. rxQueue # <<>> /\ rxQueue' = Tail(rxQueue) /\ hand' = Head(rxQueue)
    BY <1>18 DEF Deliver
  <2>2. hand = NoPacket /\ pool' = pool /\ tempQueue' = tempQueue
    BY <1>18 DEF Deliver, MainInv
  <2>3. /\ hand' # NoPacket /\ Len(rxQueue) \in Nat /\ Len(rxQueue') = Len(rxQueue) - 1
        /\ Len(pool) \in Nat /\ Len(tempQueue) \in Nat
    BY <2>1, TakeLength DEF TypeOK
  <2> QED BY <2>2, <2>3 DEF CountInv, InHandCount
<1>19. CASE PutBack
  BY <1>19 DEF PutBack, app, CountInv, InHandCount, TypeOK, MainInv
<1>20. CASE ProcEnd
  BY <1>20 DEF ProcEnd, lists, app, CountInv, InHandCount, TypeOK
<1>21. CASE UNCHANGED vars
  BY <1>21 DEF vars, lists, app, CountInv, InHandCount, TypeOK
<1> QED
  BY <1>1, <1>2, <1>3, <1>4, <1>5, <1>6, <1>7, <1>8, <1>9, <1>10, <1>11, <1>12, <1>13,
     <1>14, <1>15, <1>16, <1>17, <1>18, <1>19, <1>20, <1>21
  DEF Next, Isr, Main, HciSendReq, HciUserEvtProc

-----------------------------------------------------------------------------
(* Each packet stays in one place. *)

LEMMA ConservedStep == IInv /\ [Next]_vars => PacketsConserved'
<1> SUFFICES ASSUME TypeOK, MainInv, CountInv, PacketsConserved, [Next]_vars
             PROVE  PacketsConserved'
  BY DEF IInv
<1>1. CASE Notify
  BY <1>1 DEF Notify, Raise, lists, PacketsConserved, InMain
<1>2. CASE Answer
  BY <1>2 DEF Answer, Raise, lists, PacketsConserved, InMain
<1>3. CASE IsrEnter
  BY <1>3 DEF IsrEnter, lists, PacketsConserved, InMain
<1>4. CASE IsrReceive
  <2>1. tempQueue' = tempQueue /\ hand' = hand
    BY <1>4 DEF IsrReceive
  <2>2. CASE Head(remote).kind = "bad"
    <3>1. pool' = pool /\ rxQueue' = rxQueue
      BY <1>4, <2>2 DEF IsrReceive
    <3> QED BY <2>1, <3>1 DEF PacketsConserved, InMain
  <2>3. CASE Head(remote).kind # "bad"
    <3> DEFINE p == Head(pool)
    <3>1. pool # <<>> /\ pool' = Tail(pool) /\ rxQueue' = Append(rxQueue, p)
      BY <1>4, <2>3 DEF IsrReceive
    <3>2. /\ p \in Packets /\ p \in Held(pool)
          /\ Held(pool') = Held(pool) \ {p} /\ Distinct(pool')
      BY <3>1, TailHeld DEF TypeOK, PacketsConserved
    <3>3. p \notin Held(rxQueue)
      BY <3>2 DEF PacketsConserved
    <3>4. Held(rxQueue') = Held(rxQueue) \cup {p} /\ Distinct(rxQueue')
      BY <3>1, <3>2, <3>3, AppendHeld DEF TypeOK, PacketsConserved
    <3> HIDE DEF p
    <3> QED BY <2>1, <3>2, <3>4 DEF PacketsConserved, InMain
  <2> QED BY <2>2, <2>3
<1>5. CASE IsrReturn
  BY <1>5 DEF IsrReturn, lists, PacketsConserved, InMain
<1>6. ASSUME NEW op \in Opcodes, NEW wait \in Waits, SendReq(op, wait) PROVE PacketsConserved'
  BY <1>6 DEF SendReq, lists, PacketsConserved, InMain
<1>7. CASE FreeEventList
  BY <1>7 DEF FreeEventList, lists, PacketsConserved, InMain
<1>8. CASE FreeTake
  <2>1. rxQueue # <<>> /\ rxQueue' = Tail(rxQueue) /\ hand' = Head(rxQueue)
    BY <1>8, TakenIsThere DEF FreeTake, NeverTakesFromEmptyQueue
  <2>2. hand = NoPacket /\ pool' = pool /\ tempQueue' = tempQueue
    BY <1>8 DEF FreeTake, MainInv
  <2>3. /\ hand' # NoPacket /\ hand' \in Held(rxQueue)
        /\ Held(rxQueue') = Held(rxQueue) \ {hand'} /\ Distinct(rxQueue')
    BY <2>1, TakeLength, TailHeld DEF TypeOK, PacketsConserved
  <2> QED BY <2>2, <2>3 DEF PacketsConserved, InMain
<1>9. CASE FreePut
  <2>1. hand \in Packets /\ hand # NoPacket /\ hand \notin Held(pool)
    BY <1>9 DEF FreePut, TypeOK, MainInv, PacketsConserved, InMain
  <2>2. Held(pool') = Held(pool) \cup {hand} /\ Distinct(pool')
    BY <1>9, <2>1, AppendHeld DEF FreePut, TypeOK, PacketsConserved
  <2>3. hand' = NoPacket /\ rxQueue' = rxQueue /\ tempQueue' = tempQueue
    BY <1>9 DEF FreePut
  <2> QED BY <2>1, <2>2, <2>3 DEF PacketsConserved, InMain
<1>10. CASE SendCmd
  BY <1>10 DEF SendCmd, lists, PacketsConserved, InMain
<1>11. CASE Timeout
  BY <1>11 DEF Timeout, lists, PacketsConserved, InMain
<1>12. CASE TakeEvent
  <2>1. rxQueue # <<>> /\ rxQueue' = Tail(rxQueue) /\ hand' = Head(rxQueue)
    BY <1>12 DEF TakeEvent
  <2>2. hand = NoPacket /\ pool' = pool /\ tempQueue' = tempQueue
    BY <1>12 DEF TakeEvent, MainInv
  <2>3. /\ hand' # NoPacket /\ hand' \in Held(rxQueue)
        /\ Held(rxQueue') = Held(rxQueue) \ {hand'} /\ Distinct(rxQueue')
    BY <2>1, TakeLength, TailHeld DEF TypeOK, PacketsConserved
  <2> QED BY <2>2, <2>3 DEF PacketsConserved, InMain
<1>13. CASE Park
  <2>1. /\ hand \in Packets /\ hand # NoPacket
        /\ hand \notin Held(pool) /\ hand \notin Held(tempQueue)
    BY <1>13 DEF Park, TypeOK, MainInv, PacketsConserved, InMain
  <2>2. hand' = NoPacket /\ rxQueue' = rxQueue
    BY <1>13 DEF Park
  <2>3. CASE pool' = Append(pool, hand) /\ tempQueue' = tempQueue
    <3>1. Held(pool') = Held(pool) \cup {hand} /\ Distinct(pool')
      BY <2>1, <2>3, AppendHeld DEF TypeOK, PacketsConserved
    <3> QED BY <2>1, <2>2, <2>3, <3>1 DEF PacketsConserved, InMain
  <2>4. CASE pool' = pool /\ tempQueue' = Append(tempQueue, hand)
    <3>1. Held(tempQueue') = Held(tempQueue) \cup {hand} /\ Distinct(tempQueue')
      BY <2>1, <2>4, AppendHeld DEF TypeOK, PacketsConserved
    <3> QED BY <2>1, <2>2, <2>4, <3>1 DEF PacketsConserved, InMain
  <2> QED BY <1>13, <2>3, <2>4 DEF Park
<1>14. CASE Release
  <2>1. tempQueue' = tempQueue /\ rxQueue' = rxQueue /\ hand' = NoPacket
    BY <1>14 DEF Release
  <2>2. CASE hand = NoPacket
    BY <1>14, <2>1, <2>2 DEF Release, PacketsConserved, InMain
  <2>3. CASE hand # NoPacket
    <3>1. hand \in Packets /\ hand \notin Held(pool) /\ pool' = <<hand>> \o pool
      BY <1>14, <2>3 DEF Release, TypeOK, PacketsConserved, InMain
    <3>2. Held(pool') = Held(pool) \cup {hand} /\ Distinct(pool')
      BY <3>1, PrependHeld DEF TypeOK, PacketsConserved
    <3> QED BY <2>1, <2>3, <3>1, <3>2 DEF PacketsConserved, InMain
  <2> QED BY <2>2, <2>3
<1>15. CASE MoveList
  <2> DEFINE p == tempQueue[Len(tempQueue)]
  <2>1. tempQueue # <<>> /\ rxQueue' = <<p>> \o rxQueue
    BY <1>15 DEF MoveList
  <2>2. tempQueue' = SubSeq(tempQueue, 1, Len(tempQueue) - 1)
    BY <1>15 DEF MoveList
  <2>3. pool' = pool /\ hand' = hand
    BY <1>15 DEF MoveList
  <2>4. /\ p \in Packets /\ p \in Held(tempQueue)
        /\ Held(tempQueue') = Held(tempQueue) \ {p} /\ Distinct(tempQueue')
    BY <2>1, <2>2, FrontHeld DEF TypeOK, PacketsConserved
  <2>5. p \notin Held(rxQueue)
    BY <2>4 DEF PacketsConserved
  <2>6. Held(rxQueue') = Held(rxQueue) \cup {p} /\ Distinct(rxQueue')
    BY <2>1, <2>4, <2>5, PrependHeld DEF TypeOK, PacketsConserved
  <2> HIDE DEF p
  <2> QED BY <2>3, <2>4, <2>6 DEF PacketsConserved, InMain
<1>16. CASE Return
  BY <1>16 DEF Return, lists, PacketsConserved, InMain
<1>17. CASE UserEvtProc
  BY <1>17 DEF UserEvtProc, lists, PacketsConserved, InMain
<1>18. CASE Deliver
  <2>1. rxQueue # <<>> /\ rxQueue' = Tail(rxQueue) /\ hand' = Head(rxQueue)
    BY <1>18 DEF Deliver
  <2>2. hand = NoPacket /\ pool' = pool /\ tempQueue' = tempQueue
    BY <1>18 DEF Deliver, MainInv
  <2>3. /\ hand' # NoPacket /\ hand' \in Held(rxQueue)
        /\ Held(rxQueue') = Held(rxQueue) \ {hand'} /\ Distinct(rxQueue')
    BY <2>1, TakeLength, TailHeld DEF TypeOK, PacketsConserved
  <2> QED BY <2>2, <2>3 DEF PacketsConserved, InMain
<1>19. CASE PutBack
  <2>1. hand \in Packets /\ hand # NoPacket /\ hand \notin Held(pool)
    BY <1>19 DEF PutBack, TypeOK, MainInv, PacketsConserved, InMain
  <2>2. Held(pool') = Held(pool) \cup {hand} /\ Distinct(pool')
    BY <1>19, <2>1, AppendHeld DEF PutBack, TypeOK, PacketsConserved
  <2>3. hand' = NoPacket /\ rxQueue' = rxQueue /\ tempQueue' = tempQueue
    BY <1>19 DEF PutBack
  <2> QED BY <2>1, <2>2, <2>3 DEF PacketsConserved, InMain
<1>20. CASE ProcEnd
  BY <1>20 DEF ProcEnd, lists, PacketsConserved, InMain
<1>21. CASE UNCHANGED vars
  BY <1>21 DEF vars, lists, PacketsConserved, InMain
<1> QED
  BY <1>1, <1>2, <1>3, <1>4, <1>5, <1>6, <1>7, <1>8, <1>9, <1>10, <1>11, <1>12, <1>13,
     <1>14, <1>15, <1>16, <1>17, <1>18, <1>19, <1>20, <1>21
  DEF Next, Isr, Main, HciSendReq, HciUserEvtProc

-----------------------------------------------------------------------------
(* The theorems. *)

LEMMA InvInit == Init => IInv
<1> SUFFICES ASSUME Init PROVE IInv
  OBVIOUS
<1>1. TypeOK
  BY TypeInit
<1>2. MainInv
  BY DEF Init, MainInv
<1>3. NumPackets \in Nat /\ Len(pool) = NumPackets /\ \A i \in 1..NumPackets : pool[i] = i
  BY TransportAssumption DEF Init, Packets
<1>4. CountInv
  BY <1>3 DEF Init, CountInv, InHandCount
<1>5. PacketsConserved
  <2>1. Distinct(pool) /\ Held(pool) = Packets
    BY <1>3 DEF Held, Distinct, Packets
  <2> QED BY <2>1, EmptyHeld DEF Init, PacketsConserved, InMain
<1> QED BY <1>1, <1>2, <1>4, <1>5 DEF IInv

LEMMA InvStep == IInv /\ [Next]_vars => IInv'
BY TypeStep, MainStep, CountStep, ConservedStep DEF IInv

THEOREM Invariance == Spec => []IInv
BY InvInit, InvStep, PTL DEF Spec

\* For any number of packets, opcodes and events the transport is type correct.
THEOREM TypeCorrect == Spec => []TypeOK
<1>1. IInv => TypeOK
  BY DEF IInv
<1> QED BY <1>1, Invariance, PTL

\* No interleaving of the interrupt with hci_send_req and hci_user_evt_proc
\* duplicates or loses a packet of the pool.
THEOREM Conservation == Spec => []PacketsConserved
<1>1. IInv => PacketsConserved
  BY DEF IInv
<1> QED BY <1>1, Invariance, PTL

\* free_event_list never removes from an empty receive queue, although it does
\* not test for one.
THEOREM NoUnderflow == Spec => []NeverTakesFromEmptyQueue
<1>1. IInv => NeverTakesFromEmptyQueue
  BY TakenIsThere DEF IInv
<1> QED BY <1>1, Invariance, PTL

\* hci_send_req returns with its temporary queue empty and no packet in hand.
THEOREM NoLeak == Spec => []NothingLeftBehind
<1>1. IInv => NothingLeftBehind
  BY DEF IInv, MainInv, NothingLeftBehind
<1> QED BY <1>1, Invariance, PTL

\* The transport stops listening to the controller in one step only: the return
\* of an interrupt handler that found the pool empty.
THEOREM Listening == Spec => DeafOnlyWhenPoolEmpty
<1>1. [Next]_vars => [Deaf' /\ ~Deaf => pool = <<>>]_vars
  <2> SUFFICES ASSUME Next, Deaf', ~Deaf PROVE pool = <<>>
    OBVIOUS
  <2>1. CASE Notify \/ Answer
    <3>1. pending' = (pending \/ ~LineHigh) /\ inIsr' = inIsr
      BY <2>1 DEF Notify, Answer, Raise
    <3> QED BY <3>1 DEF Deaf
  <2>2. CASE IsrEnter
    BY <2>2 DEF IsrEnter, Deaf
  <2>3. CASE IsrReceive
    BY <2>3 DEF IsrReceive, Deaf
  <2>4. CASE IsrReturn
    BY <2>4 DEF IsrReturn, Deaf, LineHigh, controller
  <2>5. CASE Main
    <3>1. ~pending /\ ~inIsr /\ remote' = remote
      BY <2>5 DEF Main, HciSendReq, HciUserEvtProc, SendReq, FreeEventList, FreeTake, FreePut,
         SendCmd, Timeout, TakeEvent, Park, Release, MoveList, Return, UserEvtProc, Deliver,
         PutBack, ProcEnd, MainRuns, controller
    <3> QED BY <3>1 DEF Deaf, LineHigh
  <2> QED BY <2>1, <2>2, <2>3, <2>4, <2>5 DEF Next, Isr
<1> QED BY <1>1, PTL DEF Spec, DeafOnlyWhenPoolEmpty

-----------------------------------------------------------------------------
(***************************************************************************)
(* HciTransport implements EventChannel.                                   *)
(*                                                                         *)
(* The events of the channel are those of the packets in Queue: what       *)
(* hci_send_req has set aside, what it holds, what the interrupt has       *)
(* received.  View(c, s) is the sequence of the events in the packets s.   *)
(* Each step either leaves Queue as it is, however the packets move from   *)
(* list to list, or changes it as a step of the channel does.              *)
(***************************************************************************)

View(c, s) == [i \in 1..Len(s) |-> c[s[i]]]

Events == Local(tempQueue \o InHand \o rxQueue)

(* A packet hci_send_req is about to release holds the event of a request. *)
HandInv == pc \in {"done", "failed"} /\ hand # NoPacket => IsResponse(content[hand])

-----------------------------------------------------------------------------
(* Sequences of packets and the events in them. *)

LEMMA ViewType ==
  ASSUME NEW c \in [Packets -> Event], NEW s \in Seq(Packets)
  PROVE  /\ View(c, s) \in Seq(Event) /\ Len(View(c, s)) = Len(s)
         /\ \A i \in 1..Len(s) : View(c, s)[i] = c[s[i]]
<1>1. Len(s) \in Nat /\ \A i \in 1..Len(s) : s[i] \in Packets
  OBVIOUS
<1>2. \A i \in 1..Len(s) : c[s[i]] \in Event
  BY <1>1
<1>3. View(c, s) \in [1..Len(s) -> Event]
  BY <1>2 DEF View
<1> QED BY <1>1, <1>3, SeqDef DEF View

LEMMA ViewAgree ==
  ASSUME NEW c, NEW d, NEW s, \A i \in 1..Len(s) : c[s[i]] = d[s[i]]
  PROVE  View(c, s) = View(d, s)
BY DEF View

LEMMA ViewConcat ==
  ASSUME NEW c \in [Packets -> Event], NEW s \in Seq(Packets), NEW t \in Seq(Packets)
  PROVE  View(c, s \o t) = View(c, s) \o View(c, t)
<1>1. /\ s \o t \in Seq(Packets) /\ Len(s \o t) = Len(s) + Len(t)
      /\ Len(s) \in Nat /\ Len(t) \in Nat
      /\ \A i \in 1 .. Len(s) + Len(t) : (s \o t)[i] = IF i <= Len(s) THEN s[i] ELSE t[i - Len(s)]
  BY ConcatProperties, LenProperties
<1>2. /\ View(c, s) \in Seq(Event) /\ Len(View(c, s)) = Len(s)
      /\ \A i \in 1..Len(s) : View(c, s)[i] = c[s[i]]
  BY ViewType, Zenon
<1>3. /\ View(c, t) \in Seq(Event) /\ Len(View(c, t)) = Len(t)
      /\ \A i \in 1..Len(t) : View(c, t)[i] = c[t[i]]
  BY ViewType, Zenon
<1>4. /\ View(c, s \o t) \in Seq(Event) /\ Len(View(c, s \o t)) = Len(s) + Len(t)
      /\ \A i \in 1 .. Len(s) + Len(t) : View(c, s \o t)[i] = c[(s \o t)[i]]
  BY <1>1, ViewType, Zenon
<1>5. /\ View(c, s) \o View(c, t) \in Seq(Event)
      /\ Len(View(c, s) \o View(c, t)) = Len(s) + Len(t)
      /\ \A i \in 1 .. Len(s) + Len(t) :
           (View(c, s) \o View(c, t))[i] =
             IF i <= Len(s) THEN View(c, s)[i] ELSE View(c, t)[i - Len(s)]
  <2>1. /\ View(c, s) \o View(c, t) \in Seq(Event)
        /\ Len(View(c, s) \o View(c, t)) = Len(View(c, s)) + Len(View(c, t))
        /\ \A i \in 1 .. Len(View(c, s)) + Len(View(c, t)) :
             (View(c, s) \o View(c, t))[i] =
               IF i <= Len(View(c, s)) THEN View(c, s)[i] ELSE View(c, t)[i - Len(View(c, s))]
    BY <1>2, <1>3, ConcatProperties, Zenon
  <2> QED BY <1>2, <1>3, <2>1, Zenon
<1>6. ASSUME NEW i \in 1 .. Len(s) + Len(t)
      PROVE  View(c, s \o t)[i] = (View(c, s) \o View(c, t))[i]
  <2>1. CASE i <= Len(s)
    <3>1. /\ i \in 1..Len(s) /\ (s \o t)[i] = s[i]
          /\ (View(c, s) \o View(c, t))[i] = View(c, s)[i]
      BY <1>1, <1>5, <2>1
    <3> QED BY <1>2, <1>4, <3>1, Zenon
  <2>2. CASE ~(i <= Len(s))
    <3>1. i - Len(s) \in 1..Len(t)
      BY <1>1, <2>2
    <3>2. /\ (s \o t)[i] = t[i - Len(s)]
          /\ (View(c, s) \o View(c, t))[i] = View(c, t)[i - Len(s)]
      BY <1>1, <1>5, <2>2
    <3> QED BY <1>3, <1>4, <3>1, <3>2, Zenon
  <2> QED BY <2>1, <2>2
<1> HIDE DEF View
<1> QED BY <1>4, <1>5, <1>6, SeqEqual

LEMMA ViewSingle ==
  ASSUME NEW c \in [Packets -> Event], NEW p \in Packets
  PROVE  View(c, <<p>>) = <<c[p]>>
<1> DEFINE s == <<p>>
<1>1. s \in Seq(Packets) /\ Len(s) = 1 /\ s[1] = p /\ c[p] \in Event
  OBVIOUS
<1> HIDE DEF s
<1>2. /\ View(c, s) \in Seq(Event) /\ Len(View(c, s)) = Len(s)
      /\ \A i \in 1..Len(s) : View(c, s)[i] = c[s[i]]
  BY <1>1, ViewType, Zenon
<1>3. Len(View(c, s)) = 1 /\ View(c, s)[1] = c[p]
  BY <1>1, <1>2
<1>4. <<c[p]>> \in Seq(Event) /\ Len(<<c[p]>>) = 1 /\ <<c[p]>>[1] = c[p]
  BY <1>1
<1>5. \A i \in 1..1 : i = 1
  OBVIOUS
<1>6. View(c, s) = <<c[p]>>
  <2> HIDE DEF View
  <2> QED BY <1>2, <1>3, <1>4, <1>5, SeqEqual
<1> QED BY <1>6 DEF s

LEMMA ViewTail ==
  ASSUME NEW c \in [Packets -> Event], NEW s \in Seq(Packets), s # <<>>
  PROVE  /\ View(c, s) # <<>> /\ Head(View(c, s)) = c[Head(s)]
         /\ Tail(View(c, s)) = View(c, Tail(s))
<1>1. /\ Head(s) \in Packets /\ Tail(s) \in Seq(Packets) /\ Len(Tail(s)) = Len(s) - 1
      /\ Len(s) \in Nat \ {0} /\ Head(s) = s[1]
      /\ \A i \in 1 .. Len(s) - 1 : Tail(s)[i] = s[i + 1]
  BY HeadTailProperties, EmptySeq
<1>2. /\ View(c, s) \in Seq(Event) /\ Len(View(c, s)) = Len(s)
      /\ \A i \in 1..Len(s) : View(c, s)[i] = c[s[i]]
  BY ViewType, Zenon
<1>3. /\ View(c, Tail(s)) \in Seq(Event) /\ Len(View(c, Tail(s))) = Len(s) - 1
      /\ \A i \in 1 .. Len(s) - 1 : View(c, Tail(s))[i] = c[Tail(s)[i]]
  BY <1>1, ViewType, Zenon
<1> HIDE DEF View
<1>4. View(c, s) # <<>>
  BY <1>1, <1>2
<1>5. /\ Tail(View(c, s)) \in Seq(Event) /\ Len(Tail(View(c, s))) = Len(s) - 1
      /\ \A i \in 1 .. Len(s) - 1 : Tail(View(c, s))[i] = View(c, s)[i + 1]
  BY <1>2, <1>4, HeadTailProperties
<1>6. \A i \in 1 .. Len(s) - 1 : Tail(View(c, s))[i] = View(c, Tail(s))[i]
  BY <1>1, <1>2, <1>3, <1>5
<1>7. Tail(View(c, s)) = View(c, Tail(s))
  BY <1>3, <1>5, <1>6, SeqEqual
<1>8. Head(View(c, s)) = c[Head(s)]
  BY <1>1, <1>2, <1>4
<1> QED BY <1>4, <1>7, <1>8

LEMMA FrontOfAppend ==
  ASSUME NEW E, NEW s \in Seq(E), NEW e \in E
  PROVE  SubSeq(s \o <<e>>, 1, Len(s \o <<e>>) - 1) = s
<1> DEFINE n == Len(s)
           x == s \o <<e>>
<1>1. <<e>> \in Seq(E) /\ Len(<<e>>) = 1 /\ n \in Nat /\ 1 \in Int /\ n \in Int
  OBVIOUS
<1>2. /\ x \in Seq(E) /\ Len(x) = n + 1
      /\ \A i \in 1 .. n : x[i] = s[i]
  BY <1>1, ConcatProperties
<1>3. \A i \in 1 .. n : x[i] \in E
  BY <1>1, <1>2
<1>8. Len(s) = n /\ Len(x) - 1 = n
  BY <1>1, <1>2
<1> HIDE DEF n, x
<1>4. /\ SubSeq(x, 1, n) \in Seq(E)
      /\ Len(SubSeq(x, 1, n)) = (IF 1 <= n THEN n - 1 + 1 ELSE 0)
      /\ \A i \in 1 .. n - 1 + 1 : SubSeq(x, 1, n)[i] = x[1 + i - 1]
  BY <1>1, <1>3, SubSeqProperties
<1>5. Len(SubSeq(x, 1, n)) = n
  BY <1>1, <1>4
<1>6. \A i \in 1 .. n : SubSeq(x, 1, n)[i] = s[i]
  <2> TAKE i \in 1 .. n
  <2>1. i \in 1 .. n - 1 + 1 /\ 1 + i - 1 = i
    BY <1>1
  <2> QED BY <1>2, <1>4, <2>1
<1>7. SubSeq(x, 1, n) = s
  BY <1>4, <1>5, <1>6, <1>8, SeqEqual
<1>9. SubSeq(x, 1, Len(x) - 1) = s
  BY <1>7, <1>8
<1> QED BY <1>9 DEF x

LEMMA WithoutMiddle ==
  ASSUME NEW a \in Seq(Event), NEW e \in Event, NEW b \in Seq(Event)
  PROVE  /\ Len(a) + 1 \in 1 .. Len((a \o <<e>>) \o b)
         /\ ((a \o <<e>>) \o b)[Len(a) + 1] = e
         /\ SubSeq((a \o <<e>>) \o b, 1, Len(a))
              \o SubSeq((a \o <<e>>) \o b, Len(a) + 2, Len((a \o <<e>>) \o b)) = a \o b
<1> DEFINE m == Len(a)
           k == Len(b)
           x == a \o <<e>>
           whole == x \o b
<1>1. <<e>> \in Seq(Event) /\ Len(<<e>>) = 1 /\ <<e>>[1] = e /\ m \in Nat /\ k \in Nat /\ 1 \in Int
  OBVIOUS
<1>2. /\ x \in Seq(Event) /\ Len(x) = m + 1
      /\ \A i \in 1 .. m + 1 : x[i] = IF i <= m THEN a[i] ELSE <<e>>[i - m]
  BY <1>1, ConcatProperties
<1>3. \A i \in 1 .. m : x[i] = a[i]
  BY <1>1, <1>2
<1>4. x[m + 1] = e
  BY <1>1, <1>2
<1>11. k = Len(b)
  OBVIOUS
<1> HIDE DEF x, k
<1>5. /\ whole \in Seq(Event) /\ Len(whole) = Len(x) + k
      /\ \A i \in 1 .. Len(x) + k : whole[i] = IF i <= Len(x) THEN x[i] ELSE b[i - Len(x)]
  <2>1. /\ x \o b \in Seq(Event) /\ Len(x \o b) = Len(x) + Len(b)
        /\ \A i \in 1 .. Len(x) + Len(b) : (x \o b)[i] = IF i <= Len(x) THEN x[i] ELSE b[i - Len(x)]
    <3>1. x \in Seq(Event)
      BY <1>2
    <3> QED BY <3>1, ConcatProperties
  <2> QED BY <1>11, <2>1
<1>6. /\ Len(whole) = m + 1 + k /\ \A i \in 1 .. m : whole[i] = a[i]
      /\ whole[m + 1] = e
      /\ \A i \in 1 .. k : whole[m + 1 + i] = b[i]
  <2> HIDE DEF whole, m
  <2>1. Len(whole) = m + 1 + k
    BY <1>2, <1>5
  <2>2. \A i \in 1 .. m : whole[i] = a[i]
    BY <1>1, <1>2, <1>3, <1>5
  <2>3. whole[m + 1] = e
    <3>1. m + 1 \in 1 .. Len(x) + k /\ m + 1 <= Len(x)
      BY <1>1, <1>2
    <3>2. whole[m + 1] = x[m + 1]
      BY <1>5, <3>1
    <3> QED BY <1>4, <3>2
  <2>4. \A i \in 1 .. k : whole[m + 1 + i] = b[i]
    BY <1>1, <1>2, <1>5
  <2> QED BY <2>1, <2>2, <2>3, <2>4
<1> HIDE DEF whole
<1>7. SubSeq(whole, 1, m) = a
  <2>1. \A i \in 1 .. m : whole[i] \in Event
    <3>1. \A i \in 1 .. m : a[i] \in Event
      OBVIOUS
    <3> QED BY <1>6, <3>1
  <2>2. m \in Int /\ Len(a) = m
    BY <1>1 DEF m
  <2> HIDE DEF m
  <2>3. /\ SubSeq(whole, 1, m) \in Seq(Event)
        /\ Len(SubSeq(whole, 1, m)) = (IF 1 <= m THEN m - 1 + 1 ELSE 0)
        /\ \A i \in 1 .. m - 1 + 1 : SubSeq(whole, 1, m)[i] = whole[1 + i - 1]
    BY <1>1, <2>1, <2>2, SubSeqProperties
  <2>4. Len(SubSeq(whole, 1, m)) = m
    BY <1>1, <2>3
  <2>5. \A i \in 1 .. m : SubSeq(whole, 1, m)[i] = a[i]
    <3> TAKE i \in 1 .. m
    <3>1. i \in 1 .. m - 1 + 1 /\ 1 + i - 1 = i
      BY <1>1
    <3> QED BY <1>6, <2>3, <3>1
  <2> QED BY <2>2, <2>3, <2>4, <2>5, SeqEqual
<1>8. SubSeq(whole, m + 2, m + 1 + k) = b
  <2> DEFINE from == m + 2
             to == m + 1 + k
  <2>1. from \in Int /\ to \in Int /\ to - from + 1 = k
    BY <1>1
  <2>2. \A i \in from .. to : i \in 1 .. Len(whole)
    BY <1>1, <1>6
  <2>3. \A i \in from .. to : whole[i] \in Event
    BY <1>5, <2>2, ElementOfSeq
  <2>4. \A i \in 1 .. k : from + i - 1 = m + 1 + i
    BY <1>1
  <2>10. k = Len(b) /\ (from <= to <=> 1 <= k)
    BY <1>1, <1>11
  <2> HIDE DEF from, to
  <2>5. /\ SubSeq(whole, from, to) \in Seq(Event)
        /\ Len(SubSeq(whole, from, to)) = (IF from <= to THEN to - from + 1 ELSE 0)
        /\ \A i \in 1 .. to - from + 1 : SubSeq(whole, from, to)[i] = whole[from + i - 1]
    <3>1. from \in Int /\ to \in Int
      BY <2>1
    <3> QED BY <2>3, <3>1, SubSeqProperties
  <2>6. Len(SubSeq(whole, from, to)) = k
    BY <1>1, <2>1, <2>5, <2>10
  <2>7. \A i \in 1 .. k : SubSeq(whole, from, to)[i] = b[i]
    BY <1>6, <2>1, <2>4, <2>5
  <2>8. SubSeq(whole, from, to) = b
    BY <2>5, <2>6, <2>7, <2>10, SeqEqual
  <2> QED BY <2>8 DEF from, to
<1>9. m + 1 \in 1 .. Len(whole)
  BY <1>1, <1>6
<1>10. SubSeq(whole, 1, m) \o SubSeq(whole, m + 2, Len(whole)) = a \o b
  BY <1>6, <1>7, <1>8
<1> QED BY <1>6, <1>9, <1>10 DEF whole, x

LEMMA ViewExcept ==
  ASSUME NEW c \in [Packets -> Event], NEW s \in Seq(Packets), NEW p, NEW e, p \notin Held(s)
  PROVE  View([c EXCEPT ![p] = e], s) = View(c, s)
<1> DEFINE d == [c EXCEPT ![p] = e]
<1>1. \A i \in 1..Len(s) : s[i] \in Packets /\ s[i] # p
  BY DEF Held
<1>2. \A i \in 1..Len(s) : c[s[i]] = d[s[i]]
  BY <1>1
<1> HIDE DEF d
<1>3. View(c, s) = View(d, s)
  BY <1>2, ViewAgree
<1> QED BY <1>3 DEF d

(* The events in three lists of packets, one after the other. *)
LEMMA ViewParts ==
  ASSUME NEW c \in [Packets -> Event], NEW t \in Seq(Packets), NEW h \in Seq(Packets),
         NEW r \in Seq(Packets)
  PROVE  View(c, (t \o h) \o r) = (View(c, t) \o View(c, h)) \o View(c, r)
<1>1. t \o h \in Seq(Packets)
  BY ConcatProperties
<1>2. View(c, (t \o h) \o r) = View(c, t \o h) \o View(c, r)
  BY <1>1, ViewConcat, Zenon
<1>3. View(c, t \o h) = View(c, t) \o View(c, h)
  BY ViewConcat, Zenon
<1> QED BY <1>2, <1>3

LEMMA PartsLength ==
  ASSUME NEW a \in Seq(Event), NEW b \in Seq(Event), NEW d \in Seq(Event)
  PROVE  (a \o b) \o d \in Seq(Event) /\ Len((a \o b) \o d) = Len(a) + Len(b) + Len(d)
<1>1. a \o b \in Seq(Event) /\ Len(a \o b) = Len(a) + Len(b)
  BY ConcatProperties
<1> DEFINE x == a \o b
<1>3. x \in Seq(Event)
  BY <1>1
<1> HIDE DEF x
<1>2. x \o d \in Seq(Event) /\ Len(x \o d) = Len(x) + Len(d)
  BY <1>3, ConcatProperties
<1> QED BY <1>1, <1>2 DEF x

-----------------------------------------------------------------------------
(* The events of the channel before and after a step. *)

LEMMA EventsNow ==
  ASSUME TypeOK
  PROVE  /\ InHand \in Seq(Packets)
         /\ Events = (View(content, tempQueue) \o View(content, InHand)) \o View(content, rxQueue)
<1>1. InHand \in Seq(Packets)
  BY DEF TypeOK, InHand
<1>2. /\ content \in [Packets -> Event]
      /\ tempQueue \in Seq(Packets) /\ rxQueue \in Seq(Packets)
  BY DEF TypeOK
<1>3. Events = View(content, (tempQueue \o InHand) \o rxQueue)
  BY DEF Events, Local, View
<1>4. View(content, (tempQueue \o InHand) \o rxQueue)
        = (View(content, tempQueue) \o View(content, InHand)) \o View(content, rxQueue)
  BY <1>1, <1>2, ViewParts, Zenon
<1> QED BY <1>1, <1>3, <1>4

LEMMA EventsNext ==
  ASSUME TypeOK'
  PROVE  /\ InHand' \in Seq(Packets)
         /\ Events' = (View(content', tempQueue') \o View(content', InHand'))
                        \o View(content', rxQueue')
<1>1. InHand' \in Seq(Packets)
  BY DEF TypeOK, InHand
<1>2. /\ content' \in [Packets -> Event]
      /\ tempQueue' \in Seq(Packets) /\ rxQueue' \in Seq(Packets)
  BY DEF TypeOK
<1>3. Events' = View(content', (tempQueue' \o InHand') \o rxQueue')
  BY DEF Events, Local, View
<1>4. View(content', (tempQueue' \o InHand') \o rxQueue')
        = (View(content', tempQueue') \o View(content', InHand')) \o View(content', rxQueue')
  BY <1>1, <1>2, ViewParts, Zenon
<1> QED BY <1>1, <1>3, <1>4

LEMMA NoView == ASSUME NEW c PROVE View(c, <<>>) = <<>>
BY DEF View

LEMMA AppendLast ==
  ASSUME NEW E, NEW a \in Seq(E), NEW b \in Seq(E), NEW e \in E
  PROVE  a \o Append(b, e) = Append(a \o b, e)
<1>1. <<e>> \in Seq(E) /\ a \o b \in Seq(E)
  BY ConcatProperties
<1>2. Append(b, e) = b \o <<e>> /\ Append(a \o b, e) = (a \o b) \o <<e>>
  BY <1>1, AppendIsConcat
<1>3. (a \o b) \o <<e>> = a \o (b \o <<e>>)
  BY <1>1, ConcatAssociative
<1> QED BY <1>2, <1>3

LEMMA ViewAppend ==
  ASSUME NEW c \in [Packets -> Event], NEW s \in Seq(Packets), NEW p \in Packets
  PROVE  View(c, Append(s, p)) = Append(View(c, s), c[p])
<1>1. <<p>> \in Seq(Packets) /\ Append(s, p) = s \o <<p>>
  BY AppendIsConcat
<1>2. View(c, s \o <<p>>) = View(c, s) \o View(c, <<p>>)
  BY <1>1, ViewConcat, Zenon
<1>3. View(c, <<p>>) = <<c[p]>>
  BY ViewSingle, Zenon
<1>4. View(c, s) \in Seq(Event) /\ c[p] \in Event
  BY ViewType
<1>5. Append(View(c, s), c[p]) = View(c, s) \o <<c[p]>>
  <2> HIDE DEF View
  <2> QED BY <1>4, AppendIsConcat
<1> QED BY <1>1, <1>2, <1>3, <1>5, Zenon

LEMMA Quiet ==
  ASSUME UNCHANGED <<tempQueue, InHand, rxQueue, content>>
  PROVE  Events' = Events
BY DEF Events, Local

(* How many events the channel holds. *)
LEMMA EventsCount ==
  ASSUME IInv
  PROVE  /\ Events \in Seq(Event)
         /\ Len(Events) = Len(tempQueue) + Len(InHand) + Len(rxQueue)
         /\ Len(InHand) \in Nat /\ Len(InHand) <= InHandCount
<1>1. TypeOK
  BY DEF IInv
<1>2. /\ content \in [Packets -> Event]
      /\ tempQueue \in Seq(Packets) /\ rxQueue \in Seq(Packets) /\ InHand \in Seq(Packets)
  BY <1>1, EventsNow DEF TypeOK
<1>3. /\ View(content, tempQueue) \in Seq(Event) /\ View(content, rxQueue) \in Seq(Event)
      /\ View(content, InHand) \in Seq(Event)
      /\ Len(View(content, tempQueue)) = Len(tempQueue)
      /\ Len(View(content, InHand)) = Len(InHand)
      /\ Len(View(content, rxQueue)) = Len(rxQueue)
  BY <1>2, ViewType, Zenon
<1>4. Len(InHand) \in Nat /\ Len(InHand) <= InHandCount
  BY DEF InHand, InHandCount
<1>5. /\ Events \in Seq(Event)
      /\ Len(Events) = Len(View(content, tempQueue)) + Len(View(content, InHand))
                         + Len(View(content, rxQueue))
  <2>1. Events = (View(content, tempQueue) \o View(content, InHand)) \o View(content, rxQueue)
    BY <1>1, EventsNow, Zenon
  <2> HIDE DEF View
  <2> QED BY <1>3, <2>1, PartsLength
<1> QED BY <1>3, <1>4, <1>5

-----------------------------------------------------------------------------
(* The interrupt reads an event into the channel, or drops a mangled one. *)

LEMMA ReceiveStep ==
  ASSUME IInv, TypeOK', IsrReceive
  PROVE  Channel!Next
<1>0. TypeOK /\ PacketsConserved /\ CountInv
  BY DEF IInv
<1>1. remote # <<>> /\ remote' = Tail(remote) /\ handed' = handed
  BY DEF IsrReceive, LineHigh, app
<1>2. tempQueue' = tempQueue /\ InHand' = InHand
  BY DEF IsrReceive, InHand
<1>3. CASE Head(remote).kind = "bad"
  <2>1. rxQueue' = rxQueue /\ content' = content
    BY <1>3 DEF IsrReceive
  <2>2. Events' = Events
    BY <1>2, <2>1, Quiet
  <2>3. Channel!Reject
    BY <1>1, <1>3, <2>2 DEF Channel!Reject, IsCorrupt, Events
  <2> QED BY <2>3 DEF Channel!Next
<1>4. CASE Head(remote).kind # "bad"
  <2> DEFINE p == Head(pool)
             e == Head(remote)
  <2>1. /\ pool # <<>> /\ rxQueue' = Append(rxQueue, p)
        /\ content' = [content EXCEPT ![p] = e]
    BY <1>4 DEF IsrReceive
  <2>2. p \in Packets /\ p \in Held(pool) /\ Len(pool) \in Nat \ {0}
    BY <1>0, <2>1, TailHeld, TakeLength DEF TypeOK, PacketsConserved
  <2>3. p \notin Held(tempQueue) /\ p \notin Held(rxQueue) /\ p \notin InMain
    BY <1>0, <2>2 DEF PacketsConserved
  <2>4. p \notin Held(InHand)
    BY <2>3 DEF InHand, Held, InMain
  <2>5. /\ content \in [Packets -> Event] /\ content' \in [Packets -> Event]
        /\ tempQueue \in Seq(Packets) /\ rxQueue \in Seq(Packets) /\ InHand \in Seq(Packets)
        /\ e \in Event
    <3>1. /\ content \in [Packets -> Event] /\ content' \in [Packets -> Event]
          /\ tempQueue \in Seq(Packets) /\ rxQueue \in Seq(Packets)
      BY <1>0 DEF TypeOK
    <3>2. InHand \in Seq(Packets)
      BY <1>0, EventsNow, Zenon
    <3>3. remote \in Seq(Event) /\ remote # <<>>
      BY <1>0, <1>1 DEF TypeOK
    <3>4. e \in Event
      BY <3>3
    <3> QED BY <3>1, <3>2, <3>4
  <2>6. content'[p] = e
    BY <2>1, <2>2, <2>5
  <2> HIDE DEF p, e
  <2>7. /\ View(content', tempQueue) = View(content, tempQueue)
        /\ View(content', InHand) = View(content, InHand)
        /\ View(content', rxQueue) = View(content, rxQueue)
    <3> DEFINE d == [content EXCEPT ![p] = e]
    <3>1. View(d, tempQueue) = View(content, tempQueue)
      <4>1. content \in [Packets -> Event] /\ tempQueue \in Seq(Packets) /\ p \notin Held(tempQueue)
        BY <2>3, <2>5
      <4> QED BY <4>1, ViewExcept, Zenon
    <3>2. View(d, InHand) = View(content, InHand)
      BY <2>4, <2>5, ViewExcept, Zenon
    <3>3. View(d, rxQueue) = View(content, rxQueue)
      <4>1. content \in [Packets -> Event] /\ rxQueue \in Seq(Packets) /\ p \notin Held(rxQueue)
        BY <2>3, <2>5
      <4> QED BY <4>1, ViewExcept, Zenon
    <3> QED BY <2>1, <3>1, <3>2, <3>3, Zenon
  <2>8. View(content', rxQueue') = Append(View(content, rxQueue), e)
    <3>1. View(content', Append(rxQueue, p)) = Append(View(content', rxQueue), content'[p])
      BY <2>2, <2>5, ViewAppend, Zenon
    <3> QED BY <2>1, <2>6, <2>7, <3>1, Zenon
  <2> DEFINE a == View(content, tempQueue) \o View(content, InHand)
             r == View(content, rxQueue)
  <2>9. View(content, tempQueue) \in Seq(Event) /\ View(content, InHand) \in Seq(Event)
    BY <2>5, ViewType, Zenon
  <2>10. a \in Seq(Event) /\ r \in Seq(Event)
    <3>1. r \in Seq(Event)
      BY <2>5, ViewType, Zenon
    <3>2. a \in Seq(Event)
      <4> HIDE DEF View
      <4> QED BY <2>9, ConcatProperties
    <3> QED BY <3>1, <3>2
  <2>11. Events = a \o r /\ Events' = a \o Append(r, e)
    BY <1>0, <1>2, <2>7, <2>8, EventsNow, EventsNext, Zenon
  <2> HIDE DEF a, r
  <2>12. Events' = Append(Events, e)
    BY <2>5, <2>10, <2>11, AppendLast
  <2>13. Len(Events) < NumPackets
    <3>1. Len(tempQueue) \in Nat /\ Len(rxQueue) \in Nat
      BY <2>5
    <3>2. Len(pool) + Len(rxQueue) + Len(tempQueue) + InHandCount = NumPackets
      BY <1>0 DEF CountInv
    <3>3. /\ Len(Events) = Len(tempQueue) + Len(InHand) + Len(rxQueue)
          /\ Len(InHand) \in Nat /\ Len(InHand) <= InHandCount
      BY EventsCount
    <3>4. InHandCount \in Nat
      BY DEF InHandCount
    <3> QED BY <2>2, <3>1, <3>2, <3>3, <3>4
  <2>14. Channel!Read
    BY <1>1, <1>4, <2>12, <2>13 DEF Channel!Read, IsCorrupt, Events, e
  <2> QED BY <2>14 DEF Channel!Next
<1> QED BY <1>3, <1>4

-----------------------------------------------------------------------------
(* Packets that move from list to list stay in their order. *)

LEMMA TakeHead ==
  ASSUME NEW S, NEW t \in Seq(S), NEW r \in Seq(S), r # <<>>
  PROVE  (t \o <<Head(r)>>) \o Tail(r) = (t \o <<>>) \o r
<1>1. /\ Head(r) \in S /\ Tail(r) \in Seq(S) /\ Head(r) = r[1]
      /\ Len(r) \in Nat \ {0} /\ Len(r) \in 1 .. Len(r) /\ 1 \in 1 .. Len(r)
  BY HeadTailProperties, EmptySeq
<1>2. <<Head(r)>> \in Seq(S)
  BY <1>1
<1>3. <<Head(r)>> \o Tail(r) = r
  <2>1. SubSeq(r, 1, Len(r)) = r /\ Tail(r) = SubSeq(r, 2, Len(r))
    BY SubSeqFull, TailIsSubSeq
  <2>2. SubSeq(r, 1, Len(r)) = <<r[1]>> \o SubSeq(r, 1 + 1, Len(r))
    BY <1>1, SubSeqRecursiveFirst
  <2>3. 1 + 1 = 2
    OBVIOUS
  <2> QED BY <1>1, <2>1, <2>2, <2>3
<1>4. (t \o <<Head(r)>>) \o Tail(r) = t \o (<<Head(r)>> \o Tail(r))
  BY <1>1, <1>2, ConcatAssociative
<1>5. t \o <<>> = t
  BY ConcatEmptySeq
<1> QED BY <1>3, <1>4, <1>5

LEMMA SetAside ==
  ASSUME NEW S, NEW t \in Seq(S), NEW r \in Seq(S), NEW p \in S
  PROVE  (Append(t, p) \o <<>>) \o r = (t \o <<p>>) \o r
<1>1. Append(t, p) = t \o <<p>> /\ Append(t, p) \in Seq(S)
  BY AppendIsConcat, AppendProperties
<1>2. Append(t, p) \o <<>> = Append(t, p)
  BY <1>1, ConcatEmptySeq
<1> QED BY <1>1, <1>2

LEMMA LastToHead ==
  ASSUME NEW S, NEW t \in Seq(S), NEW r \in Seq(S), t # <<>>
  PROVE  (SubSeq(t, 1, Len(t) - 1) \o <<>>) \o (<<t[Len(t)]>> \o r) = (t \o <<>>) \o r
<1> DEFINE f == SubSeq(t, 1, Len(t) - 1)
           e == t[Len(t)]
<1>1. Len(t) \in Nat \ {0} /\ Len(t) \in 1 .. Len(t) /\ 1 \in 1 .. Len(t) /\ e \in S
  OBVIOUS
<1>2. <<e>> \in Seq(S)
  BY <1>1
<1>3. SubSeq(t, 1, Len(t)) = t /\ SubSeq(t, 1, Len(t)) = f \o <<e>>
  BY <1>1, SubSeqFull, SubSeqRecursiveSecond
<1>4. f \in Seq(S)
  <2>1. \A i \in 1 .. Len(t) - 1 : t[i] \in S
    BY <1>1
  <2>2. 1 \in Int /\ Len(t) - 1 \in Int
    BY <1>1
  <2> QED BY <2>1, <2>2, SubSeqProperties
<1> HIDE DEF f, e
<1>5. f \o <<>> = f /\ t \o <<>> = t
  BY <1>4, ConcatEmptySeq
<1>6. (f \o <<e>>) \o r = f \o (<<e>> \o r)
  BY <1>2, <1>4, ConcatAssociative
<1>7. (f \o <<>>) \o (<<e>> \o r) = (t \o <<>>) \o r
  BY <1>3, <1>5, <1>6
<1> QED BY <1>7 DEF f, e

LEMMA SameQueue ==
  ASSUME content' = content,
         (tempQueue' \o InHand') \o rxQueue' = (tempQueue \o InHand) \o rxQueue
  PROVE  Events' = Events
BY DEF Events, Local

LEMMA MovedStep ==
  ASSUME IInv, TakeEvent \/ MoveList \/ (Park /\ ~(pool = <<>> /\ rxQueue = <<>>))
  PROVE  Events' = Events
<1>1. /\ tempQueue \in Seq(Packets) /\ rxQueue \in Seq(Packets) /\ hand \in Packets \cup {NoPacket}
      /\ MainInv
  BY DEF IInv, TypeOK
<1>2. CASE TakeEvent
  <2>1. /\ rxQueue # <<>> /\ rxQueue' = Tail(rxQueue) /\ hand' = Head(rxQueue)
        /\ tempQueue' = tempQueue /\ content' = content /\ pc = "wait"
    BY <1>2 DEF TakeEvent
  <2>2. Head(rxQueue) # NoPacket
    BY <1>1, <2>1, TakeLength
  <2>3. pc' \in {"failed", "done", "park"}
    BY <1>2 DEF TakeEvent
  <2>4. InHand = <<>> /\ InHand' = <<Head(rxQueue)>>
    BY <2>1, <2>2, <2>3 DEF InHand
  <2>5. (tempQueue \o <<Head(rxQueue)>>) \o Tail(rxQueue) = (tempQueue \o <<>>) \o rxQueue
    BY <1>1, <2>1, TakeHead
  <2> QED BY <2>1, <2>4, <2>5, SameQueue
<1>3. CASE MoveList
  <2>1. /\ tempQueue # <<>>
        /\ rxQueue' = <<tempQueue[Len(tempQueue)]>> \o rxQueue
        /\ tempQueue' = SubSeq(tempQueue, 1, Len(tempQueue) - 1)
        /\ content' = content /\ pc' = pc /\ pc = "move"
    BY <1>3 DEF MoveList
  <2>2. InHand = <<>> /\ InHand' = <<>>
    BY <2>1 DEF InHand
  <2>3. (SubSeq(tempQueue, 1, Len(tempQueue) - 1) \o <<>>)
          \o (<<tempQueue[Len(tempQueue)]>> \o rxQueue) = (tempQueue \o <<>>) \o rxQueue
    BY <1>1, <2>1, LastToHead
  <2> QED BY <2>1, <2>2, <2>3, SameQueue
<1>4. CASE Park /\ ~(pool = <<>> /\ rxQueue = <<>>)
  <2>1. /\ tempQueue' = Append(tempQueue, hand) /\ rxQueue' = rxQueue
        /\ content' = content /\ pc = "park" /\ pc' = "wait"
    BY <1>4 DEF Park
  <2>2. hand # NoPacket /\ hand \in Packets
    BY <1>1, <2>1 DEF MainInv
  <2>3. InHand = <<hand>> /\ InHand' = <<>>
    BY <2>1, <2>2 DEF InHand
  <2>4. (Append(tempQueue, hand) \o <<>>) \o rxQueue = (tempQueue \o <<hand>>) \o rxQueue
    BY <1>1, <2>2, SetAside
  <2> QED BY <2>1, <2>3, <2>4, SameQueue
<1> QED BY <1>2, <1>3, <1>4

-----------------------------------------------------------------------------
(* Packets that are freed. *)

(* The packet in hand is in no list: its content may be forgotten. *)
LEMMA Forgotten ==
  ASSUME IInv, hand # NoPacket, content' = [content EXCEPT ![hand] = NoEvent]
  PROVE  /\ View(content', tempQueue) = View(content, tempQueue)
         /\ View(content', rxQueue) = View(content, rxQueue)
<1>1. /\ content \in [Packets -> Event]
      /\ tempQueue \in Seq(Packets) /\ rxQueue \in Seq(Packets)
  BY DEF IInv, TypeOK
<1>2. hand \notin Held(tempQueue) /\ hand \notin Held(rxQueue)
  BY DEF IInv, PacketsConserved, InMain
<1> DEFINE d == [content EXCEPT ![hand] = NoEvent]
<1>3. View(d, tempQueue) = View(content, tempQueue)
  <2>1. /\ content \in [Packets -> Event] /\ tempQueue \in Seq(Packets)
        /\ hand \notin Held(tempQueue)
    BY <1>1, <1>2
  <2> QED BY <2>1, ViewExcept, Zenon
<1>4. View(d, rxQueue) = View(content, rxQueue)
  <2>1. /\ content \in [Packets -> Event] /\ rxQueue \in Seq(Packets)
        /\ hand \notin Held(rxQueue)
    BY <1>1, <1>2
  <2> QED BY <2>1, ViewExcept, Zenon
<1> QED BY <1>3, <1>4, Zenon

LEMMA FreedStep ==
  ASSUME IInv, TypeOK', FreePut \/ PutBack
  PROVE  Events' = Events
<1>1. TypeOK /\ MainInv
  BY DEF IInv
<1>2. /\ content' = [content EXCEPT ![hand] = NoEvent]
      /\ tempQueue' = tempQueue /\ rxQueue' = rxQueue
      /\ pc \in {"freePut", "put"} /\ pc' \in {"free", "proc"}
  BY DEF FreePut, PutBack
<1>3. hand # NoPacket
  BY <1>1, <1>2 DEF MainInv
<1>4. InHand = <<>> /\ InHand' = <<>>
  BY <1>2 DEF InHand
<1>5. /\ View(content', tempQueue') = View(content, tempQueue)
      /\ View(content', rxQueue') = View(content, rxQueue)
  BY <1>2, <1>3, Forgotten
<1>6. View(content', InHand') = View(content, InHand)
  BY <1>4, NoView
<1> QED BY <1>1, <1>5, <1>6, EventsNow, EventsNext, Zenon

-----------------------------------------------------------------------------
(* The oldest event leaves: it is discarded, or the application gets it. *)

LEMMA OnlyReceived ==
  ASSUME NEW c \in [Packets -> Event], NEW r \in Seq(Packets)
  PROVE  (View(c, <<>>) \o View(c, <<>>)) \o View(c, r) = View(c, r)
<1>1. View(c, <<>>) = <<>> /\ View(c, r) \in Seq(Event)
  BY NoView, ViewType
<1>2. <<>> \o <<>> = <<>>
  OBVIOUS
<1>3. <<>> \o View(c, r) = View(c, r)
  <2> HIDE DEF View
  <2> QED BY <1>1, ConcatEmptySeq
<1> QED BY <1>1, <1>2, <1>3

LEMMA OldestLeaves ==
  ASSUME IInv, TypeOK', FreeTake \/ Deliver
  PROVE  /\ rxQueue # <<>>
         /\ Events # <<>> /\ Head(Events) = content[Head(rxQueue)] /\ Events' = Tail(Events)
         /\ Len(Events) = Len(rxQueue)
<1>1. TypeOK /\ MainInv /\ CountInv
  BY DEF IInv
<1>2. /\ content' = content /\ tempQueue' = tempQueue /\ rxQueue' = Tail(rxQueue)
      /\ pc \in {"freeTake", "proc"} /\ pc' \in {"freePut", "put"}
  BY DEF FreeTake, Deliver
<1>3. tempQueue = <<>> /\ InHand = <<>> /\ InHand' = <<>>
  BY <1>1, <1>2 DEF MainInv, InHand
<1>4. rxQueue # <<>>
  BY <1>1, TakenIsThere DEF FreeTake, Deliver, NeverTakesFromEmptyQueue
<1>5. content \in [Packets -> Event] /\ rxQueue \in Seq(Packets) /\ Tail(rxQueue) \in Seq(Packets)
  BY <1>1, <1>4 DEF TypeOK
<1>6. Events = View(content, rxQueue)
  <2>1. Events = (View(content, <<>>) \o View(content, <<>>)) \o View(content, rxQueue)
    BY <1>1, <1>3, EventsNow, Zenon
  <2> QED BY <1>5, <2>1, OnlyReceived, Zenon
<1>7. Events' = View(content, Tail(rxQueue))
  <2>1. Events' = (View(content', <<>>) \o View(content', <<>>)) \o View(content', Tail(rxQueue))
    BY <1>2, <1>3, EventsNext, Zenon
  <2>2. Events' = (View(content, <<>>) \o View(content, <<>>)) \o View(content, Tail(rxQueue))
    BY <1>2, <2>1, Zenon
  <2> QED BY <1>5, <2>2, OnlyReceived, Zenon
<1>8. /\ View(content, rxQueue) # <<>>
      /\ Head(View(content, rxQueue)) = content[Head(rxQueue)]
      /\ Tail(View(content, rxQueue)) = View(content, Tail(rxQueue))
  BY <1>4, <1>5, ViewTail, Zenon
<1>9. Len(View(content, rxQueue)) = Len(rxQueue)
  BY <1>5, ViewType, Zenon
<1> QED BY <1>4, <1>6, <1>7, <1>8, <1>9, Zenon

LEMMA FreeTakeStep ==
  ASSUME IInv, TypeOK', FreeTake
  PROVE  Channel!Next
<1>1. /\ Events' = Tail(Events) /\ Len(Events) = Len(rxQueue)
      /\ remote' = remote /\ handed' = handed
  BY OldestLeaves DEF FreeTake, controller, app
<1>2. Len(Events) > NumPackets - NumPackets \div 2
  <2>1. /\ Len(pool) + Len(rxQueue) + Len(tempQueue) + InHandCount = NumPackets
        /\ Len(pool) < NumPackets \div 2 /\ tempQueue = <<>> /\ hand = NoPacket
    BY DEF IInv, CountInv, MainInv, FreeTake
  <2>2. InHandCount = 0 /\ Len(tempQueue) = 0
    BY <2>1 DEF InHandCount
  <2>3. Len(pool) \in Nat /\ Len(rxQueue) \in Nat /\ NumPackets \in Nat
    BY TransportAssumption DEF IInv, TypeOK
  <2> QED BY <1>1, <2>1, <2>2, <2>3
<1>3. Channel!DiscardOldest
  BY <1>1, <1>2 DEF Channel!DiscardOldest, Events
<1> QED BY <1>3 DEF Channel!Next

LEMMA DeliverStep ==
  ASSUME IInv, TypeOK', Deliver
  PROVE  Channel!Next
<1>1. /\ Events # <<>> /\ Head(Events) = content[Head(rxQueue)] /\ Events' = Tail(Events)
      /\ remote' = remote /\ handed' = <<content[Head(rxQueue)]>>
  BY OldestLeaves DEF Deliver, controller
<1>2. Channel!Deliver
  BY <1>1 DEF Channel!Deliver, Events
<1> QED BY <1>2 DEF Channel!Next

-----------------------------------------------------------------------------
(* hci_send_req discards the packet in hand, or consumes the answer in it. *)

LEMMA InHandEvents ==
  ASSUME IInv, pc \in {"park", "done", "failed"}, hand # NoPacket
  PROVE  /\ Events = (View(content, tempQueue) \o <<content[hand]>>) \o View(content, rxQueue)
         /\ View(content, tempQueue) \in Seq(Event) /\ View(content, rxQueue) \in Seq(Event)
         /\ content[hand] \in Event
         /\ Len(View(content, tempQueue)) = Len(tempQueue)
<1>1. /\ TypeOK /\ content \in [Packets -> Event] /\ hand \in Packets
      /\ tempQueue \in Seq(Packets) /\ rxQueue \in Seq(Packets)
  BY DEF IInv, TypeOK
<1>2. InHand = <<hand>>
  BY DEF InHand
<1>3. View(content, <<hand>>) = <<content[hand]>>
  BY <1>1, ViewSingle, Zenon
<1>4. Events = (View(content, tempQueue) \o View(content, InHand)) \o View(content, rxQueue)
  BY <1>1, EventsNow, Zenon
<1>5. Events = (View(content, tempQueue) \o <<content[hand]>>) \o View(content, rxQueue)
  BY <1>2, <1>3, <1>4, Zenon
<1>6. /\ View(content, tempQueue) \in Seq(Event) /\ View(content, rxQueue) \in Seq(Event)
      /\ Len(View(content, tempQueue)) = Len(tempQueue)
  BY <1>1, ViewType, Zenon
<1>7. content[hand] \in Event
  BY <1>1
<1> QED BY <1>5, <1>6, <1>7

LEMMA HandReleased ==
  ASSUME IInv, TypeOK', hand # NoPacket,
         content' = [content EXCEPT ![hand] = NoEvent],
         tempQueue' = tempQueue, rxQueue' = rxQueue, InHand' = <<>>
  PROVE  Events' = View(content, tempQueue) \o View(content, rxQueue)
<1>1. /\ content \in [Packets -> Event]
      /\ tempQueue \in Seq(Packets) /\ rxQueue \in Seq(Packets)
  BY DEF IInv, TypeOK
<1>2. /\ View(content', tempQueue') = View(content, tempQueue)
      /\ View(content', rxQueue') = View(content, rxQueue)
      /\ View(content', InHand') = <<>>
  BY Forgotten, NoView
<1>3. Events' = (View(content, tempQueue) \o <<>>) \o View(content, rxQueue)
  BY <1>2, EventsNext, Zenon
<1>4. View(content, tempQueue) \in Seq(Event)
  BY <1>1, ViewType, Zenon
<1>5. View(content, tempQueue) \o <<>> = View(content, tempQueue)
  <2> HIDE DEF View
  <2> QED BY <1>4, ConcatEmptySeq
<1> QED BY <1>3, <1>5, Zenon

LEMMA DiscardStep ==
  ASSUME IInv, TypeOK', Park, pool = <<>>, rxQueue = <<>>
  PROVE  Channel!Next
<1>1. /\ content' = [content EXCEPT ![hand] = NoEvent]
      /\ tempQueue' = tempQueue /\ rxQueue' = rxQueue
      /\ remote' = remote /\ handed' = handed
      /\ pc = "park" /\ pc' = "wait" /\ hand # NoPacket
  BY DEF Park, controller, app, IInv, MainInv
<1>2. InHand' = <<>>
  BY <1>1 DEF InHand
<1> DEFINE t == View(content, tempQueue)
           e == content[hand]
<1>3. /\ t \in Seq(Event) /\ e \in Event
      /\ Events = (t \o <<e>>) \o View(content, rxQueue)
      /\ Len(t) = Len(tempQueue)
  BY <1>1, InHandEvents, Zenon
<1>4. Events' = t \o View(content, rxQueue)
  BY <1>1, <1>2, HandReleased, Zenon
<1>5. View(content, rxQueue) = <<>>
  BY NoView
<1> HIDE DEF t, e
<1>6. t \o <<e>> \in Seq(Event) /\ Len(t \o <<e>>) = Len(t) + 1
  BY <1>3, ConcatProperties
<1>7. Events = t \o <<e>> /\ Events' = t
  BY <1>3, <1>4, <1>5, <1>6, ConcatEmptySeq
<1>8. Events' = SubSeq(Events, 1, Len(Events) - 1)
  BY <1>3, <1>7, FrontOfAppend
<1>9. Len(Events) = NumPackets
  <2>1. /\ Len(pool) + Len(rxQueue) + Len(tempQueue) + InHandCount = NumPackets
        /\ Len(pool) = 0 /\ Len(rxQueue) = 0 /\ InHandCount = 1
    BY <1>1 DEF IInv, CountInv, InHandCount
  <2>2. Len(tempQueue) \in Nat
    BY DEF IInv, TypeOK
  <2> QED BY <1>3, <1>6, <1>7, <2>1, <2>2
<1>10. Channel!DiscardNewest
  BY <1>1, <1>8, <1>9 DEF Channel!DiscardNewest, Events
<1> QED BY <1>10 DEF Channel!Next

LEMMA ConsumeStep ==
  ASSUME NEW i \in 1 .. Len(Events), IsResponse(Events[i]),
         Events' = SubSeq(Events, 1, i - 1) \o SubSeq(Events, i + 1, Len(Events)),
         remote' = remote, handed' = handed
  PROVE  Channel!Next
BY DEF Channel!Next, Channel!Consume, Channel!Without, Events

LEMMA ReleaseStep ==
  ASSUME IInv, HandInv, TypeOK', Release
  PROVE  Channel!Next \/ Events' = Events
<1>1. CASE hand = NoPacket
  <2>1. /\ UNCHANGED <<tempQueue, rxQueue, content>> /\ InHand = <<>> /\ InHand' = <<>>
    BY <1>1 DEF Release, InHand
  <2> QED BY <2>1, Quiet
<1>2. CASE hand # NoPacket
  <2>1. /\ content' = [content EXCEPT ![hand] = NoEvent]
        /\ tempQueue' = tempQueue /\ rxQueue' = rxQueue
        /\ remote' = remote /\ handed' = handed
        /\ pc \in {"done", "failed"} /\ pc' = "move"
    BY <1>2 DEF Release, controller
  <2>2. InHand' = <<>>
    BY <2>1 DEF InHand
  <2> DEFINE t == View(content, tempQueue)
             e == content[hand]
             r == View(content, rxQueue)
  <2>3. t \in Seq(Event) /\ e \in Event /\ r \in Seq(Event) /\ Events = (t \o <<e>>) \o r
    BY <1>2, <2>1, InHandEvents
  <2>4. Events' = t \o r
    BY <1>2, <2>1, <2>2, HandReleased, Zenon
  <2>5. IsResponse(e)
    BY <1>2, <2>1 DEF HandInv
  <2> HIDE DEF t, e, r
  <2>7. /\ Len(t) + 1 \in 1 .. Len(Events) /\ Events[Len(t) + 1] = e
        /\ SubSeq(Events, 1, Len(t)) \o SubSeq(Events, Len(t) + 2, Len(Events)) = t \o r
    <3>1. t \in Seq(Event) /\ e \in Event /\ r \in Seq(Event)
      BY <2>3
    <3>2. /\ Len(t) + 1 \in 1 .. Len((t \o <<e>>) \o r)
          /\ ((t \o <<e>>) \o r)[Len(t) + 1] = e
          /\ SubSeq((t \o <<e>>) \o r, 1, Len(t))
               \o SubSeq((t \o <<e>>) \o r, Len(t) + 2, Len((t \o <<e>>) \o r)) = t \o r
      BY <3>1, WithoutMiddle, Zenon
    <3>3. Events = (t \o <<e>>) \o r
      BY <2>3
    <3> QED BY <3>2, <3>3, Zenon
  <2> DEFINE i0 == Len(t) + 1
  <2>8. i0 - 1 = Len(t) /\ i0 + 1 = Len(t) + 2
    BY <2>3
  <2>9. i0 \in 1 .. Len(Events) /\ Events[i0] = e
    BY <2>7
  <2>10. Events' = SubSeq(Events, 1, i0 - 1) \o SubSeq(Events, i0 + 1, Len(Events))
    BY <2>4, <2>7, <2>8
  <2> HIDE DEF i0
  <2>11. IsResponse(Events[i0])
    BY <2>5, <2>9
  <2> QED BY <2>1, <2>9, <2>10, <2>11, ConsumeStep, Zenon
<1> QED BY <1>1, <1>2

-----------------------------------------------------------------------------
(* What hci_send_req is about to release. *)

LEMMA TakenIsAnswer ==
  ASSUME NEW e \in Event, NEW r \in Request, Fails(e, r) \/ Completes(e, r)
  PROVE  IsResponse(e)
BY DEF Fails, Completes, IsResponse, Request

LEMMA FirstOf ==
  ASSUME NEW S, NEW s \in Seq(S), Len(s) = 1
  PROVE  s[1] \in S
OBVIOUS

LEMMA HandInit == Init => HandInv
BY DEF Init, HandInv

LEMMA HandStep == IInv /\ HandInv /\ [Next]_vars => HandInv'
<1> SUFFICES ASSUME IInv, HandInv, [Next]_vars PROVE HandInv'
  OBVIOUS
<1>1. TypeOK /\ MainInv /\ PacketsConserved
  BY DEF IInv
<1>2. CASE Notify
  BY <1>2 DEF Notify, Raise, lists, HandInv, IsResponse
<1>3. CASE Answer
  BY <1>3 DEF Answer, Raise, lists, HandInv, IsResponse
<1>4. CASE IsrEnter \/ IsrReturn
  BY <1>4 DEF IsrEnter, IsrReturn, lists, HandInv, IsResponse
<1>5. CASE IsrReceive
  <2>1. pc' = pc /\ hand' = hand
    BY <1>5 DEF IsrReceive
  <2>2. SUFFICES ASSUME hand # NoPacket PROVE content'[hand] = content[hand]
    BY <2>1 DEF HandInv, IsResponse
  <2>3. Head(pool) # hand
    <3>1. pool \in Seq(Packets) /\ pool # <<>> /\ Distinct(pool)
      BY <1>1, <1>5 DEF TypeOK, PacketsConserved, IsrReceive
    <3>2. Head(pool) \in Held(pool)
      BY <3>1, TailHeld
    <3> QED BY <1>1, <2>2, <3>2 DEF PacketsConserved, InMain
  <2>4. hand \in Packets /\ content \in [Packets -> Event]
    BY <1>1, <2>2 DEF TypeOK
  <2> QED BY <1>5, <2>3, <2>4 DEF IsrReceive
<1>6. CASE TakeEvent
  <2>1. /\ rxQueue \in Seq(Packets) /\ rxQueue # <<>> /\ content \in [Packets -> Event]
        /\ hand' = Head(rxQueue) /\ content' = content
        /\ pc = "wait" /\ req \in Seq(Request)
    BY <1>1, <1>6 DEF TakeEvent, TypeOK
  <2> DEFINE e == content[Head(rxQueue)]
  <2>2. e \in Event /\ req[1] \in Request
    <3>1. Head(rxQueue) \in Packets
      BY <2>1, TakeLength
    <3>2. Len(req) = 1
      BY <1>1, <2>1 DEF MainInv
    <3>3. e \in Event
      BY <2>1, <3>1
    <3>4. req[1] \in Request
      BY <2>1, <3>2, FirstOf
    <3> QED BY <3>3, <3>4
  <2>3. pc' \in {"done", "failed"} => Fails(e, req[1]) \/ Completes(e, req[1])
    BY <1>6 DEF TakeEvent
  <2> HIDE DEF e
  <2>4. pc' \in {"done", "failed"} => IsResponse(e)
    BY <2>2, <2>3, TakenIsAnswer
  <2> QED BY <2>1, <2>4 DEF HandInv, IsResponse, e
<1>7. CASE Timeout
  BY <1>1, <1>7 DEF Timeout, lists, HandInv, MainInv
<1>8. CASE UNCHANGED vars
  BY <1>8 DEF vars, lists, HandInv, IsResponse
<1>9. ASSUME NEW op \in Opcodes, NEW wait \in Waits, SendReq(op, wait) PROVE pc' \notin {"done", "failed"}
  BY <1>9 DEF SendReq
<1>10. CASE FreeEventList \/ FreeTake \/ FreePut \/ SendCmd \/ Park \/ Release \/ MoveList \/ Return
  <2>1. pc' \notin {"done", "failed"}
    BY <1>10 DEF FreeEventList, FreeTake, FreePut, SendCmd, Park, Release, MoveList, Return
  <2> QED BY <2>1 DEF HandInv
<1>11. CASE UserEvtProc \/ Deliver \/ PutBack \/ ProcEnd
  <2>1. pc' \notin {"done", "failed"}
    BY <1>11 DEF UserEvtProc, Deliver, PutBack, ProcEnd
  <2> QED BY <2>1 DEF HandInv
<1>12. CASE \E op \in Opcodes, wait \in Waits : SendReq(op, wait)
  BY <1>9, <1>12 DEF HandInv
<1> QED
  BY <1>2, <1>3, <1>4, <1>5, <1>6, <1>7, <1>8, <1>10, <1>11, <1>12
     DEF Next, Isr, Main, HciSendReq, HciUserEvtProc

-----------------------------------------------------------------------------
(* Every step is a step of the channel, or one it does not see. *)

LEMMA RaiseStep ==
  ASSUME TypeOK, NEW kind \in {"complete", "status", "leMeta", "hwError", "vendor", "bad"},
         NEW op \in Opcodes \cup {NoOp}, NEW ok \in BOOLEAN, NEW cmd \in Nat,
         Raise(kind, op, ok, cmd)
  PROVE  Channel!Next
<1> DEFINE e == [id |-> nEvents + 1, kind |-> kind, op |-> op, ok |-> ok, cmd |-> cmd]
<1>1. e \in Event
  BY DEF TypeOK, Event
<1>2. remote' = Append(remote, e) /\ handed' = handed /\ UNCHANGED <<tempQueue, InHand, rxQueue, content>>
  BY DEF Raise, lists, app, InHand
<1>3. Events' = Events
  BY <1>2, Quiet
<1> HIDE DEF e
<1>4. remote' # <<>> /\ remote'[Len(remote')] = e
  BY <1>1, <1>2 DEF TypeOK
<1>5. Channel!Raise
  BY <1>1, <1>2, <1>3, <1>4 DEF Channel!Raise, Events
<1> QED BY <1>5 DEF Channel!Next

LEMMA ChannelStep ==
  IInv /\ HandInv /\ TypeOK' /\ [Next]_vars => [Channel!Next]_Channel!vars
<1> SUFFICES ASSUME IInv, HandInv, TypeOK', [Next]_vars
             PROVE  Channel!Next \/ (Events' = Events /\ remote' = remote /\ handed' = handed)
  BY DEF Channel!vars, Events
<1>1. TypeOK /\ MainInv
  BY DEF IInv
<1>2. CASE Notify
  <2>1. PICK kind \in Unsolicited : Raise(kind, NoOp, TRUE, 0)
    BY <1>2 DEF Notify
  <2>2. kind \in {"complete", "status", "leMeta", "hwError", "vendor", "bad"}
    BY TransportAssumption
  <2>3. NoOp \in Opcodes \cup {NoOp} /\ TRUE \in BOOLEAN /\ 0 \in Nat
    OBVIOUS
  <2> QED BY <1>1, <2>1, <2>2, <2>3, RaiseStep, Zenon
<1>3. CASE Answer
  <2>1. commands \in Seq(Request) /\ commands # <<>>
    BY <1>1, <1>3 DEF TypeOK, Answer
  <2>2. Head(commands) \in Request
    BY <2>1
  <2> DEFINE c == Head(commands)
  <2>3. c.op \in Opcodes \cup {NoOp} /\ c.n \in Nat
    BY <2>2 DEF Request
  <2>4. \/ Raise("complete", c.op, TRUE, c.n)
        \/ Raise("status", c.op, TRUE, c.n)
        \/ Raise("status", c.op, FALSE, c.n)
    BY <1>3 DEF Answer
  <2> HIDE DEF c
  <2>5. /\ "complete" \in {"complete", "status", "leMeta", "hwError", "vendor", "bad"}
        /\ "status" \in {"complete", "status", "leMeta", "hwError", "vendor", "bad"}
        /\ TRUE \in BOOLEAN /\ FALSE \in BOOLEAN
    OBVIOUS
  <2> QED BY <1>1, <2>3, <2>4, <2>5, RaiseStep, Zenon
<1>4. CASE IsrReceive
  BY <1>4, ReceiveStep
<1>5. CASE FreeTake
  BY <1>5, FreeTakeStep
<1>6. CASE Deliver
  BY <1>6, DeliverStep
<1>7. CASE Park
  <2>1. remote' = remote /\ handed' = handed
    BY <1>7 DEF Park, controller, app
  <2>2. CASE pool = <<>> /\ rxQueue = <<>>
    BY <1>7, <2>2, DiscardStep
  <2>3. CASE ~(pool = <<>> /\ rxQueue = <<>>)
    BY <1>7, <2>1, <2>3, MovedStep
  <2> QED BY <2>2, <2>3
<1>8. CASE TakeEvent \/ MoveList
  <2>1. remote' = remote /\ handed' = handed
    BY <1>8 DEF TakeEvent, MoveList, controller, app
  <2> QED BY <1>8, <2>1, MovedStep
<1>9. CASE FreePut \/ PutBack
  <2>1. remote' = remote /\ handed' = handed
    BY <1>9 DEF FreePut, PutBack, controller, app
  <2> QED BY <1>9, <2>1, FreedStep
<1>10. CASE Release
  <2>1. remote' = remote /\ handed' = handed
    BY <1>10 DEF Release, controller
  <2> QED BY <1>10, <2>1, ReleaseStep
<1>11. CASE IsrEnter \/ IsrReturn
  <2>1. remote' = remote /\ handed' = handed /\ UNCHANGED <<tempQueue, InHand, rxQueue, content>>
    BY <1>11 DEF IsrEnter, IsrReturn, controller, lists, app, InHand
  <2> QED BY <2>1, Quiet
<1>12. CASE \E op \in Opcodes, wait \in Waits : SendReq(op, wait)
  <2>1. remote' = remote /\ handed' = handed /\ UNCHANGED <<tempQueue, rxQueue, content>>
    BY <1>12 DEF SendReq, controller, lists
  <2>2. InHand' = InHand
    BY <1>12 DEF SendReq, InHand
  <2> QED BY <2>1, <2>2, Quiet
<1>13. CASE FreeEventList \/ SendCmd \/ Return
  <2>1. remote' = remote /\ handed' = handed /\ UNCHANGED <<tempQueue, rxQueue, content>>
    BY <1>13 DEF FreeEventList, SendCmd, Return, controller, lists, app
  <2>2. pc \in {"free", "send", "move"} /\ pc' \in {"freeTake", "send", "wait", "idle"}
    BY <1>13 DEF FreeEventList, SendCmd, Return
  <2>3. InHand' = InHand
    BY <2>2 DEF InHand
  <2> QED BY <2>1, <2>3, Quiet
<1>14. CASE Timeout
  <2>1. remote' = remote /\ handed' = handed /\ UNCHANGED <<tempQueue, rxQueue, content>>
    BY <1>14 DEF Timeout, controller, lists, app
  <2>2. hand = NoPacket /\ hand' = NoPacket
    BY <1>1, <1>14 DEF Timeout, MainInv, lists
  <2>3. InHand' = InHand
    BY <2>2 DEF InHand
  <2> QED BY <2>1, <2>3, Quiet
<1>15. CASE UserEvtProc \/ ProcEnd
  <2>1. remote' = remote /\ handed' = handed /\ UNCHANGED <<tempQueue, rxQueue, content>>
    BY <1>15 DEF UserEvtProc, ProcEnd, controller, lists, app
  <2>2. pc \in {"idle", "proc"} /\ pc' \in {"idle", "proc"}
    BY <1>15 DEF UserEvtProc, ProcEnd
  <2>3. InHand' = InHand
    BY <2>2 DEF InHand
  <2> QED BY <2>1, <2>3, Quiet
<1>16. CASE UNCHANGED vars
  <2>1. remote' = remote /\ handed' = handed /\ UNCHANGED <<tempQueue, InHand, rxQueue, content>>
    BY <1>16 DEF vars, controller, lists, app, InHand
  <2> QED BY <2>1, Quiet
<1> QED
  BY <1>2, <1>3, <1>4, <1>5, <1>6, <1>7, <1>8, <1>9, <1>10, <1>11, <1>12, <1>13, <1>14, <1>15, <1>16
     DEF Next, Isr, Main, HciSendReq, HciUserEvtProc

LEMMA ChannelInit == Init => Channel!Init
BY DEF Init, Channel!Init, Local, InHand

\* For any number of packets, opcodes and events, the transport is the bounded
\* in-order channel of EventChannel: its events reach the application in the
\* order they were raised, and leave it otherwise only as the channel allows.
THEOREM ImplementsChannel == Spec => ChannelSpec
<1>1. Init => IInv /\ HandInv
  BY InvInit, HandInit
<1>2. IInv /\ HandInv /\ [Next]_vars => IInv' /\ HandInv'
  BY InvStep, HandStep
<1>3. IInv' => TypeOK'
  BY DEF IInv
<1>4. IInv /\ HandInv /\ IInv' /\ [Next]_vars => [Channel!Next]_Channel!vars
  BY <1>3, ChannelStep
<1> QED BY <1>1, <1>2, <1>4, ChannelInit, PTL DEF Spec, ChannelSpec, Channel!Spec
=============================================================================
