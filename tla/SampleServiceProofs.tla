------------------------- MODULE SampleServiceProofs -------------------------
(***************************************************************************)
(* Theorems about SampleService, for either role and any bounds.           *)
(***************************************************************************)
EXTENDS SampleService, TLAPS

(* The chance to connect is in one place at a time: due to be asked for,    *)
(* open in the controller, used by the link, or lost with a loss of the     *)
(* link that is not known yet.  The report of a loss is the last event.     *)
(* Asked for and not answered, it is in one of the other places already.    *)
Due == set_connectable /\ pc # "connecting"

OnePlace ==
  /\ Due => ~open /\ ~link /\ ~Pending("disconnected")
  /\ pc = "connecting" => open \/ link \/ Pending("disconnected") \/ nFailures # 0
  /\ open => ~link /\ ~Pending("disconnected")
  /\ link => ~Pending("disconnected")
  /\ \A i \in DOMAIN events : events[i] = "disconnected" => i = Len(events)

(* A link, and a command that came over it, is known or its report is due   *)
(* before.                                                                  *)
Announced ==
  /\ link => connected \/ Pending("connected")
  /\ \A i \in DOMAIN events : events[i] \in {"move", "stop"} =>
       connected \/ \E j \in DOMAIN events : j < i /\ events[j] = "connected"

(* The two discoveries of a connection come one after the other.            *)
OneByOne ==
  /\ procedure # <<>> => link
  /\ ~start_read["tx"] =>
       procedure = <<>> /\ ~Pending("procedureComplete") /\ ~Pending("tx")
  /\ end_read["tx"] => start_read["tx"]
  /\ start_read["rx"] => end_read["tx"]
  /\ procedure = <<"tx">> => ~end_read["tx"] /\ ~Pending("procedureComplete")
  /\ procedure = <<"rx">> \/ Pending("rx") => end_read["tx"]
  /\ \A i \in DOMAIN events : events[i] = "tx" =>
       ~end_read["tx"] /\ \A k \in DOMAIN events : k < i => events[k] # "procedureComplete"

IInv ==
  /\ TypeOK /\ OnePlace /\ Announced /\ OneByOne
  /\ MovingOnlyWhenConnected /\ HandlesMatch /\ LossIsKnown

-----------------------------------------------------------------------------
(* Queues that grow by one event and shrink by one. *)

LEMMA Grown ==
  ASSUME NEW K, NEW s \in Seq(K), NEW e \in K
  PROVE  /\ s \o <<e>> \in Seq(K)
         /\ Len(s \o <<e>>) = Len(s) + 1
         /\ \A i \in 1 .. Len(s) : (s \o <<e>>)[i] = s[i]
         /\ (s \o <<e>>)[Len(s) + 1] = e
OBVIOUS

LEMMA Shrunk ==
  ASSUME NEW K, NEW s \in Seq(K), s # <<>>
  PROVE  /\ Head(s) \in K /\ Head(s) = s[1]
         /\ Tail(s) \in Seq(K)
         /\ Len(s) \in Nat \ {0} /\ Len(Tail(s)) = Len(s) - 1
         /\ \A i \in 1 .. Len(s) - 1 : Tail(s)[i] = s[i + 1]
OBVIOUS

LEMMA AtMostOne ==
  ASSUME NEW n \in Nat, n # 0, n <= 1
  PROVE  n = 1
OBVIOUS

LEMMA Single ==
  ASSUME NEW K, NEW s \in Seq(K), Len(s) <= 1, s # <<>>
  PROVE  s = <<s[1]>>
<1>1. Len(s) \in Nat
  OBVIOUS
<1>2. Len(s) # 0
  OBVIOUS
<1>3. Len(s) = 1
  BY <1>1, <1>2, AtMostOne
<1> QED BY <1>3

(* What a report adds. *)
LEMMA Reported ==
  ASSUME TypeOK, NEW e \in EventKinds, Report(<<e>>)
  PROVE  /\ events' \in Seq(EventKinds)
         /\ Len(events') = Len(events) + 1 /\ Len(events) \in Nat
         /\ \A i \in 1 .. Len(events) : events'[i] = events[i]
         /\ events'[Len(events) + 1] = e
         /\ \A k : Pending(k)' <=> Pending(k) \/ k = e
<1>1. events' = events \o <<e>> /\ events \in Seq(EventKinds)
  BY DEF Report, TypeOK
<1>2. /\ events' \in Seq(EventKinds)
      /\ Len(events') = Len(events) + 1 /\ Len(events) \in Nat
      /\ \A i \in 1 .. Len(events) : events'[i] = events[i]
      /\ events'[Len(events) + 1] = e
  BY <1>1, Grown
<1>3. DOMAIN events = 1 .. Len(events) /\ DOMAIN events' = 1 .. Len(events) + 1
  BY <1>1, <1>2
<1>4. ASSUME NEW k PROVE Pending(k)' <=> Pending(k) \/ k = e
  BY <1>2, <1>3 DEF Pending
<1> QED BY <1>2, <1>4

LEMMA ReportedBoth ==
  ASSUME TypeOK, NEW d \in EventKinds, NEW e \in EventKinds, Report(<<d, e>>)
  PROVE  /\ events' \in Seq(EventKinds)
         /\ Len(events') = Len(events) + 2 /\ Len(events) \in Nat
         /\ \A i \in 1 .. Len(events) : events'[i] = events[i]
         /\ events'[Len(events) + 1] = d /\ events'[Len(events) + 2] = e
         /\ \A k : Pending(k)' <=> Pending(k) \/ k = d \/ k = e
<1>1. events' = events \o <<d, e>> /\ events \in Seq(EventKinds)
  BY DEF Report, TypeOK
<1>2. /\ events' \in Seq(EventKinds)
      /\ Len(events') = Len(events) + 2 /\ Len(events) \in Nat
      /\ \A i \in 1 .. Len(events) : events'[i] = events[i]
      /\ events'[Len(events) + 1] = d /\ events'[Len(events) + 2] = e
  BY <1>1
<1>3. DOMAIN events = 1 .. Len(events) /\ DOMAIN events' = 1 .. Len(events) + 2
  BY <1>1, <1>2
<1>4. ASSUME NEW k PROVE Pending(k)' <=> Pending(k) \/ k = d \/ k = e
  BY <1>2, <1>3 DEF Pending
<1> QED BY <1>2, <1>4

LEMMA Handled ==
  ASSUME TypeOK, events # <<>>, events' = Tail(events)
  PROVE  /\ Head(events) \in EventKinds /\ Head(events) = events[1]
         /\ events' \in Seq(EventKinds)
         /\ Len(events) \in Nat \ {0} /\ Len(events') = Len(events) - 1
         /\ \A i \in 1 .. Len(events) - 1 : events'[i] = events[i + 1]
         /\ \A k : Pending(k) <=> Pending(k)' \/ k = Head(events)
         /\ \A k : k # Head(events) => (Pending(k)' <=> Pending(k))
<1>1. events \in Seq(EventKinds)
  BY DEF TypeOK
<1>2. /\ Head(events) \in EventKinds /\ Head(events) = events[1]
      /\ events' \in Seq(EventKinds)
      /\ Len(events) \in Nat \ {0} /\ Len(events') = Len(events) - 1
      /\ \A i \in 1 .. Len(events) - 1 : events'[i] = events[i + 1]
  BY <1>1, Shrunk
<1>3. DOMAIN events = 1 .. Len(events) /\ DOMAIN events' = 1 .. Len(events) - 1
  BY <1>1, <1>2
<1>4. ASSUME NEW k PROVE Pending(k) <=> Pending(k)' \/ k = Head(events)
  <2>1. CASE Pending(k)
    <3>1. PICK i \in 1 .. Len(events) : events[i] = k
      BY <2>1, <1>3 DEF Pending
    <3>2. CASE i = 1
      BY <2>1, <3>1, <3>2, <1>2
    <3>3. CASE i # 1
      <4>1. i - 1 \in 1 .. Len(events) - 1 /\ i - 1 + 1 = i
        BY <3>1, <3>3, <1>2
      <4>2. events'[i - 1] = k
        BY <4>1, <3>1, <1>2
      <4> QED BY <2>1, <4>1, <4>2, <1>3 DEF Pending
    <3> QED BY <3>2, <3>3
  <2>2. CASE Pending(k)'
    <3>1. PICK i \in 1 .. Len(events) - 1 : events'[i] = k
      BY <2>2, <1>3 DEF Pending
    <3>2. i + 1 \in 1 .. Len(events) /\ events[i + 1] = k
      BY <3>1, <1>2
    <3> QED BY <2>2, <3>2, <1>3 DEF Pending
  <2>3. CASE k = Head(events)
    <3>1. 1 \in 1 .. Len(events) /\ events[1] = k
      BY <2>3, <1>2
    <3> QED BY <2>3, <3>1, <1>3 DEF Pending
  <2> QED BY <2>1, <2>2, <2>3
<1> QED BY <1>2, <1>4

-----------------------------------------------------------------------------
LEMMA InvInit == Init => IInv
<1> SUFFICES ASSUME Init PROVE IInv
  OBVIOUS
<1>1. DOMAIN events = {} /\ \A k : ~Pending(k)
  BY DEF Init, Pending
<1>2. TypeOK
  <2>1. events \in Seq(EventKinds) /\ procedure \in Seq(Chars \cup {"write"}) /\ Len(procedure) = 0
    BY DEF Init
  <2>2. 0 \in Nat /\ 0 <= 1
    OBVIOUS
  <2>3. BLE_Role \in {"SERVER", "CLIENT"}
    BY ServiceAssumption DEF Init
  <2>4. start_read \in [Chars -> BOOLEAN] /\ end_read \in [Chars -> BOOLEAN]
        /\ handle \in [Chars -> Chars \cup {Unknown}]
    BY DEF Init
  <2> QED BY <2>1, <2>2, <2>3, <2>4 DEF Init, TypeOK, Levels
<1>3. OnePlace /\ Announced
  BY <1>1 DEF Init, OnePlace, Due, Announced
<1>4. OneByOne /\ HandlesMatch
  BY <1>1 DEF Init, OneByOne, HandlesMatch, Chars
<1>5. MovingOnlyWhenConnected /\ LossIsKnown
  BY DEF Init, MovingOnlyWhenConnected, LossIsKnown
<1> QED BY <1>2, <1>3, <1>4, <1>5 DEF IInv

(* A step that leaves the flags, the radio and the handles alone. *)
LEMMA AsideStep ==
  ASSUME IInv, TypeOK', UNCHANGED <<service, moving, radio, nFailures>>,
         pc' = pc \/ (pc # "connecting" /\ pc' # "connecting")
  PROVE  IInv'
<1>1. UNCHANGED <<connected, set_connectable, notification_enabled, start_read, end_read, handle,
                  moving, open, link, procedure, events, nLinks, nFailures>>
  BY DEF service, radio
<1>2. \A k : Pending(k)' <=> Pending(k)
  BY <1>1 DEF Pending
<1>3. OnePlace' /\ Announced'
  BY <1>1, <1>2 DEF IInv, OnePlace, Due, Announced
<1>4. OneByOne'
  BY <1>1, <1>2 DEF IInv, OneByOne
<1>5. MovingOnlyWhenConnected' /\ HandlesMatch' /\ LossIsKnown'
  BY <1>1, <1>2 DEF IInv, MovingOnlyWhenConnected, HandlesMatch, LossIsKnown
<1> QED BY <1>3, <1>4, <1>5 DEF IInv

-----------------------------------------------------------------------------
(* The controller and the peer. *)

LEMMA ConnectStep ==
  ASSUME IInv, Connect
  PROVE  IInv'
<1> USE DEF IInv
<1>1. Report(<<"connected">>) /\ "connected" \in EventKinds
  BY DEF Connect, EventKinds
<1>2. UNCHANGED <<BLE_Role, connected, set_connectable, notification_enabled, start_read, end_read,
                  handle, button, moving, pc, procedure, nFailures>>
      /\ open /\ open' = FALSE /\ link' = TRUE /\ nLinks' = nLinks + 1
  BY DEF Connect, host, service
<1>3. /\ events' \in Seq(EventKinds)
      /\ Len(events') = Len(events) + 1 /\ Len(events) \in Nat
      /\ \A i \in 1 .. Len(events) : events'[i] = events[i]
      /\ events'[Len(events) + 1] = "connected"
      /\ \A k : Pending(k)' <=> Pending(k) \/ k = "connected"
  BY <1>1, Reported
<1>4. DOMAIN events = 1 .. Len(events) /\ DOMAIN events' = 1 .. Len(events) + 1
  BY <1>3 DEF TypeOK
<1>5. TypeOK'
  <2>1. nLinks' \in Nat
    BY <1>2 DEF TypeOK
  <2> QED BY <1>2, <1>3, <2>1 DEF TypeOK, button
<1>6. OnePlace'
  BY <1>2, <1>3, <1>4 DEF OnePlace, Due, Pending
<1>7. Announced'
  BY <1>2, <1>3, <1>4 DEF Announced, OnePlace
<1>8. OneByOne'
  BY <1>2, <1>3, <1>4 DEF OneByOne
<1>9. MovingOnlyWhenConnected' /\ HandlesMatch' /\ LossIsKnown'
  BY <1>2 DEF MovingOnlyWhenConnected, HandlesMatch, LossIsKnown
<1> QED BY <1>5, <1>6, <1>7, <1>8, <1>9

LEMMA RefuseStep ==
  ASSUME IInv, Refuse
  PROVE  IInv'
<1> USE DEF IInv
<1>1. Report(<<"refused">>) /\ "refused" \in EventKinds
  BY DEF Refuse, EventKinds
<1>2. UNCHANGED <<BLE_Role, connected, set_connectable, notification_enabled, start_read, end_read,
                  handle, button, moving, pc, procedure, link, nLinks>>
      /\ open /\ open' = FALSE /\ nFailures' = nFailures + 1
  BY DEF Refuse, host, service
<1>3. /\ events' \in Seq(EventKinds)
      /\ Len(events') = Len(events) + 1 /\ Len(events) \in Nat
      /\ \A i \in 1 .. Len(events) : events'[i] = events[i]
      /\ events'[Len(events) + 1] = "refused"
      /\ \A k : Pending(k)' <=> Pending(k) \/ k = "refused"
  BY <1>1, Reported
<1>4. DOMAIN events = 1 .. Len(events) /\ DOMAIN events' = 1 .. Len(events) + 1
  BY <1>3 DEF TypeOK
<1>5. TypeOK'
  <2>1. nFailures' \in Nat
    BY <1>2 DEF TypeOK
  <2> QED BY <1>2, <1>3, <2>1 DEF TypeOK, button
<1>6. OnePlace'
  <2>1. nFailures' # 0
    BY <1>2 DEF TypeOK
  <2> QED BY <1>2, <1>3, <1>4, <2>1 DEF OnePlace, Due, Pending
<1>7. Announced'
  BY <1>2, <1>3, <1>4 DEF Announced, OnePlace
<1>8. OneByOne'
  BY <1>2, <1>3, <1>4 DEF OneByOne
<1>9. MovingOnlyWhenConnected' /\ HandlesMatch'
  BY <1>2 DEF MovingOnlyWhenConnected, HandlesMatch
<1>10. LossIsKnown'
  BY <1>2 DEF LossIsKnown, TypeOK
<1> QED BY <1>5, <1>6, <1>7, <1>8, <1>9, <1>10

LEMMA PeerStep ==
  ASSUME IInv, PeerWrites
  PROVE  IInv'
<1> USE DEF IInv
<1>1. PICK e \in {"move", "stop", "subscribe", "unsubscribe"} : Report(<<e>>)
  BY DEF PeerWrites
<1>2. UNCHANGED <<BLE_Role, connected, set_connectable, notification_enabled, start_read, end_read,
                  handle, button, moving, pc, procedure, open, link, nLinks, nFailures>>
      /\ link
  BY DEF PeerWrites, host, service
<1>3. /\ events' \in Seq(EventKinds)
      /\ Len(events') = Len(events) + 1 /\ Len(events) \in Nat
      /\ \A i \in 1 .. Len(events) : events'[i] = events[i]
      /\ events'[Len(events) + 1] = e
      /\ \A k : Pending(k)' <=> Pending(k) \/ k = e
  <2>1. e \in EventKinds
    BY DEF EventKinds
  <2> QED BY <1>1, <2>1, Reported
<1>4. DOMAIN events = 1 .. Len(events) /\ DOMAIN events' = 1 .. Len(events) + 1
  BY <1>3 DEF TypeOK
<1>5. TypeOK'
  BY <1>2, <1>3 DEF TypeOK, button
<1>6. OnePlace'
  BY <1>2, <1>3, <1>4 DEF OnePlace, Due, Pending
<1>7. Announced'
  BY <1>2, <1>3, <1>4 DEF Announced, Pending
<1>8. OneByOne'
  BY <1>2, <1>3, <1>4 DEF OneByOne
<1>9. MovingOnlyWhenConnected' /\ HandlesMatch' /\ LossIsKnown'
  BY <1>2 DEF MovingOnlyWhenConnected, HandlesMatch, LossIsKnown
<1> QED BY <1>5, <1>6, <1>7, <1>8, <1>9

LEMMA DisconnectStep ==
  ASSUME IInv, Disconnect
  PROVE  IInv'
<1> USE DEF IInv
<1>1. UNCHANGED <<BLE_Role, connected, set_connectable, notification_enabled, start_read, end_read,
                  handle, button, moving, pc, open, nLinks, nFailures>>
      /\ link /\ link' = FALSE /\ procedure' = <<>>
  BY DEF Disconnect, host, service
<1>2. ~Due /\ ~open /\ ~Pending("disconnected")
  BY <1>1 DEF OnePlace
<1>3. /\ events' \in Seq(EventKinds)
      /\ Len(events) \in Nat /\ Len(events') \in Nat /\ Len(events') > Len(events)
      /\ \A i \in 1 .. Len(events) : events'[i] = events[i]
      /\ \A i \in Len(events) + 1 .. Len(events') - 1 : events'[i] = "procedureComplete"
      /\ events'[Len(events')] = "disconnected"
      /\ procedure = <<>> => Len(events') = Len(events) + 1
      /\ \A k : Pending(k)' =>
           Pending(k) \/ k = "disconnected" \/ (k = "procedureComplete" /\ procedure # <<>>)
      /\ Pending("disconnected")' /\ (Pending("connected") => Pending("connected")')
  <2>1. "disconnected" \in EventKinds /\ "procedureComplete" \in EventKinds
    BY DEF EventKinds
  <2>2. CASE Report(<<"disconnected">>)
    BY <2>1, <2>2, Reported
  <2>3. CASE procedure # <<>> /\ Report(<<"procedureComplete", "disconnected">>)
    BY <2>1, <2>3, ReportedBoth
  <2> QED BY <2>2, <2>3 DEF Disconnect
<1>4. DOMAIN events = 1 .. Len(events) /\ DOMAIN events' = 1 .. Len(events')
  BY <1>3 DEF TypeOK
<1>10. ASSUME NEW i \in DOMAIN events'
       PROVE  \/ i \in DOMAIN events /\ events'[i] = events[i]
              \/ i # Len(events') /\ events'[i] = "procedureComplete"
              \/ i = Len(events') /\ events'[i] = "disconnected"
  <2>1. i \in 1 .. Len(events) \/ i \in Len(events) + 1 .. Len(events') - 1 \/ i = Len(events')
    <3>1. Len(events) \in Nat /\ Len(events') \in Nat /\ Len(events') > Len(events)
      BY <1>3
    <3>2. i \in 1 .. Len(events')
      BY <1>4
    <3> QED BY <3>1, <3>2
  <2>2. \A n \in Len(events) + 1 .. Len(events') - 1 : n # Len(events')
    BY <1>3
  <2> QED BY <1>3, <1>4, <2>1, <2>2
<1>11. /\ \A k \in DOMAIN events : k \in DOMAIN events' /\ events'[k] = events[k]
       /\ \A i \in DOMAIN events, k \in DOMAIN events' : k < i => k \in DOMAIN events
  <2>1. Len(events) \in Nat /\ Len(events') \in Nat /\ Len(events') > Len(events)
    BY <1>3
  <2>2. \A k \in DOMAIN events : k \in DOMAIN events'
    BY <1>4, <2>1
  <2>3. \A i \in DOMAIN events, k \in DOMAIN events' : k < i => k \in DOMAIN events
    BY <1>4, <2>1
  <2> QED BY <1>3, <1>4, <2>2, <2>3
<1>5. TypeOK'
  <2>1. procedure' \in Seq(Chars \cup {"write"}) /\ Len(procedure') <= 1
    BY <1>1
  <2> QED BY <1>1, <1>3, <2>1 DEF TypeOK, button
<1>6. OnePlace'
  <2>1. ASSUME NEW i \in DOMAIN events', events'[i] = "disconnected" PROVE i = Len(events')
    BY <1>2, <1>10, <2>1 DEF Pending
  <2> QED BY <1>1, <1>2, <1>3, <2>1 DEF OnePlace, Due
<1>7. Announced'
  <2>1. ASSUME NEW i \in DOMAIN events', events'[i] \in {"move", "stop"}
        PROVE  connected' \/ \E j \in DOMAIN events' : j < i /\ events'[j] = "connected"
    <3>1. i \in DOMAIN events /\ events'[i] = events[i]
      BY <1>10, <2>1
    <3> QED BY <1>1, <1>11, <2>1, <3>1 DEF Announced
  <2> QED BY <1>1, <2>1 DEF Announced
<1>8. OneByOne'
  <2>1. ASSUME NEW i \in DOMAIN events', events'[i] = "tx"
        PROVE  ~end_read'["tx"] /\ \A k \in DOMAIN events' : k < i => events'[k] # "procedureComplete"
    <3>1. i \in DOMAIN events /\ events'[i] = events[i]
      BY <1>10, <2>1
    <3> QED BY <1>1, <1>11, <2>1, <3>1 DEF OneByOne
  <2>2. Pending("rx")' => Pending("rx")
    BY <1>3
  <2>3. ~start_read["tx"] => ~Pending("procedureComplete")' /\ ~Pending("tx")'
    BY <1>3 DEF OneByOne
  <2>4. procedure' # <<"tx">> /\ procedure' # <<"rx">> /\ procedure' = <<>>
    BY <1>1
  <2> QED BY <1>1, <2>1, <2>2, <2>3, <2>4 DEF OneByOne
<1>9. MovingOnlyWhenConnected' /\ HandlesMatch' /\ LossIsKnown'
  BY <1>1, <1>3 DEF MovingOnlyWhenConnected, HandlesMatch, LossIsKnown
<1> QED BY <1>5, <1>6, <1>7, <1>8, <1>9

LEMMA ProcedureEndsStep ==
  ASSUME IInv, ProcedureEnds
  PROVE  IInv'
<1> USE DEF IInv
<1>1. UNCHANGED <<BLE_Role, connected, set_connectable, notification_enabled, start_read, end_read,
                  handle, button, moving, pc, open, link, nLinks, nFailures>>
      /\ procedure # <<>> /\ procedure' = <<>>
  BY DEF ProcedureEnds, host, service
<1>2. link /\ start_read["tx"] /\ ~Pending("disconnected")
  BY <1>1 DEF OnePlace, OneByOne
<1>3. procedure = <<procedure[1]>>
  BY <1>1, Single DEF TypeOK
<1>4. /\ events' \in Seq(EventKinds)
      /\ Len(events) \in Nat /\ Len(events') \in Nat /\ Len(events') > Len(events)
      /\ \A i \in 1 .. Len(events) : events'[i] = events[i]
      /\ \A i \in Len(events) + 1 .. Len(events') - 1 :
           i = Len(events) + 1 /\ procedure = <<events'[i]>> /\ events'[i] \in Chars
      /\ events'[Len(events')] = "procedureComplete"
      /\ \A k : Pending(k)' =>
           Pending(k) \/ k = "procedureComplete" \/ (k \in Chars /\ procedure = <<k>>)
      /\ Pending("connected") => Pending("connected")'
  <2>1. "procedureComplete" \in EventKinds /\ Chars \subseteq EventKinds
    BY DEF EventKinds, Chars
  <2>2. CASE Report(<<"procedureComplete">>)
    BY <2>1, <2>2, Reported
  <2>3. CASE procedure[1] \in Chars /\ Report(<<procedure[1], "procedureComplete">>)
    BY <2>1, <2>3, <1>3, ReportedBoth
  <2> QED BY <2>2, <2>3 DEF ProcedureEnds
<1>5. DOMAIN events = 1 .. Len(events) /\ DOMAIN events' = 1 .. Len(events')
  BY <1>4 DEF TypeOK
<1>12. /\ \A k \in DOMAIN events : k \in DOMAIN events' /\ events'[k] = events[k]
       /\ \A n \in DOMAIN events, k \in DOMAIN events' : k < n => k \in DOMAIN events
  <2>1. Len(events) \in Nat /\ Len(events') \in Nat /\ Len(events') > Len(events)
    BY <1>4
  <2> QED BY <1>4, <1>5, <2>1
<1>6. TypeOK'
  <2>1. procedure' \in Seq(Chars \cup {"write"}) /\ Len(procedure') <= 1
    BY <1>1
  <2> QED BY <1>1, <1>4, <2>1 DEF TypeOK, button
<1>7. OnePlace'
  <2>1. ~Pending("disconnected")'
    BY <1>2, <1>4 DEF Chars
  <2> QED BY <1>1, <1>2, <2>1 DEF OnePlace, Due, Pending
<1>8. Announced'
  <2>1. ASSUME NEW i \in DOMAIN events', events'[i] \in {"move", "stop"}
        PROVE  connected' \/ \E j \in DOMAIN events' : j < i /\ events'[j] = "connected"
    <3>1. i \in 1 .. Len(events)
      BY <1>4, <1>5, <2>1 DEF Chars
    <3> QED BY <1>1, <1>5, <1>12, <2>1, <3>1 DEF Announced
  <2> QED BY <1>1, <1>4, <2>1 DEF Announced
<1>9. OneByOne'
  <2>1. ASSUME NEW i \in DOMAIN events', events'[i] = "tx"
        PROVE  ~end_read'["tx"] /\ \A k \in DOMAIN events' : k < i => events'[k] # "procedureComplete"
    <3>1. CASE i \in 1 .. Len(events)
      BY <1>1, <1>5, <1>12, <2>1, <3>1 DEF OneByOne
    <3>2. CASE i \in Len(events) + 1 .. Len(events') - 1
      <4>1. procedure = <<"tx">> /\ i = Len(events) + 1
        BY <1>4, <2>1, <3>2
      <4>2. ~end_read["tx"] /\ ~Pending("procedureComplete")
        BY <4>1 DEF OneByOne
      <4>3. \A k \in DOMAIN events' : k < i => k \in DOMAIN events
        <5>1. Len(events) \in Nat
          BY <1>4
        <5> QED BY <1>5, <4>1, <5>1
      <4> QED BY <1>1, <1>12, <4>2, <4>3 DEF Pending
    <3>3. i # Len(events')
      BY <1>4, <2>1
    <3> QED BY <1>4, <1>5, <3>1, <3>2, <3>3
  <2>2. Pending("rx")' => end_read["tx"]
    BY <1>4 DEF OneByOne
  <2>3. procedure' # <<"tx">> /\ procedure' # <<"rx">> /\ procedure' = <<>>
    BY <1>1
  <2> QED BY <1>1, <1>2, <2>1, <2>2, <2>3 DEF OneByOne
<1>10. MovingOnlyWhenConnected' /\ HandlesMatch'
  BY <1>1 DEF MovingOnlyWhenConnected, HandlesMatch
<1>11. LossIsKnown'
  BY <1>1, <1>2 DEF LossIsKnown
<1> QED BY <1>6, <1>7, <1>8, <1>9, <1>10, <1>11

-----------------------------------------------------------------------------
(* User_Process. *)

LEMMA MakeConnectionStep ==
  ASSUME IInv, MakeConnection
  PROVE  IInv'
<1> USE DEF IInv
<1>1. UNCHANGED <<BLE_Role, connected, set_connectable, notification_enabled, start_read, end_read,
                  handle, button, moving, link, procedure, events, nLinks>>
      /\ pc = "connect"
  BY DEF MakeConnection, RequestFails, radio, service
<1>2. \/ /\ set_connectable /\ pc' = "connecting"
         /\ \/ UNCHANGED open /\ nFailures' = nFailures + 1
            \/ (open' <=> ~link) /\ open' \in BOOLEAN /\ UNCHANGED nFailures
      \/ ~set_connectable /\ pc' = "discover" /\ UNCHANGED <<open, nFailures>>
  BY DEF MakeConnection, RequestFails, radio, TypeOK
<1>3. \A k : Pending(k)' <=> Pending(k)
  BY <1>1 DEF Pending
<1>4. nFailures' \in Nat /\ open' \in BOOLEAN
  <2>1. nFailures' \in Nat
    BY <1>2 DEF TypeOK
  <2>2. open' \in BOOLEAN
    BY <1>2 DEF TypeOK
  <2> QED BY <2>1, <2>2
<1>5. TypeOK'
  BY <1>1, <1>2, <1>4 DEF TypeOK, button
<1>6. OnePlace'
  <2>1. ASSUME nFailures' = nFailures + 1 PROVE nFailures' # 0
    BY <2>1 DEF TypeOK
  <2>2. CASE set_connectable
    <3>1. ~open /\ ~link /\ ~Pending("disconnected")
      BY <1>1, <2>2 DEF OnePlace, Due
    <3> QED BY <1>1, <1>2, <1>3, <2>1, <2>2, <3>1 DEF OnePlace, Due
  <2>3. CASE ~set_connectable
    BY <1>1, <1>2, <1>3, <2>3 DEF OnePlace, Due
  <2> QED BY <2>2, <2>3
<1>7. Announced' /\ OneByOne'
  BY <1>1, <1>3 DEF Announced, OneByOne
<1>8. MovingOnlyWhenConnected' /\ HandlesMatch'
  BY <1>1 DEF MovingOnlyWhenConnected, HandlesMatch
<1>9. LossIsKnown'
  BY <1>1, <1>2, <1>3 DEF LossIsKnown
<1> QED BY <1>5, <1>6, <1>7, <1>8, <1>9

(* set_connectable is reset when the chance is elsewhere. *)
LEMMA MadeConnectionStep ==
  ASSUME IInv, MadeConnection
  PROVE  IInv'
<1> USE DEF IInv
<1>1. UNCHANGED <<BLE_Role, connected, notification_enabled, start_read, end_read, handle,
                  user_button_pressed, key, moving, open, link, procedure, events, nLinks, nFailures>>
      /\ set_connectable' = FALSE /\ user_button_init_state' = key
      /\ pc = "connecting" /\ pc' = "discover"
  BY DEF MadeConnection, radio
<1>2. \A k : Pending(k)' <=> Pending(k)
  BY <1>1 DEF Pending
<1>3. TypeOK'
  BY <1>1 DEF TypeOK
<1>4. OnePlace'
  BY <1>1, <1>2 DEF OnePlace, Due
<1>5. Announced' /\ OneByOne'
  BY <1>1, <1>2 DEF Announced, OneByOne
<1>6. MovingOnlyWhenConnected' /\ HandlesMatch'
  BY <1>1 DEF MovingOnlyWhenConnected, HandlesMatch
<1>7. LossIsKnown'
  BY <1>1, <1>2 DEF LossIsKnown, OnePlace
<1> QED BY <1>3, <1>4, <1>5, <1>6, <1>7

(* A request that fails, or starts the procedure c or none. *)
LEMMA RequestOrProcedure ==
  ASSUME TypeOK, NEW c \in Chars \cup {"write"}, RequestFails \/ StartProcedure(c)
  PROVE  /\ UNCHANGED <<open, link, events, nLinks>>
         /\ procedure' \in Seq(Chars \cup {"write"}) /\ Len(procedure') <= 1
         /\ procedure' = procedure \/ (procedure' = <<c>> /\ link)
         /\ nFailures' \in Nat
         /\ UNCHANGED nFailures \/ nFailures' # 0
<1>1. UNCHANGED <<open, link, events, nLinks>>
      /\ (procedure' = procedure \/ (procedure' = <<c>> /\ link))
      /\ (UNCHANGED nFailures \/ nFailures' = nFailures + 1)
  BY DEF RequestFails, StartProcedure, radio
<1>2. <<c>> \in Seq(Chars \cup {"write"}) /\ Len(<<c>>) <= 1
  OBVIOUS
<1>3. procedure' \in Seq(Chars \cup {"write"}) /\ Len(procedure') <= 1
  BY <1>1, <1>2 DEF TypeOK
<1>4. nFailures' \in Nat /\ (UNCHANGED nFailures \/ nFailures' # 0)
  BY <1>1 DEF TypeOK
<1> QED BY <1>1, <1>3, <1>4

LEMMA DiscoverStep ==
  ASSUME IInv, Discover
  PROVE  IInv'
<1> USE DEF IInv
<1>1. UNCHANGED <<BLE_Role, connected, set_connectable, notification_enabled, end_read, handle,
                  button, moving>>
      /\ pc' = "notify"
  BY DEF Discover
<1>2. \/ connected /\ ~end_read["tx"] /\ StartRead("tx")
      \/ connected /\ end_read["tx"] /\ StartRead("rx")
      \/ UNCHANGED <<start_read, radio, nFailures>>
  BY DEF Discover
<1>3. UNCHANGED <<open, link, events, nLinks>>
      /\ procedure' \in Seq(Chars \cup {"write"}) /\ Len(procedure') <= 1
      /\ nFailures' \in Nat /\ (UNCHANGED nFailures \/ nFailures' # 0)
  <2>1. CASE UNCHANGED <<radio, nFailures>>
    BY <2>1 DEF radio, TypeOK
  <2>2. ASSUME NEW c \in Chars, RequestFails \/ StartProcedure(c)
        PROVE  UNCHANGED <<open, link, events, nLinks>>
               /\ procedure' \in Seq(Chars \cup {"write"}) /\ Len(procedure') <= 1
               /\ nFailures' \in Nat /\ (UNCHANGED nFailures \/ nFailures' # 0)
    BY <2>2, RequestOrProcedure
  <2> QED BY <1>2, <2>1, <2>2 DEF StartRead, Chars
<1>10. start_read' \in [Chars -> BOOLEAN]
  BY <1>2 DEF StartRead, TypeOK
<1>4. \A k : Pending(k)' <=> Pending(k)
  BY <1>3 DEF Pending
<1>5. TypeOK'
  BY <1>1, <1>3, <1>10 DEF TypeOK, button
<1>6. OnePlace' /\ Announced'
  BY <1>1, <1>3, <1>4 DEF OnePlace, Due, Announced, Discover
<1>7. OneByOne'
  <2>1. CASE connected /\ ~end_read["tx"] /\ StartRead("tx")
    <3>1. start_read'["tx"] /\ start_read'["rx"] = start_read["rx"]
      BY <2>1 DEF StartRead, TypeOK, Chars
    <3>2. procedure' = procedure
          \/ (~start_read["tx"] /\ link /\ procedure' = <<"tx">>)
      BY <2>1, RequestOrProcedure DEF StartRead, Chars, radio
    <3>3. <<"tx">> # <<"rx">>
      OBVIOUS
    <3> QED BY <1>1, <1>3, <1>4, <2>1, <3>1, <3>2, <3>3 DEF OneByOne
  <2>2. CASE connected /\ end_read["tx"] /\ StartRead("rx")
    <3>1. start_read'["tx"] = start_read["tx"]
      BY <2>2 DEF StartRead, TypeOK, Chars
    <3>2. procedure' = procedure \/ (link /\ procedure' = <<"rx">>)
      BY <2>2, RequestOrProcedure DEF StartRead, Chars, radio
    <3>3. <<"tx">> # <<"rx">>
      OBVIOUS
    <3> QED BY <1>1, <1>3, <1>4, <2>2, <3>1, <3>2, <3>3 DEF OneByOne
  <2>3. CASE UNCHANGED <<start_read, radio, nFailures>>
    BY <1>1, <1>4, <2>3 DEF OneByOne, radio
  <2> QED BY <1>2, <2>1, <2>2, <2>3
<1>8. MovingOnlyWhenConnected' /\ HandlesMatch'
  BY <1>1 DEF MovingOnlyWhenConnected, HandlesMatch
<1>9. LossIsKnown'
  BY <1>1, <1>3, <1>4 DEF LossIsKnown
<1> QED BY <1>5, <1>6, <1>7, <1>8, <1>9

LEMMA EnableNotificationStep ==
  ASSUME IInv, EnableNotification
  PROVE  IInv'
<1> USE DEF IInv
<1>1. UNCHANGED <<BLE_Role, connected, set_connectable, start_read, end_read, handle,
                  button, moving>>
      /\ pc' = "button"
  BY DEF EnableNotification
<1>2. UNCHANGED <<open, link, events, nLinks>>
      /\ procedure' \in Seq(Chars \cup {"write"}) /\ Len(procedure') <= 1
      /\ (procedure' = procedure \/ (procedure' = <<"write">> /\ link /\ start_read["tx"]))
      /\ nFailures' \in Nat /\ (UNCHANGED nFailures \/ nFailures' # 0)
      /\ notification_enabled' \in BOOLEAN
  <2>1. CASE end_read["tx"] /\ (RequestFails \/ StartProcedure("write")) /\ notification_enabled' = TRUE
    BY <2>1, RequestOrProcedure DEF OneByOne
  <2>2. CASE UNCHANGED <<notification_enabled, radio, nFailures>>
    BY <2>2 DEF radio, TypeOK
  <2> QED BY <2>1, <2>2 DEF EnableNotification
<1>3. \A k : Pending(k)' <=> Pending(k)
  BY <1>2 DEF Pending
<1>4. TypeOK'
  BY <1>1, <1>2 DEF TypeOK, button
<1>5. OnePlace' /\ Announced'
  BY <1>1, <1>2, <1>3 DEF OnePlace, Due, Announced, EnableNotification
<1>6. OneByOne'
  <2>1. <<"write">> # <<"tx">> /\ <<"write">> # <<"rx">>
    OBVIOUS
  <2> QED BY <1>1, <1>2, <1>3, <2>1 DEF OneByOne
<1>7. MovingOnlyWhenConnected' /\ HandlesMatch' /\ LossIsKnown'
  BY <1>1, <1>2, <1>3 DEF MovingOnlyWhenConnected, HandlesMatch, LossIsKnown
<1> QED BY <1>4, <1>5, <1>6, <1>7

-----------------------------------------------------------------------------
(* user_notify. *)

LEMMA UserEvtRxStep ==
  ASSUME IInv, UserEvtRx
  PROVE  IInv'
<1> USE DEF IInv
<1> DEFINE kind == Head(events)
<1>1. UNCHANGED <<BLE_Role, button, pc, open, link, procedure, nLinks, nFailures>>
      /\ pc = "events" /\ events # <<>> /\ events' = Tail(events)
  BY DEF UserEvtRx
<1>2. /\ kind \in EventKinds /\ kind = events[1]
      /\ events' \in Seq(EventKinds)
      /\ Len(events) \in Nat \ {0} /\ Len(events') = Len(events) - 1
      /\ \A i \in 1 .. Len(events) - 1 : events'[i] = events[i + 1]
      /\ \A k : Pending(k) <=> Pending(k)' \/ k = kind
      /\ \A k : k # kind => (Pending(k)' <=> Pending(k))
  BY <1>1, Handled
<1>3. DOMAIN events = 1 .. Len(events) /\ DOMAIN events' = 1 .. Len(events) - 1
  BY <1>2 DEF TypeOK
<1>4. ASSUME NEW i \in DOMAIN events'
      PROVE  /\ i + 1 \in DOMAIN events /\ events'[i] = events[i + 1]
             /\ \A j \in DOMAIN events' : j < i => j + 1 < i + 1
             /\ \A j \in DOMAIN events : j < i + 1 =>
                  j = 1 \/ (j - 1 \in DOMAIN events' /\ j - 1 < i /\ events'[j - 1] = events[j])
             /\ 1 \in DOMAIN events /\ 1 < i + 1
  <2>1. Len(events) \in Nat \ {0} /\ i \in 1 .. Len(events) - 1
    BY <1>2, <1>3
  <2>2. i + 1 \in DOMAIN events /\ 1 \in DOMAIN events /\ 1 < i + 1
    BY <2>1, <1>3
  <2>3. \A j \in DOMAIN events' : j < i => j + 1 < i + 1
    BY <2>1, <1>3
  <2>4. \A j \in DOMAIN events : j < i + 1 =>
          j = 1 \/ (j - 1 \in 1 .. Len(events) - 1 /\ j - 1 < i /\ j - 1 + 1 = j)
    BY <2>1, <1>3
  <2> QED BY <1>2, <1>3, <2>1, <2>2, <2>3, <2>4
<1>5. ASSUME UNCHANGED set_connectable, kind # "disconnected" PROVE OnePlace'
  <2>1. ASSUME NEW i \in DOMAIN events', events'[i] = "disconnected" PROVE i = Len(events')
    <3>1. i + 1 = Len(events)
      BY <1>4, <2>1 DEF OnePlace
    <3>2. Len(events) \in Nat \ {0} /\ Len(events') = Len(events) - 1 /\ i \in 1 .. Len(events) - 1
      BY <1>2, <1>3
    <3> QED BY <3>1, <3>2
  <2> QED BY <1>1, <1>2, <1>5, <2>1 DEF OnePlace, Due
<1>6. ASSUME connected' = connected, kind # "connected" PROVE Announced'
  <2>1. ASSUME NEW i \in DOMAIN events', events'[i] \in {"move", "stop"}, ~connected
        PROVE  \E j \in DOMAIN events' : j < i /\ events'[j] = "connected"
    <3>1. PICK j \in DOMAIN events : j < i + 1 /\ events[j] = "connected"
      BY <1>4, <2>1 DEF Announced
    <3>2. j # 1
      BY <1>2, <1>6, <3>1
    <3> QED BY <1>4, <3>1, <3>2
  <2> QED BY <1>1, <1>2, <1>6, <2>1 DEF Announced
<1>7. ASSUME UNCHANGED <<start_read, end_read>> PROVE OneByOne'
  <2>1. ASSUME NEW i \in DOMAIN events', events'[i] = "tx"
        PROVE  ~end_read["tx"] /\ \A k \in DOMAIN events' : k < i => events'[k] # "procedureComplete"
    <3>1. ~end_read["tx"] /\ \A k \in DOMAIN events : k < i + 1 => events[k] # "procedureComplete"
      BY <1>4, <2>1 DEF OneByOne
    <3> QED BY <1>4, <3>1
  <2>2. \A k : Pending(k)' => Pending(k)
    BY <1>2
  <2> QED BY <1>1, <1>7, <2>1, <2>2 DEF OneByOne
<1>8. ASSUME UNCHANGED set_connectable, kind # "disconnected" PROVE LossIsKnown'
  BY <1>1, <1>2, <1>8 DEF LossIsKnown
<1>9. CASE GAP_ConnectionComplete_CB(kind)
  <2>1. kind \in {"connected", "refused"} /\ connected' = TRUE
        /\ UNCHANGED <<set_connectable, notification_enabled, start_read, end_read, handle, moving>>
    BY <1>9 DEF GAP_ConnectionComplete_CB
  <2>2. TypeOK'
    BY <1>1, <1>2, <2>1 DEF TypeOK, button
  <2>3. OnePlace' /\ OneByOne' /\ LossIsKnown'
    BY <1>5, <1>7, <1>8, <2>1
  <2>4. Announced' /\ MovingOnlyWhenConnected' /\ HandlesMatch'
    BY <1>1, <2>1 DEF Announced, MovingOnlyWhenConnected, HandlesMatch
  <2> QED BY <2>2, <2>3, <2>4
<1>10. CASE GAP_DisconnectionComplete_CB(kind)
  <2>1. kind = "disconnected" /\ connected' = FALSE /\ set_connectable' = TRUE
        /\ notification_enabled' = FALSE /\ moving' = FALSE
        /\ start_read' = [c \in Chars |-> FALSE] /\ end_read' = [c \in Chars |-> FALSE]
        /\ UNCHANGED handle
    BY <1>10 DEF GAP_DisconnectionComplete_CB, Robot_Stop, ForgetDiscovery
  <2>2. Pending("disconnected")
    BY <1>2, <2>1
  <2>3. DOMAIN events' = {} /\ \A k : ~Pending(k)'
    <3>1. 1 = Len(events)
      BY <1>2, <1>3, <2>1 DEF OnePlace
    <3>2. Len(events) - 1 = 0
      BY <3>1
    <3>3. DOMAIN events' = 1 .. 0
      BY <1>3, <3>2
    <3> QED BY <3>3 DEF Pending
  <2>4. ~open' /\ ~link' /\ procedure' = <<>>
    BY <1>1, <2>2 DEF OnePlace, OneByOne
  <2>5. start_read' \in [Chars -> BOOLEAN] /\ end_read' \in [Chars -> BOOLEAN]
    BY <2>1
  <2>6. TypeOK'
    BY <1>1, <1>2, <2>1, <2>5 DEF TypeOK, button
  <2>7. OnePlace' /\ Announced'
    BY <1>1, <2>3, <2>4 DEF OnePlace, Due, Announced
  <2>8. OneByOne'
    <3>1. procedure' # <<"tx">> /\ procedure' # <<"rx">>
      BY <2>4
    <3> QED BY <2>1, <2>3, <2>4, <3>1 DEF OneByOne, Chars
  <2>9. MovingOnlyWhenConnected' /\ HandlesMatch' /\ LossIsKnown'
    BY <2>1 DEF MovingOnlyWhenConnected, HandlesMatch, LossIsKnown
  <2> QED BY <2>6, <2>7, <2>8, <2>9
<1>11. CASE Robot_ParseCommand(kind)
  <2>1. kind \in {"move", "stop"} /\ moving' \in BOOLEAN
        /\ UNCHANGED <<connected, set_connectable, notification_enabled, start_read, end_read, handle>>
    BY <1>11 DEF Robot_ParseCommand, service
  <2>2. TypeOK'
    BY <1>1, <1>2, <2>1 DEF TypeOK, button
  <2>3. OnePlace' /\ Announced' /\ OneByOne' /\ LossIsKnown'
    BY <1>5, <1>6, <1>7, <1>8, <2>1
  <2>4. connected
    <3>1. 1 \in DOMAIN events /\ events[1] \in {"move", "stop"}
      BY <1>2, <1>3, <2>1
    <3>2. \A j \in DOMAIN events : ~(j < 1)
      BY <1>3
    <3> QED BY <3>1, <3>2 DEF Announced
  <2>5. MovingOnlyWhenConnected' /\ HandlesMatch'
    BY <2>1, <2>4 DEF MovingOnlyWhenConnected, HandlesMatch
  <2> QED BY <2>2, <2>3, <2>5
<1>12. CASE Attribute_Modified_CB(kind)
  <2>1. kind \in {"subscribe", "unsubscribe"} /\ notification_enabled' \in BOOLEAN
        /\ UNCHANGED <<connected, set_connectable, start_read, end_read, handle, moving>>
    BY <1>12 DEF Attribute_Modified_CB
  <2>2. TypeOK'
    BY <1>1, <1>2, <2>1 DEF TypeOK, button
  <2>3. OnePlace' /\ Announced' /\ OneByOne' /\ LossIsKnown'
    BY <1>5, <1>6, <1>7, <1>8, <2>1
  <2>4. MovingOnlyWhenConnected' /\ HandlesMatch'
    BY <2>1 DEF MovingOnlyWhenConnected, HandlesMatch
  <2> QED BY <2>2, <2>3, <2>4
<1>13. CASE CharacteristicFound(kind)
  <2>1. kind \in Chars
        /\ handle' = [c \in Chars |-> IF BLE_Role = "CLIENT" /\ Reading(c) THEN kind ELSE handle[c]]
        /\ UNCHANGED <<connected, set_connectable, notification_enabled, start_read, end_read, moving>>
    BY <1>13 DEF CharacteristicFound
  <2>2. ASSUME NEW c \in Chars, Reading(c) PROVE kind = c
    <3>1. CASE kind = "rx"
      <4>1. end_read["tx"]
        BY <1>2, <3>1 DEF OneByOne
      <4> QED BY <2>2, <3>1, <4>1 DEF Reading, Chars
    <3>2. CASE kind = "tx"
      <4>1. 1 \in DOMAIN events /\ events[1] = "tx"
        BY <1>2, <1>3, <3>2
      <4>2. ~end_read["tx"]
        BY <4>1 DEF OneByOne
      <4> QED BY <2>2, <3>2, <4>2 DEF Reading, Chars, OneByOne
    <3> QED BY <2>1, <3>1, <3>2 DEF Chars
  <2>3. HandlesMatch' /\ handle' \in [Chars -> Chars \cup {Unknown}]
    BY <2>1, <2>2 DEF HandlesMatch, TypeOK
  <2>4. TypeOK'
    BY <1>1, <1>2, <2>1, <2>3 DEF TypeOK, button
  <2>5. OnePlace' /\ Announced' /\ OneByOne' /\ LossIsKnown'
    BY <1>5, <1>6, <1>7, <1>8, <2>1 DEF Chars
  <2>6. MovingOnlyWhenConnected'
    BY <2>1 DEF MovingOnlyWhenConnected
  <2> QED BY <2>3, <2>4, <2>5, <2>6
<1>14. CASE ProcedureComplete(kind)
  <2>1. kind = "procedureComplete"
        /\ end_read' = [c \in Chars |-> end_read[c] \/ (BLE_Role = "CLIENT" /\ Reading(c))]
        /\ UNCHANGED <<connected, set_connectable, notification_enabled, start_read, handle, moving>>
    BY <1>14 DEF ProcedureComplete
  <2>2. end_read' \in [Chars -> BOOLEAN]
    BY <2>1 DEF TypeOK
  <2>3. TypeOK'
    BY <1>1, <1>2, <2>1, <2>2 DEF TypeOK, button
  <2>4. OnePlace' /\ Announced' /\ LossIsKnown'
    BY <1>5, <1>6, <1>8, <2>1
  <2>5. OneByOne'
    <3>1. Pending("procedureComplete") /\ 1 \in DOMAIN events /\ events[1] = "procedureComplete"
      BY <1>2, <1>3, <2>1
    <3>2. start_read["tx"] /\ procedure # <<"tx">>
      BY <3>1 DEF OneByOne
    <3>3. end_read["tx"] => end_read'["tx"]
      BY <2>1 DEF Chars
    <3>4. \A i \in DOMAIN events' : events'[i] # "tx"
      <4>1. ASSUME NEW i \in DOMAIN events', events'[i] = "tx" PROVE FALSE
        <5>1. \A k \in DOMAIN events : k < i + 1 => events[k] # "procedureComplete"
          BY <1>4, <4>1 DEF OneByOne
        <5> QED BY <1>4, <3>1, <5>1
      <4> QED BY <4>1
    <3>5. Pending("rx")' => Pending("rx")
      BY <1>2
    <3> QED BY <1>1, <2>1, <3>2, <3>3, <3>4, <3>5 DEF OneByOne
  <2>6. MovingOnlyWhenConnected' /\ HandlesMatch'
    BY <2>1 DEF MovingOnlyWhenConnected, HandlesMatch
  <2> QED BY <2>3, <2>4, <2>5, <2>6
<1> QED BY <1>9, <1>10, <1>11, <1>12, <1>13, <1>14 DEF UserEvtRx

-----------------------------------------------------------------------------
LEMMA InvNext == IInv /\ [Next]_vars => IInv'
<1> SUFFICES ASSUME IInv, [Next]_vars PROVE IInv'
  OBVIOUS
<1>1. ASSUME Button \/ SendData \/ EventsDone \/ Press \/ BSP_PB_Callback \/ UNCHANGED vars
      PROVE  IInv'
  <2>1. UNCHANGED <<service, moving, radio, nFailures>>
    BY <1>1 DEF Button, SendData, EventsDone, Press, BSP_PB_Callback, vars, host
  <2>2. /\ BLE_Role' = BLE_Role /\ user_button_pressed' \in BOOLEAN
        /\ user_button_init_state' \in Levels /\ key' \in Levels
    BY <1>1 DEF Button, SendData, EventsDone, Press, BSP_PB_Callback, vars, host, button,
                IInv, TypeOK, Levels
  <2>3. pc' = pc \/ (pc # "connecting" /\ pc' \in {"connect", "send", "events"})
    BY <1>1 DEF Button, SendData, EventsDone, Press, BSP_PB_Callback, vars, host
  <2>4. TypeOK'
    BY <2>1, <2>2, <2>3 DEF IInv, TypeOK, service, radio
  <2> QED BY <2>1, <2>3, <2>4, AsideStep
<1>2. CASE UserProcess
  BY <1>1, <1>2, MakeConnectionStep, MadeConnectionStep, DiscoverStep, EnableNotificationStep DEF UserProcess
<1>3. CASE Controller
  BY <1>3, ConnectStep, RefuseStep, DisconnectStep, PeerStep, ProcedureEndsStep DEF Controller
<1> QED BY <1>1, <1>2, <1>3, UserEvtRxStep DEF Next, MX_BlueNRG_MS_Process

\* The inductive invariant holds for any roles and bounds.
THEOREM Invariance == Spec => []IInv
BY InvInit, InvNext, PTL DEF Spec

\* The flags, the handles and the events keep their types.
THEOREM TypeCorrect == Spec => []TypeOK
<1>1. IInv => TypeOK
  BY DEF IInv
<1> QED BY Invariance, <1>1, PTL

\* However the connections, failures and procedures interleave, a handle of
\* one characteristic never holds what the discovery of the other found.
THEOREM HandlesAlwaysMatch == Spec => []HandlesMatch
<1>1. IInv => HandlesMatch
  BY DEF IInv
<1> QED BY Invariance, <1>1, PTL

\* Robot_ParseCommand and the disconnection complete event between them never
\* leave the robot driving with connected FALSE.
THEOREM MovesForAPeer == Spec => []MovingOnlyWhenConnected
<1>1. IInv => MovingOnlyWhenConnected
  BY DEF IInv
<1> QED BY Invariance, <1>1, PTL

\* As long as no request fails, the chance to connect again is never lost:
\* with no link, none being sought and no loss to report, set_connectable
\* is TRUE.
THEOREM NoLossGoesUnknown == Spec => []LossIsKnown
<1>1. IInv => LossIsKnown
  BY DEF IInv
<1> QED BY Invariance, <1>1, PTL

=============================================================================
