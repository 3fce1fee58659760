--------------------------- MODULE HciSpiProofs ---------------------------
(***************************************************************************)
(* Theorems about HciSpi, for controllers that keep their line low while   *)
(* they are selected and for those that do not.                            *)
(***************************************************************************)
EXTENDS HciSpi, TLAPS

(* With a controller that keeps its line low while it is selected, the     *)
(* interrupt is pending or runs only between two transactions.             *)
Apart == ~raises =>
  /\ crossed = {}
  /\ pending \/ inIsr => pc \in {"idle", "select", "test"}

(* The interrupt has deselected the controller under the main loop. *)
CutOff == slave = "off" /\ nSends \in crossed

(* What the controller, the handle and the result are at each point of Send. *)
AtPoint ==
  /\ lock <=> pc \in {"headerEnd", "bodyEnd"}
  /\ pc \in {"idle", "select", "test"} => slave = "off"
  /\ pc \in {"header", "headerEnd"} => slave = "header" \/ CutOff
  /\ pc \in {"body", "bodyEnd"} => result = 0 /\ (slave = "command" \/ CutOff)
  /\ pc = "release" => slave = "nothing" \/ CutOff
  /\ InTransaction \/ pc = "test" => result # -3

Newest == IF written = <<>> THEN 0 ELSE written[Len(written)]

(* Which command the controller got last. *)
Progress ==
  /\ Newest <= nSends
  /\ pc \in {"select", "header", "headerEnd", "body", "bodyEnd"} => nSends > Newest
  /\ pc \in {"release", "test"} /\ result # 0 => nSends > Newest
  /\ pc \in {"release", "test"} /\ result = 0 =>
       \/ nSends = Newest /\ written # <<>>
       \/ nSends > Newest /\ nSends \in crossed

IInv == TypeOK /\ Apart /\ AtPoint /\ Progress /\ SentIsWritten /\ WrittenOnce

-----------------------------------------------------------------------------
LEMMA InvInit == Init => IInv
<1> SUFFICES ASSUME Init PROVE IInv
  OBVIOUS
<1>1. TypeOK
  <2>1. <<>> \in Seq(Nat) /\ <<>> \in Seq(Nat \ {Garbage})
    OBVIOUS
  <2> QED BY <2>1 DEF Init, TypeOK
<1>2. Apart
  BY DEF Init, Apart
<1>5. AtPoint
  BY DEF Init, AtPoint, CutOff, InTransaction
<1>3. Progress /\ SentIsWritten
  BY DEF Init, Progress, Newest, SentIsWritten
<1>4. WrittenOnce
  BY DEF Init, WrittenOnce
<1> QED BY <1>1, <1>2, <1>3, <1>4, <1>5 DEF IInv

(* A step that touches neither Send nor the controller's end of the bus. *)
LEMMA AsideStep ==
  ASSUME IInv, TypeOK', Apart', UNCHANGED <<written, slave, lock, pc, result, nSends, crossed>>
  PROVE  IInv'
BY DEF IInv, AtPoint, CutOff, InTransaction, Progress, Newest, SentIsWritten, WrittenOnce

LEMMA EnvironmentStep ==
  ASSUME IInv, RaiseEvent \/ Tick
  PROVE  IInv'
<1>1. CASE RaiseEvent
  <2>1. TypeOK'
    BY <1>1 DEF IInv, TypeOK, RaiseEvent, main, Garbage
  <2>2. Apart'
    BY <1>1 DEF IInv, Apart, AtPoint, CutOff, InTransaction, TypeOK, RaiseEvent, main,
         LineHigh, High, Selected
  <2> QED BY <1>1, <2>1, <2>2, AsideStep DEF RaiseEvent, main
<1>2. CASE Tick
  <2>1. TypeOK' /\ Apart'
    BY <1>2 DEF IInv, TypeOK, Apart, Tick, chip
  <2> QED BY <1>2, <2>1, AsideStep DEF Tick, chip
<1> QED BY <1>1, <1>2

(* Send starts, and repeats, between transactions. *)
LEMMA StartStep ==
  ASSUME IInv, Send \/ Select
  PROVE  IInv'
<1>1. CASE Send
  <2>1. TypeOK'
    <3>1. nSends' \in Nat
      BY <1>1 DEF IInv, TypeOK, Send
    <3>2. late' \in BOOLEAN /\ pc' = "select"
      BY <1>1 DEF Send
    <3>3. UNCHANGED <<chip, received, pending, inIsr, lock, result, crossed>>
      BY <1>1 DEF Send
    <3> QED BY <3>1, <3>2, <3>3 DEF IInv, TypeOK, chip
  <2>2. Apart'
    BY <1>1 DEF IInv, Apart, Send, MainRuns, chip
  <2>3. AtPoint' /\ Progress' /\ SentIsWritten' /\ WrittenOnce'
    BY <1>1 DEF IInv, TypeOK, AtPoint, CutOff, InTransaction, Progress, Newest,
         SentIsWritten, WrittenOnce, Send, chip
  <2> QED BY <2>1, <2>2, <2>3 DEF IInv
<1>2. CASE Select
  <2>1. TypeOK' /\ Apart'
    BY <1>2 DEF IInv, TypeOK, Apart, Select, MainRuns
  <2>2. AtPoint' /\ Progress' /\ SentIsWritten' /\ WrittenOnce'
    BY <1>2 DEF IInv, TypeOK, AtPoint, CutOff, InTransaction, Progress, Newest,
         SentIsWritten, WrittenOnce, Select
  <2> QED BY <2>1, <2>2 DEF IInv
<1> QED BY <1>1, <1>2

LEMMA TransferStep ==
  ASSUME IInv, Transfer \/ HeaderEnd
  PROVE  IInv'
<1>1. CASE Transfer
  <2>1. TypeOK' /\ Apart'
    BY <1>1 DEF IInv, TypeOK, Apart, Transfer, MainRuns, chip
  <2>2. AtPoint' /\ Progress' /\ SentIsWritten' /\ WrittenOnce'
    BY <1>1 DEF IInv, TypeOK, AtPoint, CutOff, InTransaction, Progress, Newest,
         SentIsWritten, WrittenOnce, Transfer, chip
  <2> QED BY <2>1, <2>2 DEF IInv
<1>2. CASE HeaderEnd
  <2> PICK reply \in Replies :
        /\ slave' = IF slave # "header" THEN slave
                    ELSE IF reply = "ready" THEN "command" ELSE "nothing"
        /\ result' = ResultOf(reply)
        /\ pc' = IF reply = "ready" THEN "body" ELSE "release"
    BY <1>2 DEF HeaderEnd
  <2>1. ResultOf(reply) = IF reply = "busy" THEN -1 ELSE IF reply = "small" THEN -2 ELSE 0
    BY DEF ResultOf, Replies
  <2>2. TypeOK' /\ Apart'
    BY <1>2, <2>1 DEF IInv, TypeOK, Apart, HeaderEnd, MainRuns
  <2>3. SentIsWritten' /\ WrittenOnce'
    BY <1>2 DEF IInv, SentIsWritten, WrittenOnce, HeaderEnd
  <2>4. /\ pc = "headerEnd" /\ lock' = FALSE
        /\ nSends' = nSends /\ written' = written /\ crossed' = crossed
        /\ slave = "header" \/ CutOff
    BY <1>2 DEF IInv, AtPoint, HeaderEnd
  <2>5. CASE reply = "ready"
    <3>1. result' = 0 /\ pc' = "body" /\ (slave' = "command" \/ CutOff')
      BY <2>1, <2>4, <2>5 DEF CutOff
    <3>2. AtPoint'
      BY <2>4, <3>1 DEF AtPoint, InTransaction
    <3>3. Progress'
      BY <2>4, <3>1 DEF IInv, Progress, Newest
    <3> QED BY <2>2, <2>3, <3>2, <3>3 DEF IInv
  <2>6. CASE reply # "ready"
    <3>1. result' \in {-1, -2} /\ pc' = "release" /\ (slave' = "nothing" \/ CutOff')
      BY <2>1, <2>4, <2>6 DEF Replies, CutOff
    <3>2. AtPoint'
      BY <2>4, <3>1 DEF AtPoint, InTransaction
    <3>3. Progress'
      BY <2>4, <3>1 DEF IInv, Progress, Newest
    <3> QED BY <2>2, <2>3, <3>2, <3>3 DEF IInv
  <2> QED BY <2>5, <2>6
<1> QED BY <1>1, <1>2

(* The one step that gives the controller a command: a newer one. *)
LEMMA WriteStep ==
  ASSUME IInv, BodyEnd, slave = "command"
  PROVE  IInv'
<1>1. written' = Append(written, nSends) /\ slave' = "nothing"
  BY DEF BodyEnd
<1>2. written \in Seq(Nat) /\ nSends \in Nat /\ nSends > Newest
  BY DEF IInv, TypeOK, Progress, BodyEnd
<1>3. /\ Len(written') = Len(written) + 1 /\ written'[Len(written')] = nSends
      /\ \A i \in 1..Len(written) : written'[i] = written[i]
      /\ written' # <<>> /\ Len(written) \in Nat
  BY <1>1, <1>2
<1>4. WrittenOnce'
  <2>1. \A i \in 1..Len(written) : written[i] <= Newest
    BY <1>2 DEF IInv, WrittenOnce, Newest
  <2>2. \A i \in 1..Len(written) : written[i] \in Nat
    BY <1>2
  <2>3. Newest \in Nat
    BY <1>2, <1>3 DEF Newest
  <2>4. SUFFICES ASSUME NEW i \in 1..Len(written'), NEW j \in 1..Len(written'), i < j
                 PROVE  written'[i] < written'[j]
    BY <1>2, <1>1 DEF WrittenOnce
  <2>7. i \in 1..Len(written) /\ written'[i] = written[i] /\ i \in Nat /\ j \in Nat
    BY <1>3, <2>4
  <2>5. CASE j = Len(written) + 1
    BY <1>2, <1>3, <2>1, <2>2, <2>3, <2>5, <2>7
  <2>6. CASE j # Len(written) + 1
    <3>1. j \in 1..Len(written) /\ written'[j] = written[j]
      BY <1>3, <2>4, <2>6
    <3>2. DOMAIN written = 1..Len(written)
      BY <1>2
    <3> QED BY <2>4, <2>7, <3>1, <3>2 DEF IInv, WrittenOnce
  <2> QED BY <2>5, <2>6
<1>5. TypeOK'
  <2>1. written' \in Seq(Nat)
    BY <1>1, <1>2
  <2> QED BY <1>1, <2>1 DEF IInv, TypeOK, BodyEnd
<1>6. Apart'
  BY DEF IInv, Apart, BodyEnd, MainRuns
<1>9. AtPoint'
  BY <1>1 DEF IInv, TypeOK, AtPoint, CutOff, InTransaction, BodyEnd
<1>7. result = 0 /\ Newest' = nSends
  BY <1>3 DEF IInv, AtPoint, CutOff, InTransaction, BodyEnd, Newest
<1>8. Progress' /\ SentIsWritten'
  BY <1>2, <1>3, <1>7 DEF Progress, SentIsWritten, BodyEnd
<1> QED BY <1>4, <1>5, <1>6, <1>8, <1>9 DEF IInv

(* A body clocked to a controller that was deselected gives it nothing. *)
LEMMA CutOffStep ==
  ASSUME IInv, BodyEnd, slave # "command"
  PROVE  IInv'
<1>1. UNCHANGED <<written, slave, nSends, crossed, result>> /\ pc = "bodyEnd" /\ pc' = "release"
  BY DEF BodyEnd
<1>2. CutOff /\ result = 0 /\ nSends > Newest
  BY <1>1 DEF IInv, AtPoint, Progress
<1>3. TypeOK' /\ Apart'
  BY DEF IInv, TypeOK, Apart, BodyEnd, MainRuns
<1>4. AtPoint'
  BY <1>1, <1>2 DEF AtPoint, CutOff, InTransaction, BodyEnd
<1>5. Progress' /\ SentIsWritten' /\ WrittenOnce'
  BY <1>1, <1>2 DEF IInv, CutOff, Progress, Newest, SentIsWritten, WrittenOnce
<1> QED BY <1>3, <1>4, <1>5 DEF IInv

LEMMA EndStep ==
  ASSUME IInv, Release \/ Test
  PROVE  IInv'
<1>1. CASE Release
  <2>1. TypeOK' /\ Apart'
    BY <1>1 DEF IInv, TypeOK, Apart, Release, MainRuns, LineHigh, High
  <2>2. AtPoint' /\ Progress' /\ SentIsWritten' /\ WrittenOnce'
    BY <1>1 DEF IInv, TypeOK, AtPoint, CutOff, InTransaction, Progress, Newest,
         SentIsWritten, WrittenOnce, Release
  <2> QED BY <2>1, <2>2 DEF IInv
<1>2. CASE Test
  <2>1. TypeOK' /\ Apart'
    BY <1>2 DEF IInv, TypeOK, Apart, Test, MainRuns, chip
  <2>2. AtPoint' /\ Progress' /\ SentIsWritten' /\ WrittenOnce'
    BY <1>2 DEF IInv, TypeOK, AtPoint, CutOff, InTransaction, Progress, Newest,
         SentIsWritten, WrittenOnce, Test, chip
  <2> QED BY <2>1, <2>2 DEF IInv
<1> QED BY <1>1, <1>2

(* The interrupt leaves the controller deselected, and the command whose  *)
(* transaction it came into marked.                                       *)
LEMMA IsrStep ==
  ASSUME IInv, Isr
  PROVE  IInv'
<1>1. CASE IsrEnter
  <2>1. TypeOK' /\ Apart'
    BY <1>1 DEF IInv, TypeOK, Apart, IsrEnter, chip, main
  <2> QED BY <1>1, <2>1, AsideStep DEF IsrEnter, chip, main
<1>2. CASE Receive
  <2>1. /\ UNCHANGED <<raises, written, lock, pc, result, late, nSends, inIsr, nEvents>>
        /\ slave' = "off" /\ events # <<>> /\ inIsr
        /\ crossed' = IF InTransaction THEN crossed \cup {nSends} ELSE crossed
    BY <1>2 DEF Receive, main, LineHigh, High
  <2>2. TypeOK'
    <3>1. /\ events' \in Seq(Nat \ {Garbage}) /\ received' \in Seq(Nat)
          /\ pending' \in BOOLEAN
      <4>1. events \in Seq(Nat \ {Garbage}) /\ received \in Seq(Nat)
        BY DEF IInv, TypeOK
      <4>2. Tail(events) \in Seq(Nat \ {Garbage}) /\ Head(events) \in Nat
        BY <2>1, <4>1
      <4>3. Garbage \in Nat
        BY DEF Garbage
      <4>4. Append(received, Head(events)) \in Seq(Nat) /\ Append(received, Garbage) \in Seq(Nat)
        BY <4>1, <4>2, <4>3
      <4>5. events' \in {events, Tail(events)}
        BY <1>2 DEF Receive
      <4>6. received' \in {received, Append(received, Head(events)), Append(received, Garbage)}
        BY <1>2 DEF Receive
      <4>7. pending' \in BOOLEAN
        BY <1>2 DEF Receive, IInv, TypeOK
      <4> QED BY <4>1, <4>2, <4>4, <4>5, <4>6, <4>7
    <3>2. crossed' \subseteq Nat
      BY <2>1 DEF IInv, TypeOK
    <3> QED BY <2>1, <3>1, <3>2 DEF IInv, TypeOK
  <2>3. Apart'
    <3> SUFFICES ASSUME ~raises PROVE Apart'
      BY <2>1 DEF Apart
    <3>1. pc \in {"idle", "select", "test"} /\ crossed = {}
      BY <2>1 DEF IInv, Apart
    <3> QED BY <2>1, <3>1 DEF Apart, InTransaction
  <2>4. AtPoint'
    BY <2>1 DEF IInv, AtPoint, CutOff, InTransaction
  <2>5. Progress' /\ SentIsWritten' /\ WrittenOnce'
    BY <2>1 DEF IInv, Progress, Newest, SentIsWritten, WrittenOnce
  <2> QED BY <2>2, <2>3, <2>4, <2>5 DEF IInv
<1>3. CASE IsrReturn
  <2>1. TypeOK' /\ Apart'
    BY <1>3 DEF IInv, TypeOK, Apart, IsrReturn, chip, main
  <2> QED BY <1>3, <2>1, AsideStep DEF IsrReturn, chip, main
<1> QED BY <1>1, <1>2, <1>3 DEF Isr

LEMMA InvNext ==
  ASSUME IInv, [Next]_vars
  PROVE  IInv'
<1>1. CASE RaiseEvent \/ Tick
  BY <1>1, EnvironmentStep
<1>2. CASE Send
  BY <1>2, StartStep
<1>3. CASE Sending
  BY <1>3, StartStep, TransferStep, WriteStep, CutOffStep, EndStep DEF Sending
<1>4. CASE Isr
  BY <1>4, IsrStep
<1>5. CASE UNCHANGED vars
  BY <1>5 DEF IInv, TypeOK, Apart, AtPoint, CutOff, InTransaction, Progress, Newest,
       SentIsWritten, WrittenOnce,
     vars, chip, main
<1> QED BY <1>1, <1>2, <1>3, <1>4, <1>5 DEF Next

(* How many events the controller has handed over. *)
NRead == nEvents - Len(events)

(* The five parts of EventsWhole. *)
Waiting == \A i \in DOMAIN events : events[i] = NRead + i
All == \A k \in 1..NRead : \E i \in DOMAIN received : received[i] = k
NoOther == \A i \in DOMAIN received : received[i] <= NRead
InOrder == \A i, j \in DOMAIN received :
             i < j /\ received[j] # Garbage => received[i] < received[j]
StrayOnlyIfCrossed == crossed = {} => \A i \in DOMAIN received : received[i] # Garbage

LEMMA Parts ==
  EventsWhole <=> Waiting /\ All /\ NoOther /\ InOrder /\ StrayOnlyIfCrossed
BY DEF EventsWhole, NRead, Waiting, All, NoOther, InOrder, StrayOnlyIfCrossed

(* The host reads the event the controller holds longest, the next in number. *)
LEMMA ReadStep ==
  ASSUME IInv, EventsWhole, Receive, Reads
  PROVE  EventsWhole'
<1> DEFINE n == NRead
<1>1. /\ events \in Seq(Nat \ {Garbage}) /\ received \in Seq(Nat) /\ nEvents \in Nat
      /\ events # <<>> /\ events' = Tail(events) /\ nEvents' = nEvents
      /\ received' = Append(received, Head(events))
  BY DEF IInv, TypeOK, Receive, LineHigh, High
<1>2. /\ Len(events) \in Nat /\ Len(events) > 0 /\ Len(events') = Len(events) - 1
      /\ \A i \in 1..Len(events') : events'[i] = events[i + 1]
      /\ Head(events) = events[1] /\ events[1] \in Nat \ {0}
      /\ DOMAIN events = 1..Len(events) /\ DOMAIN events' = 1..Len(events')
  BY <1>1 DEF Garbage
<1>3. n \in Int /\ NRead' = n + 1
  BY <1>1, <1>2 DEF NRead
<1>4. events[1] = n + 1
  BY <1>2, Parts DEF Waiting
<1>5. /\ Len(received) \in Nat /\ Len(received') = Len(received) + 1
      /\ DOMAIN received = 1..Len(received) /\ DOMAIN received' = 1..(Len(received) + 1)
      /\ \A i \in 1..Len(received) : received'[i] = received[i] /\ received[i] \in Nat
      /\ received'[Len(received) + 1] = n + 1
  BY <1>1, <1>2, <1>4
<1>6. Waiting'
  <2>1. \A i \in 1..Len(events) : events[i] = n + i
    BY <1>2, Parts DEF Waiting
  <2>2. \A i \in 1..Len(events') : events'[i] = (n + 1) + i
    BY <1>2, <1>3, <2>1
  <2> QED BY <1>2, <1>3, <2>2 DEF Waiting
<1>7. All'
  <2> SUFFICES ASSUME NEW k \in 1..NRead'
               PROVE  \E i \in DOMAIN received' : received'[i] = k
    BY DEF All
  <2>1. CASE k = n + 1
    BY <1>5, <2>1
  <2>2. CASE k \in 1..n
    <3>1. PICK i \in DOMAIN received : received[i] = k
      BY <2>2, Parts DEF All
    <3> QED BY <1>5, <3>1
  <2> QED BY <1>3, <2>1, <2>2
<1>8. \A i \in 1..Len(received) : received[i] <= n
  BY <1>5, Parts DEF NoOther
<1>9. NoOther'
  BY <1>3, <1>5, <1>8 DEF NoOther
<1>10. InOrder'
  <2> SUFFICES ASSUME NEW i \in DOMAIN received', NEW j \in DOMAIN received',
                      i < j, received'[j] # Garbage
               PROVE  received'[i] < received'[j]
    BY DEF InOrder, Garbage
  <2>1. i \in 1..Len(received) /\ received'[i] = received[i]
    BY <1>5
  <2>2. CASE j = Len(received) + 1
    BY <1>3, <1>5, <1>8, <2>1, <2>2
  <2>3. CASE j \in 1..Len(received)
    BY <1>5, <2>1, <2>3, Parts DEF InOrder
  <2> QED BY <1>5, <2>2, <2>3
<1>11. StrayOnlyIfCrossed'
  <2>1. crossed' = {} => crossed = {}
    BY DEF Receive
  <2>2. n + 1 # 0
    BY <1>2, <1>4
  <2> QED BY <1>5, <2>1, <2>2, Parts DEF StrayOnlyIfCrossed, Garbage
<1> QED BY <1>6, <1>7, <1>9, <1>10, <1>11
        DEF EventsWhole, NRead, Waiting, All, NoOther, InOrder, StrayOnlyIfCrossed

(* Inside a transaction the handler may read what no controller sent. *)
LEMMA StrayStep ==
  ASSUME IInv, EventsWhole, Receive, ~Reads
  PROVE  EventsWhole'
<1>1. /\ events' = events /\ nEvents' = nEvents /\ events # <<>>
      /\ received' \in {received, Append(received, Garbage)}
  BY DEF Receive, LineHigh, High
<1>2. /\ events \in Seq(Nat \ {Garbage}) /\ received \in Seq(Nat) /\ nEvents \in Nat
      /\ Len(events) \in Nat /\ Len(events) > 0 /\ events[1] \in Nat \ {0}
      /\ DOMAIN events = 1..Len(events)
  BY <1>1 DEF IInv, TypeOK, Garbage
<1>3. NRead' = NRead /\ NRead \in Nat
  <2>1. events[1] = NRead + 1 /\ NRead \in Int
    <3>1. 1 \in DOMAIN events
      BY <1>2
    <3>2. events[1] = NRead + 1
      BY <3>1, Parts DEF Waiting
    <3>3. NRead \in Int
      BY <1>2 DEF NRead
    <3> QED BY <3>2, <3>3
  <2>2. NRead >= 0
    BY <1>2, <2>1
  <2> QED BY <1>1, <2>1, <2>2 DEF NRead
<1>4. nSends \in crossed'
  <2>1. InTransaction
    BY DEF IInv, TypeOK, AtPoint, CutOff, Reads, InTransaction
  <2> QED BY <2>1 DEF Receive
<1>5. CASE received' = received
  BY <1>1, <1>4, <1>5 DEF EventsWhole
<1>6. CASE received' = Append(received, Garbage)
  <2>1. /\ Len(received) \in Nat /\ DOMAIN received = 1..Len(received)
        /\ DOMAIN received' = 1..(Len(received) + 1)
        /\ \A i \in 1..Len(received) : received'[i] = received[i]
        /\ received'[Len(received) + 1] = 0
    BY <1>2, <1>6 DEF Garbage
  <2>2. Waiting' /\ NoOther'
    BY <1>1, <1>3, <2>1, Parts DEF Waiting, NoOther
  <2>4. All'
    <3> SUFFICES ASSUME NEW k \in 1..NRead
                 PROVE  \E i \in DOMAIN received' : received'[i] = k
      BY <1>3 DEF All
    <3>1. PICK i \in DOMAIN received : received[i] = k
      BY Parts DEF All
    <3> QED BY <2>1, <3>1
  <2>3. InOrder'
    BY <2>1, Parts DEF InOrder, Garbage
  <2> QED BY <1>4, <2>2, <2>3, <2>4
          DEF EventsWhole, NRead, Waiting, All, NoOther, InOrder
<1> QED BY <1>1, <1>5, <1>6

(* An event is numbered when raised; every other step leaves both ends alone. *)
LEMMA EventsNext ==
  ASSUME IInv, EventsWhole, [Next]_vars
  PROVE  EventsWhole'
<1>1. CASE RaiseEvent
  <2>1. /\ UNCHANGED <<received, crossed>> /\ nEvents' = nEvents + 1
        /\ events' = Append(events, nEvents + 1)
    BY <1>1 DEF RaiseEvent
  <2>2. /\ events \in Seq(Nat) /\ nEvents \in Nat
        /\ Len(events) \in Nat /\ Len(events') = Len(events) + 1
        /\ DOMAIN events = 1..Len(events) /\ DOMAIN events' = 1..Len(events')
        /\ \A i \in 1..Len(events) : events'[i] = events[i]
        /\ events'[Len(events')] = nEvents + 1
    BY <2>1 DEF IInv, TypeOK
  <2>3. NRead' = NRead /\ NRead \in Int
    BY <2>1, <2>2 DEF NRead
  <2>4. Waiting'
    BY <2>2, <2>3, Parts DEF Waiting, NRead
  <2> QED BY <2>1, <2>3, <2>4, Parts
          DEF EventsWhole, NRead, Waiting, All, NoOther, InOrder, StrayOnlyIfCrossed
<1>2. CASE Receive
  BY <1>2, ReadStep, StrayStep
<1>3. CASE UNCHANGED <<events, received, nEvents, crossed>>
  BY <1>3 DEF EventsWhole
<1>4. RaiseEvent \/ Receive \/ UNCHANGED <<events, received, nEvents, crossed>>
  BY DEF Next, Tick, Send, Sending, Select, Transfer, HeaderEnd, BodyEnd, Release, Test,
     Isr, IsrEnter, IsrReturn, vars, chip
<1> QED BY <1>1, <1>2, <1>3, <1>4

-----------------------------------------------------------------------------
\* The inductive invariant, for both kinds of controller: at each point of Send
\* the controller, the SPI handle and the result agree, or the interrupt has been
\* in the transaction and deselected the controller.
THEOREM Invariance == Spec => []IInv
<1>1. Init => IInv
  BY InvInit
<1>2. IInv /\ [Next]_vars => IInv'
  BY InvNext
<1> QED BY <1>1, <1>2, PTL DEF Spec

\* HCI_TL_SPI_Send returns 0 only for a command the controller got, or whose own
\* transaction the interrupt came into (nothing masks it there), for any number of
\* commands, events and repetitions.
THEOREM SentReaches == Spec => []SentIsWritten
<1>1. IInv => SentIsWritten
  BY DEF IInv
<1> QED BY <1>1, Invariance, PTL

\* No repetition of the transaction, and no interrupt in the middle of one, makes
\* the controller run a command twice.
THEOREM AtMostOnce == Spec => []WrittenOnce
<1>1. IInv => WrittenOnce
  BY DEF IInv
<1> QED BY <1>1, Invariance, PTL

\* The interrupt reads every event whole, once and in order, and loses none, at
\* whatever point of the main loop's transaction the controller raises its line;
\* what it reads besides is read inside a transaction of the main loop.
THEOREM EventsComeWhole == Spec => []EventsWhole
<1>1. Init => EventsWhole
  BY DEF Init, EventsWhole
<1>2. IInv /\ EventsWhole /\ [Next]_vars => EventsWhole'
  BY EventsNext
<1> QED BY <1>1, <1>2, Invariance, PTL DEF Spec

\* A controller that keeps its line low while it is selected is what the code
\* relies on where it masks nothing: with one, and however often the handler gives
\* up on the empty pool, the interrupt never comes into a transaction of Send.
THEOREM KeptApart == Spec => [](~raises => crossed = {})
<1>1. IInv => (~raises => crossed = {})
  BY DEF IInv, Apart
<1> QED BY <1>1, Invariance, PTL
=============================================================================
