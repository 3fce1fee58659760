---------------------------- MODULE HciTransport ----------------------------
(***************************************************************************)
(* The HCI transport of the robot firmware: hci_tl.c, run by two actors.   *)
(*                                                                         *)
(*   main loop   hci_send_req (a command and its answer) and               *)
(*               hci_user_evt_proc (events handed to the application);     *)
(*   interrupt   hci_tl_lowlevel_isr, on a rising edge of the line that    *)
(*               the BlueNRG controller drives while it has events.        *)
(*                                                                         *)
(* They share a pool of free packets and a queue of received ones.  Every  *)
(* list operation of ble_list.c masks the interrupts, so the main loop     *)
(* takes one step per list operation and the interrupt may come between    *)
(* any two of them; the interrupt is never preempted by the main loop, so  *)
(* it takes one step per packet.  The main loop does not run while an      *)
(* interrupt is pending or in service.                                     *)
(*                                                                         *)
(* hci_send_req is only ever called with async = FALSE.                    *)
(***************************************************************************)
EXTENDS Integers, Sequences

CONSTANTS
  NumPackets,         (* HCI_READ_PACKET_NUM_MAX                             *)
  Opcodes,            (* commands the application may issue                  *)
  Waits,              (* kinds of event a request may wait for (r->event)    *)
  Unsolicited,        (* kinds of event the controller raises by itself      *)
  LineDropsOnSelect,  (* selecting the controller lowers its line for a while*)
  MaxEvents,          (* bound: events the controller ever raises            *)
  MaxRequests         (* bound: commands the application ever issues         *)

NoOp == "none"

ASSUME TransportAssumption ==
  /\ NumPackets \in Nat \ {0}
  /\ NoOp \notin Opcodes
  /\ Waits \subseteq {"complete", "status", "leMeta"}
  /\ Unsolicited \subseteq {"leMeta", "hwError", "vendor", "bad"}
  /\ LineDropsOnSelect \in BOOLEAN
  /\ MaxEvents \in Nat
  /\ MaxRequests \in Nat

Packets == 1..NumPackets
NoPacket == 0

(***************************************************************************)
(* An event of the controller.  kind "bad" stands for bytes verify_packet  *)
(* rejects, "vendor" for every event hci_send_req does not look into.  id  *)
(* numbers the events in the order they are raised and cmd the command an  *)
(* answer was raised for: neither is on the wire.                          *)
(***************************************************************************)
Event == [id : Nat, kind : {"complete", "status", "leMeta", "hwError", "vendor", "bad"},
          op : Opcodes \cup {NoOp}, ok : BOOLEAN, cmd : Nat]

NoEvent == [id |-> 0, kind |-> "bad", op |-> NoOp, ok |-> FALSE, cmd |-> 0]

(* A request: its opcode, the event its caller waits for, its number. *)
Request == [op : Opcodes, wait : Waits, n : Nat]

VARIABLES
  remote,        (* events queued in the controller, oldest first            *)
  commands,      (* commands the controller has accepted and not answered    *)
  pending,       (* the EXTI pending bit of the line                         *)
  inIsr,         (* hci_tl_lowlevel_isr is running                           *)
  pool,          (* hciReadPktPool                                           *)
  rxQueue,       (* hciReadPktRxQueue                                        *)
  tempQueue,     (* hciTempQueue of the hci_send_req in progress             *)
  content,       (* event held by each packet outside the pool               *)
  pc,            (* where the main loop is                                   *)
  hand,          (* hciReadPacket of the main loop                           *)
  req,           (* the requests in progress: at most one                    *)
  ret,           (* value hci_send_req returns                               *)
  handed,        (* the last event given to the application                  *)
  nEvents,       (* events raised so far                                     *)
  nRequests      (* requests issued so far                                   *)

controller == <<remote, commands, nEvents>>
lists == <<pool, rxQueue, tempQueue, content, hand>>
app == <<req, ret, handed, nRequests>>
vars == <<controller, pending, inIsr, lists, pc, app>>

LineHigh == remote # <<>>

Init ==
  /\ remote = <<>> /\ commands = <<>> /\ nEvents = 0
  /\ pending = FALSE /\ inIsr = FALSE
  /\ pool = [i \in Packets |-> i]
  /\ rxQueue = <<>> /\ tempQueue = <<>> /\ hand = NoPacket
  /\ content = [p \in Packets |-> NoEvent]
  /\ pc = "idle" /\ req = <<>> /\ ret = 0
  /\ handed = <<>> /\ nRequests = 0

-----------------------------------------------------------------------------
(* The controller, external to the repository. *)

Raise(kind, op, ok, cmd) ==
  /\ nEvents < MaxEvents
  /\ nEvents' = nEvents + 1
  /\ remote' = Append(remote, [id |-> nEvents + 1, kind |-> kind, op |-> op, ok |-> ok, cmd |-> cmd])
  /\ pending' = (pending \/ ~LineHigh)
  /\ UNCHANGED <<inIsr, lists, pc, app>>

Notify == \E kind \in Unsolicited : Raise(kind, NoOp, TRUE, 0) /\ UNCHANGED commands

(* A command is answered by COMMAND_COMPLETE or by COMMAND_STATUS, whichever *)
(* its kind calls for; any command may be refused by COMMAND_STATUS.         *)
Answer ==
  /\ commands # <<>>
  /\ commands' = Tail(commands)
  /\ LET c == Head(commands) IN
       \/ c.wait = "complete" /\ Raise("complete", c.op, TRUE, c.n)
       \/ c.wait # "complete" /\ Raise("status", c.op, TRUE, c.n)
       \/ Raise("status", c.op, FALSE, c.n)

-----------------------------------------------------------------------------
(* The interrupt: HAL_EXTI_IRQHandler and hci_tl_lowlevel_isr. *)

(* The pending bit is cleared before the handler runs. *)
IsrEnter ==
  /\ pending /\ ~inIsr
  /\ inIsr' = TRUE /\ pending' = FALSE
  /\ UNCHANGED <<controller, lists, pc, app>>

(* hci_notify_asynch_evt with a free packet: it is filled from the controller *)
(* and queued, or goes back to the pool when its bytes make no event.         *)
IsrReceive ==
  /\ inIsr /\ LineHigh /\ pool # <<>>
  /\ LET p == Head(pool)
         e == Head(remote)
     IN  IF e.kind = "bad"
         THEN UNCHANGED <<pool, rxQueue, content>>
         ELSE /\ pool' = Tail(pool)
              /\ rxQueue' = Append(rxQueue, p)
              /\ content' = [content EXCEPT ![p] = e]
  /\ remote' = Tail(remote)
  /\ pending' = (pending \/ (LineDropsOnSelect /\ Tail(remote) # <<>>))
  /\ UNCHANGED <<commands, nEvents, inIsr, tempQueue, hand, pc, app>>

(* Mutant: hci_tl_lowlevel_isr reads one packet only. *)
IsrReturn_If ==
  /\ inIsr
  /\ inIsr' = FALSE
  /\ UNCHANGED <<controller, pending, lists, pc, app>>

(* The loop ends when the line is low, or when no packet is free.  A handler *)
(* that ends on a high line is not called again before the line rises anew.  *)
IsrReturn ==
  /\ inIsr
  /\ LineHigh => pool = <<>>
  /\ inIsr' = FALSE
  /\ UNCHANGED <<controller, pending, lists, pc, app>>

Isr == IsrEnter \/ IsrReceive \/ IsrReturn

-----------------------------------------------------------------------------
(* hci_send_req, in the main loop. *)

MainRuns == ~pending /\ ~inIsr

SendReq(op, wait) ==
  /\ pc = "idle" /\ MainRuns
  /\ nRequests < MaxRequests
  /\ nRequests' = nRequests + 1
  /\ req' = <<[op |-> op, wait |-> wait, n |-> nRequests + 1]>>
  /\ pc' = "free"
  /\ UNCHANGED <<controller, pending, inIsr, lists, ret, handed>>

(* Mutant: the pool is filled up, whatever the receive queue holds. *)
FreeEventList_Full ==
  /\ pc = "free" /\ MainRuns
  /\ pc' = IF Len(pool) <= NumPackets THEN "freeTake" ELSE "send"
  /\ UNCHANGED <<controller, pending, inIsr, lists, app>>

(* free_event_list: while the pool is under half its size ... *)
FreeEventList ==
  /\ pc = "free" /\ MainRuns
  /\ pc' = IF Len(pool) < NumPackets \div 2 THEN "freeTake" ELSE "send"
  /\ UNCHANGED <<controller, pending, inIsr, lists, app>>

(* ... the oldest received packet is taken ... *)
FreeTake ==
  /\ pc = "freeTake" /\ MainRuns
  /\ hand' = Head(rxQueue) /\ rxQueue' = Tail(rxQueue)
  /\ pc' = "freePut"
  /\ UNCHANGED <<controller, pending, inIsr, pool, tempQueue, content, app>>

(* ... and freed. *)
FreePut ==
  /\ pc = "freePut" /\ MainRuns
  /\ pool' = Append(pool, hand) /\ hand' = NoPacket
  /\ content' = [content EXCEPT ![hand] = NoEvent]
  /\ pc' = "free"
  /\ UNCHANGED <<controller, pending, inIsr, rxQueue, tempQueue, app>>

(* send_cmd ignores the result of io.Send: the controller may not have got *)
(* the command, and the request waits all the same.                        *)
SendCmd ==
  /\ pc = "send" /\ MainRuns
  /\ commands' \in {commands, Append(commands, req[1])}
  /\ pending' = (LineDropsOnSelect /\ LineHigh)
  /\ pc' = "wait"
  /\ UNCHANGED <<remote, nEvents, inIsr, lists, app>>

(* Mutant: the timeout is tested after the queue. *)
Timeout_AfterQueue ==
  /\ pc = "wait" /\ MainRuns
  /\ rxQueue # <<>>
  /\ pc' = "failed"
  /\ UNCHANGED <<controller, pending, inIsr, lists, app>>

(* HCI_DEFAULT_TIMEOUT_MS without an event; tested before the queue is. *)
Timeout ==
  /\ pc = "wait" /\ MainRuns
  /\ pc' = "failed"
  /\ UNCHANGED <<controller, pending, inIsr, lists, app>>

(* What the switch of hci_send_req does with event e for request r. *)
Fails(e, r) ==
  \/ e.kind \in {"status", "complete"} /\ e.op # r.op
  \/ e.kind = "status" /\ r.wait # "status" /\ ~e.ok
  \/ e.kind = "hwError"

(* Mutant: the default case ends the request. *)
Completes_Default(e, r) == e.kind # "status" \/ r.wait = "status"

Completes(e, r) ==
  \/ e.kind = "status" /\ e.op = r.op /\ r.wait = "status"
  \/ e.kind = "complete" /\ e.op = r.op
  \/ e.kind = "leMeta" /\ r.wait = "leMeta"

TakeEvent ==
  /\ pc = "wait" /\ MainRuns
  /\ rxQueue # <<>>
  /\ hand' = Head(rxQueue) /\ rxQueue' = Tail(rxQueue)
  /\ pc' = LET e == content[Head(rxQueue)] IN
           IF Fails(e, req[1]) THEN "failed"
           ELSE IF Completes(e, req[1]) THEN "done" ELSE "park"
  /\ UNCHANGED <<controller, pending, inIsr, pool, tempQueue, content, app>>

(* Mutant: hciReadPacket is not reset. *)
Park_KeepsHand ==
  /\ pc = "park" /\ MainRuns
  /\ tempQueue' = Append(tempQueue, hand)
  /\ pc' = "wait"
  /\ UNCHANGED <<controller, pending, inIsr, pool, content, hand, rxQueue, app>>

(* Mutant: the event goes straight back into the queue it came from. *)
Park_Requeues ==
  /\ pc = "park" /\ MainRuns
  /\ rxQueue' = Append(rxQueue, hand)
  /\ hand' = NoPacket
  /\ pc' = "wait"
  /\ UNCHANGED <<controller, pending, inIsr, pool, tempQueue, content, app>>

(* An event of somebody else waits in the temporary queue, unless it holds   *)
(* the last free packet: then it is discarded to make room for the answer.   *)
(* The two tests and the insertion are one step: with the pool empty the     *)
(* interrupt changes neither list, with a free packet the outcome is settled. *)
Park ==
  /\ pc = "park" /\ MainRuns
  /\ IF pool = <<>> /\ rxQueue = <<>>
     THEN /\ pool' = Append(pool, hand)
          /\ content' = [content EXCEPT ![hand] = NoEvent]
          /\ UNCHANGED tempQueue
     ELSE /\ tempQueue' = Append(tempQueue, hand)
          /\ UNCHANGED <<pool, content>>
  /\ hand' = NoPacket
  /\ pc' = "wait"
  /\ UNCHANGED <<controller, pending, inIsr, rxQueue, app>>

(* Mutant: the label failed does not test for a packet in hand. *)
Release_NoTest ==
  /\ pc \in {"done", "failed"} /\ MainRuns
  /\ pool' = <<hand>> \o pool
  /\ hand' = NoPacket
  /\ ret' = IF pc = "done" THEN 0 ELSE -1
  /\ pc' = "move"
  /\ UNCHANGED <<controller, pending, inIsr, content, rxQueue, tempQueue, req, handed, nRequests>>

(* The labels done and failed: the packet in hand, if any, goes to the head *)
(* of the pool.                                                             *)
Release ==
  /\ pc \in {"done", "failed"} /\ MainRuns
  /\ IF hand = NoPacket
     THEN UNCHANGED <<pool, content>>
     ELSE /\ pool' = <<hand>> \o pool
          /\ content' = [content EXCEPT ![hand] = NoEvent]
  /\ hand' = NoPacket
  /\ ret' = IF pc = "done" THEN 0 ELSE -1
  /\ pc' = "move"
  /\ UNCHANGED <<controller, pending, inIsr, rxQueue, tempQueue, req, handed, nRequests>>

(* move_list: the tail of the temporary queue becomes the head of the other. *)
MoveList ==
  /\ pc = "move" /\ MainRuns
  /\ tempQueue # <<>>
  /\ rxQueue' = <<tempQueue[Len(tempQueue)]>> \o rxQueue
  /\ tempQueue' = SubSeq(tempQueue, 1, Len(tempQueue) - 1)
  /\ UNCHANGED <<controller, pending, inIsr, pool, content, hand, pc, app>>

(* Mutant: hci_send_req returns without move_list. *)
Return_NoMove ==
  /\ pc = "move" /\ MainRuns
  /\ req' = <<>>
  /\ pc' = "idle"
  /\ UNCHANGED <<controller, pending, inIsr, lists, ret, handed, nRequests>>

Return ==
  /\ pc = "move" /\ MainRuns
  /\ tempQueue = <<>>
  /\ req' = <<>>
  /\ pc' = "idle"
  /\ UNCHANGED <<controller, pending, inIsr, lists, ret, handed, nRequests>>

-----------------------------------------------------------------------------
(* hci_user_evt_proc, in the main loop. *)

UserEvtProc ==
  /\ pc = "idle" /\ MainRuns
  /\ pc' = "proc"
  /\ UNCHANGED <<controller, pending, inIsr, lists, app>>

(* The oldest event goes to Robot_ParseCommand and to UserEvtRx, ... *)
Deliver ==
  /\ pc = "proc" /\ MainRuns
  /\ rxQueue # <<>>
  /\ hand' = Head(rxQueue) /\ rxQueue' = Tail(rxQueue)
  /\ handed' = <<content[Head(rxQueue)]>>
  /\ pc' = "put"
  /\ UNCHANGED <<controller, pending, inIsr, pool, tempQueue, content, req, ret, nRequests>>

(* ... and its packet to the tail of the pool. *)
PutBack ==
  /\ pc = "put" /\ MainRuns
  /\ pool' = Append(pool, hand) /\ hand' = NoPacket
  /\ content' = [content EXCEPT ![hand] = NoEvent]
  /\ pc' = "proc"
  /\ UNCHANGED <<controller, pending, inIsr, rxQueue, tempQueue, app>>

ProcEnd ==
  /\ pc = "proc" /\ MainRuns
  /\ rxQueue = <<>>
  /\ pc' = "idle"
  /\ UNCHANGED <<controller, pending, inIsr, lists, app>>

HciSendReq ==
  \/ \E op \in Opcodes, wait \in Waits : SendReq(op, wait)
  \/ FreeEventList \/ FreeTake \/ FreePut
  \/ SendCmd \/ Timeout \/ TakeEvent \/ Park
  \/ Release \/ MoveList \/ Return

HciUserEvtProc == UserEvtProc \/ Deliver \/ PutBack \/ ProcEnd

Main == HciSendReq \/ HciUserEvtProc

-----------------------------------------------------------------------------
Next == Notify \/ Answer \/ Isr \/ Main

(* The interrupt and the main loop run for ever; the controller owes nothing. *)
Fairness == WF_vars(Isr) /\ WF_vars(Main)

Spec == Init /\ [][Next]_vars /\ Fairness
-----------------------------------------------------------------------------
(* Properties. *)

\* Every variable holds a value the firmware could hold in it: queues of
\* packets, a program counter of hci_send_req or hci_user_evt_proc.
TypeOK ==
  /\ remote \in Seq(Event)
  /\ commands \in Seq(Request)
  /\ pending \in BOOLEAN /\ inIsr \in BOOLEAN
  /\ pool \in Seq(Packets) /\ rxQueue \in Seq(Packets) /\ tempQueue \in Seq(Packets)
  /\ content \in [Packets -> Event]
  /\ hand \in Packets \cup {NoPacket}
  /\ pc \in {"idle", "free", "freeTake", "freePut", "send", "wait", "park",
             "done", "failed", "move", "proc", "put"}
  /\ req \in Seq(Request) /\ Len(req) <= 1
  /\ ret \in {0, -1}
  /\ handed \in Seq(Event) /\ Len(handed) <= 1
  /\ nEvents \in Nat /\ nRequests \in Nat

Held(s) == {s[i] : i \in 1..Len(s)}
Distinct(s) == \A i, j \in 1..Len(s) : s[i] = s[j] => i = j
InMain == {hand} \ {NoPacket}

\* Each packet of hciReadPacketBuffer is in exactly one place - the pool, the
\* receive queue, the temporary queue or the main loop's hand - whatever the
\* interrupt does between two list operations.  A packet in two places would
\* be filled by the interrupt while it is being read; one in none is lost.
PacketsConserved ==
  /\ Distinct(pool) /\ Distinct(rxQueue) /\ Distinct(tempQueue)
  /\ Packets = Held(pool) \cup Held(rxQueue) \cup Held(tempQueue) \cup InMain
  /\ Held(pool) \cap Held(rxQueue) = {}
  /\ Held(tempQueue) \cap (Held(pool) \cup Held(rxQueue)) = {}
  /\ InMain \cap (Held(pool) \cup Held(rxQueue) \cup Held(tempQueue)) = {}

\* free_event_list takes the head of the receive queue without asking whether
\* there is one: list_remove_head of an empty list unlinks the list itself.
NeverTakesFromEmptyQueue == pc = "freeTake" => rxQueue # <<>>

\* hciTempQueue and the packet in hand are locals of hci_send_req: a packet
\* they still hold when it returns is gone for ever.
NothingLeftBehind == pc = "idle" => tempQueue = <<>> /\ hand = NoPacket

\* The interrupt can stop listening (line high, no edge latched, handler not
\* running) only in the step in which the handler found the pool empty.  In
\* particular no edge is lost between the last look at the line and the return.
Deaf == LineHigh /\ ~pending /\ ~inIsr
DeafOnlyWhenPoolEmpty == [][Deaf' /\ ~Deaf => pool = <<>>]_vars

Local(s) == [i \in 1..Len(s) |-> content[s[i]]]

InHand ==
  IF pc \in {"park", "done", "failed"} /\ hand # NoPacket THEN <<hand>> ELSE <<>>

IsCorrupt(e) == e.kind = "bad"
IsResponse(e) == e.kind \in {"complete", "status", "hwError"} \cup (Waits \cap {"leMeta"})

\* The transport is an in-order channel: the application sees the events in
\* the order the controller raised them, each at most once, and none goes
\* missing but the answers hci_send_req consumes, the ones mangled on the wire
\* and, when more than half the packets are taken, the ones discarded.
Channel == INSTANCE EventChannel WITH
  Events   <- Event,
  Capacity <- NumPackets,
  Slack    <- NumPackets - NumPackets \div 2,
  Corrupt  <- IsCorrupt,
  Response <- IsResponse,
  remote   <- remote,
  local    <- Local(tempQueue \o InHand \o rxQueue),
  handed   <- handed

ChannelSpec == Channel!Spec

\* A request comes to an end: hci_send_req returns whether or not the
\* controller got the command, answers it, or answers something else.
RequestReturns == (req # <<>>) ~> (req = <<>>)

\* Every packet taken from the pool gets back to it.
PacketsReturn == \A p \in Packets : [](p \notin Held(pool) => <>(p \in Held(pool)))

-----------------------------------------------------------------------------
(* What the comments of hci_tl.c say and the code does not do. *)

\* hci_tl.c:298, "be sure there is at list one packet in the pool to process
\* the expected event": while a request waits, a packet in the pool means that
\* the answer in the controller gets read.
ExpectedEventIsRead ==
  (pc = "wait" /\ pool # <<>> /\ \E i \in DOMAIN remote : remote[i].cmd = nRequests)
    ~> ~ \E i \in DOMAIN remote : remote[i].cmd = nRequests

\* hci_tl.h:133, "0 when success": the event that completes a request answers
\* the command this request sent.
SuccessIsAnswered == pc = "done" => content[hand].cmd = req[1].n
=============================================================================
