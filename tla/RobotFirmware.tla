---------------------------- MODULE RobotFirmware ----------------------------
(***************************************************************************)
(* The firmware of the robot as a whole: SampleService over the event      *)
(* channel that HciTransport implements.                                   *)
(*                                                                         *)
(* SampleService alone sees every event of the controller.  Here an event  *)
(* waits in the controller (remote) until the interrupt handler reads it   *)
(* into one of the packets (local), and                                    *)
(*   - a handler that finds no free packet while the line is high returns, *)
(*     and is not called again before the line rises anew (listening);     *)
(*   - a request of the main loop discards events to make room for its     *)
(*     answer.                                                             *)
(* The main loop is one of the two actors of SampleService, the controller *)
(* with the peer the other: each is the same module over another queue.    *)
(* Whole is SampleService over both queues, as it sees them by itself.     *)
(***************************************************************************)
EXTENDS Naturals, Sequences

CONSTANTS
  NumPackets,         (* HCI_READ_PACKET_NUM_MAX                             *)
  LineDropsOnSelect,  (* selecting the controller lowers its line for a while *)
  MaxFailures,        (* bound: requests that fail                           *)
  MaxLinks,           (* bound: connections the peers make                   *)
  MaxEvents           (* bound: events the controller holds                  *)

ASSUME FirmwareAssumption ==
  /\ NumPackets \in Nat \ {0, 1}
  /\ LineDropsOnSelect \in BOOLEAN
  /\ MaxFailures \in Nat /\ MaxLinks \in Nat /\ MaxEvents \in Nat

VARIABLES
  BLE_Role, connected, set_connectable, notification_enabled, start_read, end_read, handle,
  user_button_pressed, user_button_init_state, key, moving, pc, open, link, procedure, nLinks,
  nFailures,    (* SampleService                                             *)
  remote,       (* events in the controller                                  *)
  local,        (* events in the packets of the host                         *)
  handed,       (* the event user_notify was last given                      *)
  listening,    (* a rising edge will call, or has called, the handler       *)
  commanded,    (* the last command of the peer that is connected            *)
  discarded     (* an event has been discarded                               *)

queues == <<remote, local, handed>>
ghosts == <<commanded, discarded>>
robot == <<BLE_Role, connected, set_connectable, notification_enabled, start_read, end_read,
           handle, user_button_pressed, user_button_init_state, key, moving, pc, open, link,
           procedure, nLinks, nFailures>>
vars == <<robot, queues, listening, ghosts>>

Roles == {"SERVER"}

Undelivered == local \o remote

Host == INSTANCE SampleService WITH events <- local
Controller == INSTANCE SampleService WITH events <- remote
Whole == INSTANCE SampleService WITH
  events <- Undelivered, MaxEvents <- NumPackets + MaxEvents

Mangled(e) == FALSE
Answers(e) == FALSE

Channel == INSTANCE EventChannel WITH
  Events   <- Host!EventKinds,
  Capacity <- NumPackets,
  Slack    <- NumPackets - NumPackets \div 2,
  Corrupt  <- Mangled,
  Response <- Answers

Init ==
  /\ Host!Init
  /\ Channel!Init
  /\ listening = TRUE
  /\ commanded = "stop" /\ discarded = FALSE

-----------------------------------------------------------------------------
(* The controller and the peer. *)

Raised == IF remote' = remote THEN "nothing" ELSE remote'[Len(remote')]

ControllerStep ==
  /\ Controller!Controller
  /\ commanded' = IF Raised \in {"move", "stop"} THEN Raised
                  ELSE IF Raised = "disconnected" THEN "stop" ELSE commanded
  /\ UNCHANGED <<local, handed, listening, discarded>>

-----------------------------------------------------------------------------
(* The interrupt of the line. *)

(* Mutant: the handler does not look for a free packet. *)
IsrRead_Unchecked ==
  /\ listening /\ remote # <<>>
  /\ local' = Append(local, Head(remote)) /\ remote' = Tail(remote)
  /\ UNCHANGED <<robot, handed, listening, ghosts>>

(* Mutant: a new event goes to the head of the queue. *)
IsrRead_Head ==
  /\ listening /\ remote # <<>> /\ Len(local) < NumPackets
  /\ local' = <<Head(remote)>> \o local /\ remote' = Tail(remote)
  /\ UNCHANGED <<robot, handed, listening, ghosts>>

IsrRead ==
  /\ listening
  /\ Channel!Read
  /\ UNCHANGED <<robot, listening, ghosts>>

IsrGivesUp ==
  /\ listening /\ remote # <<>>
  /\ Len(local) = NumPackets
  /\ listening' = FALSE
  /\ UNCHANGED <<robot, queues, ghosts>>

Isr == IsrRead \/ IsrGivesUp

-----------------------------------------------------------------------------
(* The main loop: it runs when the handler has nothing to do. *)

MainRuns == ~listening \/ remote = <<>>

(* hci_send_req is at work for Make_Connection or sendData; from connecting *)
(* on it waits for its last answer, the controller has acted.                *)
Sending == pc = "send" \/ (pc = "connect" /\ set_connectable)
Awaiting == Sending \/ pc = "connecting"

UserProcess ==
  /\ MainRuns
  /\ Host!UserProcess \/ Host!EventsDone
  /\ UNCHANGED <<queues, listening, ghosts>>

UserEvtProc ==
  /\ MainRuns
  /\ Host!UserEvtRx
  /\ Channel!Deliver
  /\ UNCHANGED <<listening, ghosts>>

(* Room for the answer: free_event_list makes it before the command is sent, *)
(* the loop of hci_send_req while it waits.                                   *)
Discard ==
  /\ MainRuns
  /\ \/ Sending /\ Channel!DiscardOldest
     \/ Awaiting /\ Channel!DiscardNewest
  /\ discarded' = TRUE
  /\ UNCHANGED <<robot, listening, commanded>>

(* The command is sent: the line may drop and rise again. *)
Select ==
  /\ MainRuns /\ Sending
  /\ LineDropsOnSelect /\ ~listening
  /\ listening' = TRUE
  /\ UNCHANGED <<robot, queues, ghosts>>

Main == UserProcess \/ UserEvtProc \/ Discard \/ Select

Press ==
  /\ Host!Press
  /\ UNCHANGED <<queues, listening, ghosts>>

Release ==
  /\ Host!BSP_PB_Callback
  /\ UNCHANGED <<queues, listening, ghosts>>

Next == ControllerStep \/ Isr \/ Main \/ Press \/ Release

(* As in SampleService: the processor takes its interrupts and runs its loop, *)
(* a user who holds the button releases it.                                   *)
Fairness ==
  /\ WF_vars(Isr)
  /\ WF_vars(UserProcess \/ UserEvtProc) /\ SF_vars(UserProcess /\ pc = "button")
  /\ WF_vars(Release)

Spec == Init /\ [][Next]_vars /\ Fairness

-----------------------------------------------------------------------------
(* Properties. *)

\* The queues hold events of the service and the host no more than it has
\* packets.
TypeOK ==
  /\ remote \in Seq(Host!EventKinds)
  /\ local \in Seq(Host!EventKinds) /\ Len(local) <= NumPackets
  /\ listening \in BOOLEAN /\ discarded \in BOOLEAN
  /\ commanded \in {"move", "stop"}

\* The robot does what the peer told it last, and stands still for a peer that
\* is gone, once the events have been delivered and unless one was discarded.
LastCommandIsObeyed ==
  Undelivered = <<>> /\ ~discarded => moving = (commanded = "move")

\* The host knows its peer, or will: while the controller has a link, the report
\* of it has been handled or is on its way, though the requests of the main loop
\* discard the oldest event or the newest.
PeerIsKnown == link => connected \/ Whole!Pending("connected")

\* SampleService may take the transport for a queue that loses nothing: as long
\* as the handler is called and no event is discarded, what the firmware does
\* is a step of SampleService over the events of the host and the controller.
ServiceWhileHeard ==
  [][listening /\ ~discarded' => [Whole!Next]_Whole!vars]_vars

\* The robot of a lost peer stops, unless the report of the loss was discarded
\* or stays in the controller, whose interrupt has gone deaf, or the main loop waits
\* for the button to be pressed.
StopsWhenLost ==
  ~link ~> (link \/ ~moving \/ discarded \/ ~listening \/ Host!AwaitsPress)

=============================================================================
