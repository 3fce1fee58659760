------------------------------- MODULE HciSpi -------------------------------
(***************************************************************************)
(* The SPI bus between the processor and the BlueNRG controller:           *)
(* HCI_TL_SPI_Send, run by the main loop, and HCI_TL_SPI_Receive, run by   *)
(* the interrupt of the controller's line.                                 *)
(*                                                                         *)
(* A transaction selects the controller, exchanges a header and, if the    *)
(* controller is ready, the data.  Nothing masks the interrupt while the   *)
(* main loop is in a transaction.  The two do not meet with a controller   *)
(* that keeps its line low while it is selected; with one that does not    *)
(* (raises) they do, and the lock of the HAL's SPI handle refuses the      *)
(* handler's transfer inside another.                                      *)
(*                                                                         *)
(* The main loop takes one step per pin it drives and two per transfer;    *)
(* it is frozen while the interrupt runs, so Receive is one step.          *)
(* HciTransport has the whole of Send as its step SendCmd.                 *)
(***************************************************************************)
EXTENDS Integers, Sequences

CONSTANTS
  MaxEvents,            (* bound: events the controller ever raises         *)
  MaxSends              (* bound: commands ever sent                        *)

ASSUME SpiAssumption == MaxEvents \in Nat /\ MaxSends \in Nat

VARIABLES
  raises,     (* the controller may raise its line while it is selected      *)
  events,     (* events in the controller, by number, oldest first           *)
  written,    (* commands the controller got whole, by number                *)
  slave,      (* what the controller makes of the bytes it is clocked:       *)
              (* "off", "header", "command", or "nothing" until deselected   *)
  received,   (* events the host has read; Garbage is none of them           *)
  pending,    (* the EXTI pending bit                                        *)
  inIsr,      (* hci_tl_lowlevel_isr is running                              *)
  lock,       (* hspi1 is locked: the main loop is inside a transfer         *)
  pc,         (* where the main loop is in HCI_TL_SPI_Send                   *)
  result,     (* result of HCI_TL_SPI_Send                                   *)
  late,       (* more than TIMEOUT_DURATION has passed since it was called   *)
  crossed,    (* commands whose transaction the interrupt's came into        *)
  nSends, nEvents

chip == <<raises, events, written, slave, nEvents>>
main == <<lock, pc, result, late, nSends>>
vars == <<chip, received, pending, inIsr, main, crossed>>

Garbage == 0

Replies == {"busy", "small", "ready"}

(* The chip select line is low. *)
Selected == slave # "off"

High(evts, sel) == evts # <<>> /\ (raises \/ ~sel)

LineHigh == High(events, Selected)

Init ==
  /\ raises \in BOOLEAN
  /\ events = <<>> /\ written = <<>> /\ slave = "off" /\ nEvents = 0
  /\ received = <<>>
  /\ pending = FALSE /\ inIsr = FALSE
  /\ lock = FALSE /\ pc = "idle" /\ result = 0 /\ late = FALSE /\ nSends = 0
  /\ crossed = {}

-----------------------------------------------------------------------------
(* The controller, external to the repository. *)

RaiseEvent ==
  /\ nEvents < MaxEvents
  /\ nEvents' = nEvents + 1
  /\ events' = Append(events, nEvents + 1)
  /\ pending' = (pending \/ (~LineHigh /\ High(events', Selected)))
  /\ UNCHANGED <<raises, written, slave, received, inIsr, main, crossed>>

(* SysTick, of the lowest priority, counts while no interrupt is served. *)
Tick ==
  /\ ~inIsr
  /\ late' = TRUE
  /\ UNCHANGED <<chip, received, pending, inIsr, lock, pc, result, nSends,
                 crossed>>

-----------------------------------------------------------------------------
(* HCI_TL_SPI_Send. *)

MainRuns == ~pending /\ ~inIsr

Send ==
  /\ pc = "idle" /\ MainRuns
  /\ nSends < MaxSends
  /\ nSends' = nSends + 1
  /\ late' = FALSE
  /\ pc' = "select"
  /\ UNCHANGED <<chip, received, pending, inIsr, lock, result, crossed>>

Select ==
  /\ pc = "select" /\ MainRuns
  /\ result' = 0
  /\ slave' = "header"
  /\ pc' = "header"
  /\ UNCHANGED <<raises, events, written, nEvents, received, pending, inIsr,
                 lock, late, nSends, crossed>>

(* HAL_SPI_TransmitReceive locks the handle, ... *)
Transfer ==
  /\ pc \in {"header", "body"} /\ MainRuns
  /\ lock' = TRUE
  /\ pc' = IF pc = "header" THEN "headerEnd" ELSE "bodyEnd"
  /\ UNCHANGED <<chip, received, pending, inIsr, result, late, nSends,
                 crossed>>

ResultOf(reply) ==
  CASE reply = "busy"  -> -1
    [] reply = "small" -> -2
    [] reply = "ready" -> 0

(* Mutant: HAL_SPI_TransmitReceive returns an error with the handle locked. *)
HeaderEnd_KeepsLock ==
  /\ pc = "headerEnd" /\ MainRuns
  /\ \E reply \in Replies :
       /\ lock' = (reply = "busy")
       /\ slave' = IF slave # "header" THEN slave
                   ELSE IF reply = "ready" THEN "command" ELSE "nothing"
       /\ result' = ResultOf(reply)
       /\ pc' = IF reply = "ready" THEN "body" ELSE "release"
  /\ UNCHANGED <<raises, events, written, nEvents, received, pending, inIsr,
                 late, nSends, crossed>>

(* Mutant: the space in the controller is not compared with the size. *)
HeaderEnd_NoSpace ==
  /\ pc = "headerEnd" /\ MainRuns
  /\ lock' = FALSE
  /\ \E reply \in Replies :
       /\ slave' = IF slave # "header" THEN slave
                   ELSE IF reply = "ready" THEN "command" ELSE "nothing"
       /\ result' = IF reply = "busy" THEN -1 ELSE 0
       /\ pc' = IF reply # "busy" THEN "body" ELSE "release"
  /\ UNCHANGED <<raises, events, written, nEvents, received, pending, inIsr,
                 late, nSends, crossed>>

(* ... and unlocks it after the last byte.  The reply says whether the       *)
(* controller is ready and has room; once the interrupt has deselected the   *)
(* controller, nobody drives the line it is read from and it may say either. *)
HeaderEnd ==
  /\ pc = "headerEnd" /\ MainRuns
  /\ lock' = FALSE
  /\ \E reply \in Replies :
       /\ slave' = IF slave # "header" THEN slave
                   ELSE IF reply = "ready" THEN "command" ELSE "nothing"
       /\ result' = ResultOf(reply)
       /\ pc' = IF reply = "ready" THEN "body" ELSE "release"
  /\ UNCHANGED <<raises, events, written, nEvents, received, pending, inIsr,
                 late, nSends, crossed>>

(* The result of this transfer is not looked at. *)
BodyEnd ==
  /\ pc = "bodyEnd" /\ MainRuns
  /\ lock' = FALSE
  /\ IF slave = "command"
     THEN written' = Append(written, nSends) /\ slave' = "nothing"
     ELSE UNCHANGED <<written, slave>>
  /\ pc' = "release"
  /\ UNCHANGED <<raises, events, nEvents, received, pending, inIsr, result,
                 late, nSends, crossed>>

(* Mutant: the chip select is released only when the command was sent. *)
Release_OnSuccess ==
  /\ pc = "release" /\ MainRuns
  /\ slave' = IF result = 0 THEN "off" ELSE slave
  /\ pending' = (~LineHigh /\ High(events, slave' # "off"))
  /\ pc' = "test"
  /\ UNCHANGED <<raises, events, written, nEvents, received, inIsr, lock,
                 result, late, nSends, crossed>>

(* A line held low while the controller was selected may rise now. *)
Release ==
  /\ pc = "release" /\ MainRuns
  /\ slave' = "off"
  /\ pending' = (~LineHigh /\ High(events, FALSE))
  /\ pc' = "test"
  /\ UNCHANGED <<raises, events, written, nEvents, received, inIsr, lock,
                 result, late, nSends, crossed>>

(* Mutant: the time is not tested. *)
Test_Forever ==
  /\ pc = "test" /\ MainRuns
  /\ UNCHANGED result
  /\ pc' = IF result < 0 THEN "select" ELSE "idle"
  /\ UNCHANGED <<chip, received, pending, inIsr, lock, late, nSends, crossed>>

(* Mutant: the loop repeats until it is late. *)
Test_Again ==
  /\ pc = "test" /\ MainRuns
  /\ result' = IF late THEN -3 ELSE result
  /\ pc' = IF ~late THEN "select" ELSE "idle"
  /\ UNCHANGED <<chip, received, pending, inIsr, lock, late, nSends, crossed>>

(* The transaction is repeated until it succeeds or it is late; a success *)
(* that comes late is reported as a failure.                              *)
Test ==
  /\ pc = "test" /\ MainRuns
  /\ result' = IF late THEN -3 ELSE result
  /\ pc' = IF ~late /\ result < 0 THEN "select" ELSE "idle"
  /\ UNCHANGED <<chip, received, pending, inIsr, lock, late, nSends, crossed>>

-----------------------------------------------------------------------------
(* hci_tl_lowlevel_isr and HCI_TL_SPI_Receive. *)

IsrEnter ==
  /\ pending /\ ~inIsr
  /\ pending' = FALSE /\ inIsr' = TRUE
  /\ UNCHANGED <<chip, received, main, crossed>>

(* The header goes to a controller that expects one. *)
Reads == ~lock /\ slave \in {"off", "header"}

(* The main loop has the controller selected. *)
InTransaction == pc \in {"header", "headerEnd", "body", "bodyEnd", "release"}

(* Otherwise header_slave is read uninitialised, the transfer being refused, *)
(* or holds what the controller clocks out during a command: the bytes read  *)
(* may be taken for an event (at most MaxEvents times: a bound).  Either way *)
(* the chip select goes high.                                                *)
Receive ==
  /\ inIsr /\ LineHigh
  /\ IF Reads
     THEN received' = Append(received, Head(events)) /\ events' = Tail(events)
     ELSE /\ \/ UNCHANGED received
             \/ Len(received) < MaxEvents /\ received' = Append(received, Garbage)
          /\ UNCHANGED events
  /\ slave' = "off"
  /\ pending' = (pending \/ (~raises /\ events' # <<>>))
  /\ crossed' = IF InTransaction THEN crossed \cup {nSends} ELSE crossed
  /\ UNCHANGED <<raises, written, nEvents, inIsr, main>>

(* The handler returns when the line is low, or with the line high when      *)
(* hci_notify_asynch_evt has no free packet, which may be at any time here.  *)
IsrReturn ==
  /\ inIsr
  /\ inIsr' = FALSE
  /\ UNCHANGED <<chip, received, pending, main, crossed>>

-----------------------------------------------------------------------------
Isr == IsrEnter \/ Receive \/ IsrReturn

Sending == Select \/ Transfer \/ HeaderEnd \/ BodyEnd \/ Release \/ Test

Next == RaiseEvent \/ Tick \/ Send \/ Sending \/ Isr

(* The processor runs and takes its interrupts.  A SysTick that comes while  *)
(* the handler runs is served when it returns: strong for Tick.              *)
Fairness == WF_vars(Sending) /\ WF_vars(Isr) /\ SF_vars(Tick)

Spec == Init /\ [][Next]_vars /\ Fairness

-----------------------------------------------------------------------------
(* Properties. *)

\* The variables have their types; no event has the number of Garbage.
TypeOK ==
  /\ raises \in BOOLEAN
  /\ events \in Seq(Nat \ {Garbage}) /\ written \in Seq(Nat) /\ received \in Seq(Nat)
  /\ slave \in {"off", "header", "command", "nothing"}
  /\ pending \in BOOLEAN /\ inIsr \in BOOLEAN /\ lock \in BOOLEAN /\ late \in BOOLEAN
  /\ pc \in {"idle", "select", "header", "headerEnd", "body", "bodyEnd", "release", "test"}
  /\ result \in {0, -1, -2, -3}
  /\ nSends \in Nat /\ nEvents \in Nat /\ crossed \subseteq Nat

\* A command for which Send returns 0 is in the controller (hci_tl_interface.c
\* :162, "Writes data from local buffer to SPI"), unless the interrupt's
\* transaction came into the one of that very command.
SentIsWritten ==
  pc = "idle" /\ nSends > 0 /\ result = 0 =>
    (written # <<>> /\ written[Len(written)] = nSends) \/ nSends \in crossed

\* However often Send repeats its transaction, and whatever the interrupt does
\* to one, the controller gets a command at most once, and commands in the order
\* they were sent.
WrittenOnce == \A i, j \in DOMAIN written : i < j => written[i] < written[j]

\* The interrupt reads every event once and in order, inside a transaction of the
\* main loop or between two, and none is lost on the way; it takes stray bytes
\* for an event only if it came into a transaction.
EventsWhole ==
  LET nRead == nEvents - Len(events) IN
    /\ \A i \in DOMAIN events : events[i] = nRead + i
    /\ \A n \in 1..nRead : \E i \in DOMAIN received : received[i] = n
    /\ \A i \in DOMAIN received : received[i] <= nRead
    /\ \A i, j \in DOMAIN received :
         i < j /\ received[j] # Garbage => received[i] < received[j]
    /\ crossed = {} => \A i \in DOMAIN received : received[i] # Garbage

(* The handler finds the handle locked by the transfer it interrupted, and   *)
(* asks again and again.                                                     *)
Stuck == inIsr /\ lock /\ LineHigh

(* The handler has given up, and no edge will call it. *)
Deaf == LineHigh /\ ~inIsr /\ ~pending

\* Send returns, whether or not the controller ever gets ready and whatever its
\* transaction is crossed by, unless the handler is stuck in one of its transfers.
SendReturns == (pc # "idle") ~> (pc = "idle" \/ Stuck)

\* Every event is read in the end, unless the handler is deaf or stuck: the
\* release of the chip select calls it again after each transaction.
EventsAreRead == \A n \in 1..MaxEvents :
  (\E i \in DOMAIN events : events[i] = n)
    ~> ((\E i \in DOMAIN received : received[i] = n) \/ Deaf \/ Stuck)
=============================================================================
