---------------------------- MODULE EventChannel ----------------------------
(***************************************************************************)
(* What the BlueNRG transport (hci_tl.c with the interrupt handler of      *)
(* hci_tl_interface.c) promises about the events of the controller: an     *)
(* in-order channel of bounded capacity.  Events wait in the controller    *)
(* (remote), are read in order into the host (local), and the application  *)
(* is handed the oldest local event.  An event may leave the channel       *)
(* without reaching the application in three ways only:                    *)
(*   - it was corrupted on the wire;                                       *)
(*   - it belongs to the command in progress;                              *)
(*   - the host holds more than Slack events and it is the oldest, or the  *)
(*     host is full and it is the newest.                                  *)
(***************************************************************************)
EXTENDS Naturals, Sequences

CONSTANTS
  Events,       (* every event the controller may raise                     *)
  Corrupt(_),   (* the event arrives mangled                                *)
  Response(_),  (* the event is of a kind a command in progress may consume *)
  Capacity,     (* events the host can hold                                 *)
  Slack         (* no event is discarded while the host holds this many     *)

VARIABLES
  remote,       (* events in the controller, oldest first                   *)
  local,        (* events in the host that the application has not seen     *)
  handed        (* <<>>, or the last event the application was handed       *)

vars == <<remote, local, handed>>

Without(s, i) == SubSeq(s, 1, i - 1) \o SubSeq(s, i + 1, Len(s))

Init == remote = <<>> /\ local = <<>> /\ handed = <<>>

(* The event raised is the one remote' ends with. *)
Raise ==
  /\ remote' # <<>>
  /\ LET e == remote'[Len(remote')] IN e \in Events /\ remote' = Append(remote, e)
  /\ UNCHANGED <<local, handed>>

Read ==
  /\ remote # <<>>
  /\ ~ Corrupt(Head(remote))
  /\ Len(local) < Capacity
  /\ local' = Append(local, Head(remote))
  /\ remote' = Tail(remote)
  /\ UNCHANGED handed

Reject ==
  /\ remote # <<>>
  /\ Corrupt(Head(remote))
  /\ remote' = Tail(remote)
  /\ UNCHANGED <<local, handed>>

Deliver ==
  /\ local # <<>>
  /\ handed' = <<Head(local)>>
  /\ local' = Tail(local)
  /\ UNCHANGED remote

Consume(i) ==
  /\ Response(local[i])
  /\ local' = Without(local, i)
  /\ UNCHANGED <<remote, handed>>

(* Room made for the answer of a command: the oldest events go first, ... *)
DiscardOldest ==
  /\ Len(local) > Slack
  /\ local' = Tail(local)
  /\ UNCHANGED <<remote, handed>>

(* ... or the newest, when the host is full. *)
DiscardNewest ==
  /\ Len(local) = Capacity
  /\ local' = SubSeq(local, 1, Len(local) - 1)
  /\ UNCHANGED <<remote, handed>>

Next ==
  \/ Raise
  \/ Read
  \/ Reject
  \/ Deliver
  \/ \E i \in 1..Len(local) : Consume(i)
  \/ DiscardOldest
  \/ DiscardNewest

Spec == Init /\ [][Next]_vars
=============================================================================
