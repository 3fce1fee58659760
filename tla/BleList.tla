------------------------------- MODULE BleList -------------------------------
(***************************************************************************)
(* The circular doubly linked lists of ble_list.c, pointer by pointer.     *)
(*                                                                         *)
(* HciTransport treats a list as a sequence and an operation on it as one  *)
(* step.  This module shows why it may: every function masks the           *)
(* interrupts from before its first access to after its last one, and what *)
(* the pointers say whenever they are not masked is a sequence.  The main  *)
(* loop takes one step per pointer it writes; the interrupt runs whole, at *)
(* any point where PRIMASK is clear.                                       *)
(*                                                                         *)
(* lists is what the pointers stand for.  It is changed, as HciTransport   *)
(* changes its queues, in the step that ends a function.                   *)
(*                                                                         *)
(* Callers remove from lists that are not empty and insert nodes that are  *)
(* in none: HciTransport shows that they do (NeverTakesFromEmptyQueue,     *)
(* PacketsConserved).  No function tests it.                               *)
(***************************************************************************)
EXTENDS Naturals, Sequences

CONSTANTS
  Heads,      (* list heads: hciReadPktPool, hciReadPktRxQueue, hciTempQueue *)
  Nodes,      (* packets, each of which begins with its links                *)
  NULL

Cells == Heads \cup Nodes

ASSUME ListAssumption == Heads \cap Nodes = {} /\ NULL \notin Cells

VARIABLES
  next, prev,   (* the links of every cell                                   *)
  PRIMASK,      (* the interrupts are masked                                 *)
  saved,        (* uwPRIMASK_Bit of the functions in progress, innermost last *)
  call,         (* the call in progress: at most one                         *)
  at,           (* its next step                                             *)
  node,         (* the parameter node, or the result *node                   *)
  temp, size,   (* locals of list_get_size                                   *)
  lists         (* the sequence each list stands for                         *)

links == <<next, prev>>
mask == <<PRIMASK, saved>>
locals == <<node, temp, size>>
vars == <<links, mask, call, at, locals, lists>>

Removals == {"list_remove_head", "list_remove_tail"}
Insertions == {"list_insert_head", "list_insert_tail"}
Functions == Removals \cup Insertions \cup {"list_get_size"}

Listed == {n \in Nodes : \E h \in Heads : \E i \in DOMAIN lists[h] : lists[h][i] = n}

(* After list_init_head of every head, with every node in the caller's hands. *)
Init ==
  /\ next = [c \in Cells |-> IF c \in Heads THEN c ELSE NULL]
  /\ prev = next
  /\ PRIMASK = FALSE /\ saved = <<>>
  /\ call = <<>> /\ at = 0
  /\ node = NULL /\ temp = NULL /\ size = 0
  /\ lists = [h \in Heads |-> <<>>]

-----------------------------------------------------------------------------
(* The prologue and the epilogue of every function. *)

(* Mutant: list_get_size does not mask the interrupts. *)
Disable_NotForSize(f) == saved' = Append(saved, PRIMASK) /\ PRIMASK' = (f # "list_get_size")

(* Back up PRIMASK, then disable.  An interrupt between the two leaves both  *)
(* as they were.                                                             *)
Disable(f) == saved' = Append(saved, PRIMASK) /\ PRIMASK' = TRUE

(* Mutant: a function enables the interrupts when it ends. *)
Restore_Enables ==
  /\ PRIMASK' = FALSE
  /\ saved' = SubSeq(saved, 1, Len(saved) - 1)

Restore ==
  /\ PRIMASK' = saved[Len(saved)]
  /\ saved' = SubSeq(saved, 1, Len(saved) - 1)

Call(f, h, n) ==
  /\ call = <<>>
  /\ f \in Removals => lists[h] # <<>> /\ n = NULL
  /\ f \in Insertions => n \in Nodes \ Listed
  /\ f = "list_get_size" => n = NULL
  /\ call' = <<[f |-> f, head |-> h]>> /\ at' = 1
  /\ node' = n /\ temp' = next[h] /\ size' = 0
  /\ Disable(f)
  /\ UNCHANGED <<links, lists>>

Running(f) == call # <<>> /\ call[1].f = f
head == call[1].head

(* What the call in progress does to the sequence. *)
Effect ==
  CASE Running("list_insert_head") -> <<node>> \o lists[head]
    [] Running("list_insert_tail") -> Append(lists[head], node)
    [] Running("list_remove_head") -> Tail(lists[head])
    [] Running("list_remove_tail") -> SubSeq(lists[head], 1, Len(lists[head]) - 1)
    [] Running("list_get_size")    -> lists[head]

Return ==
  /\ call' = <<>> /\ at' = 0
  /\ lists' = [lists EXCEPT ![head] = Effect]
  /\ Restore
  /\ UNCHANGED <<links, locals>>

SetNext(c, value) == next' = [next EXCEPT ![c] = value] /\ UNCHANGED prev
SetPrev(c, value) == prev' = [prev EXCEPT ![c] = value] /\ UNCHANGED next

Step(i) == at = i /\ at' = i + 1 /\ UNCHANGED <<call, lists>>

-----------------------------------------------------------------------------
(* The bodies. *)

ListInsertHead ==
  /\ Running("list_insert_head")
  /\ \/ Step(1) /\ SetNext(node, next[head]) /\ UNCHANGED <<mask, locals>>
     \/ Step(2) /\ SetPrev(node, head) /\ UNCHANGED <<mask, locals>>
     \/ Step(3) /\ SetNext(head, node) /\ UNCHANGED <<mask, locals>>
     \/ Step(4) /\ SetPrev(next[node], node) /\ UNCHANGED <<mask, locals>>
     \/ at = 5 /\ Return

(* Mutant: the old tail is not linked to the new one. *)
ListInsertTail_Unlinked ==
  /\ Running("list_insert_tail")
  /\ \/ Step(1) /\ SetNext(node, head) /\ UNCHANGED <<mask, locals>>
     \/ Step(2) /\ SetPrev(node, prev[head]) /\ UNCHANGED <<mask, locals>>
     \/ Step(3) /\ SetPrev(head, node) /\ UNCHANGED <<mask, locals>>
     \/ Step(4) /\ SetNext(prev[head], node) /\ UNCHANGED <<mask, locals>>
     \/ at = 5 /\ Return

ListInsertTail ==
  /\ Running("list_insert_tail")
  /\ \/ Step(1) /\ SetNext(node, head) /\ UNCHANGED <<mask, locals>>
     \/ Step(2) /\ SetPrev(node, prev[head]) /\ UNCHANGED <<mask, locals>>
     \/ Step(3) /\ SetPrev(head, node) /\ UNCHANGED <<mask, locals>>
     \/ Step(4) /\ SetNext(prev[node], node) /\ UNCHANGED <<mask, locals>>
     \/ at = 5 /\ Return

(* Mutant: list_remove_node has no epilogue. *)
ListRemoveNode_NoRestore ==
  \/ Step(2) /\ Disable("list_remove_node") /\ UNCHANGED <<links, locals>>
  \/ Step(3) /\ SetNext(prev[node], next[node]) /\ UNCHANGED <<mask, locals>>
  \/ Step(4) /\ SetPrev(next[node], prev[node]) /\ UNCHANGED <<mask, locals>>
  \/ Step(5) /\ UNCHANGED <<links, mask, locals>>

(* list_remove_node, nested in list_remove_head and in list_remove_tail. *)
ListRemoveNode ==
  \/ Step(2) /\ Disable("list_remove_node") /\ UNCHANGED <<links, locals>>
  \/ Step(3) /\ SetNext(prev[node], next[node]) /\ UNCHANGED <<mask, locals>>
  \/ Step(4) /\ SetPrev(next[node], prev[node]) /\ UNCHANGED <<mask, locals>>
  \/ Step(5) /\ Restore /\ UNCHANGED <<links, locals>>

ListRemove ==
  /\ call # <<>> /\ call[1].f \in Removals
  /\ \/ /\ Step(1)
        /\ node' = IF Running("list_remove_head") THEN next[head] ELSE prev[head]
        /\ UNCHANGED <<links, mask, temp, size>>
     \/ ListRemoveNode
     \/ Step(6) /\ SetNext(node, NULL) /\ UNCHANGED <<mask, locals>>
     \/ Step(7) /\ SetPrev(node, NULL) /\ UNCHANGED <<mask, locals>>
     \/ at = 8 /\ Return

ListGetSize ==
  /\ Running("list_get_size")
  /\ IF temp # head
     THEN /\ size' = size + 1 /\ temp' = next[temp]
          /\ UNCHANGED <<links, mask, call, at, node, lists>>
     ELSE Return

Main == ListInsertHead \/ ListInsertTail \/ ListRemove \/ ListGetSize

-----------------------------------------------------------------------------
(* hci_notify_asynch_evt in the interrupt: a node is removed from the head of *)
(* one list and inserted at the tail of another, or back at the head of its   *)
(* own, by the same functions and with nobody in between.                     *)

ListIsEmpty(h) == next[h] = h

Unlinked(n) ==
  [next |-> [next EXCEPT ![prev[n]] = next[n]], prev |-> [prev EXCEPT ![next[n]] = prev[n]]]

Linked(m, n, before, after) ==
  /\ next' = [m.next EXCEPT ![n] = after, ![before] = n]
  /\ prev' = [m.prev EXCEPT ![n] = before, ![after] = n]

Interrupt(from, to) ==
  /\ ~PRIMASK
  /\ ~ ListIsEmpty(from)
  /\ LET n == next[from]
         m == Unlinked(n)
     IN  \/ /\ from # to
            /\ Linked(m, n, m.prev[to], to)
            /\ lists' = [lists EXCEPT ![from] = Tail(lists[from]), ![to] = Append(lists[to], n)]
         \/ /\ from = to
            /\ Linked(m, n, from, m.next[from])
            /\ UNCHANGED lists
  /\ UNCHANGED <<mask, call, at, locals>>

-----------------------------------------------------------------------------
Next ==
  \/ \E f \in Functions, h \in Heads, n \in Nodes \cup {NULL} : Call(f, h, n)
  \/ Main
  \/ \E from, to \in Heads : Interrupt(from, to)

Spec == Init /\ [][Next]_vars

-----------------------------------------------------------------------------
(* Properties. *)

\* Links lead to cells or nowhere, the lists are of nodes, and no more than two
\* functions are ever nested.
TypeOK ==
  /\ next \in [Cells -> Cells \cup {NULL}] /\ prev \in [Cells -> Cells \cup {NULL}]
  /\ PRIMASK \in BOOLEAN /\ saved \in Seq(BOOLEAN) /\ Len(saved) <= 2
  /\ call \in Seq([f : Functions, head : Heads]) /\ Len(call) <= 1
  /\ at \in 0..8
  /\ node \in Cells \cup {NULL} /\ temp \in Cells \cup {NULL} /\ size \in Nat
  /\ lists \in [Heads -> Seq(Nodes)]

(* The i-th cell of the ring of h: the head itself comes before and after. *)
Cell(h, i) == IF i \in DOMAIN lists[h] THEN lists[h][i] ELSE h

\* Whenever the interrupt may run, the links in both directions spell the same
\* sequences, the ones the functions called so far leave behind: an interrupt
\* never meets a half-linked node, nor do nested functions unmask it early.
LinksSpellLists ==
  ~PRIMASK =>
    \A h \in Heads : \A i \in 0 .. Len(lists[h]) :
      next[Cell(h, i)] = Cell(h, i + 1) /\ prev[Cell(h, i + 1)] = Cell(h, i)

\* A node is in one list once: the interrupt does not put into a list a node
\* the main loop is about to insert.
NodesOnce ==
  \A g, h \in Heads : \A i \in DOMAIN lists[g], j \in DOMAIN lists[h] :
    lists[g][i] = lists[h][j] => g = h /\ i = j

\* list_get_size counts what the list holds while free_event_list looks at it,
\* although the interrupt moves nodes in and out: the walk is at the cell after
\* the last one counted, and so meets the head again with the exact length.
SizeIsExact ==
  Running("list_get_size") => size <= Len(lists[head]) /\ temp = Cell(head, size + 1)
=============================================================================
