----------------------------- MODULE MCBleList -----------------------------
(* BleList with model values for the heads and the nodes. *)
EXTENDS BleList

CONSTANTS pool, rxQueue, tempQueue, n1, n2, n3

MCHeads == {pool, rxQueue, tempQueue}
MCNodes == {n1, n2, n3}
=============================================================================
