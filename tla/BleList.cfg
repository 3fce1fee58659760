\* The three lists of hci_tl.c, three packets.
SPECIFICATION Spec
CONSTANTS
  pool = pool
  rxQueue = rxQueue
  tempQueue = tempQueue
  n1 = n1
  n2 = n2
  n3 = n3
  NULL = NULL
  Heads <- MCHeads
  Nodes <- MCNodes
INVARIANTS
  TypeOK
  LinksSpellLists
  NodesOnce
  SizeIsExact
