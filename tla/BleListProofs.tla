---------------------------- MODULE BleListProofs ----------------------------
(***************************************************************************)
(* Theorems about BleList, for any lists and any number of packets.        *)
(*                                                                         *)
(* The inductive invariant says of a function in progress what the links   *)
(* will be once the steps it has left are taken: they spell the sequences  *)
(* the function leaves behind.  A step computes what the invariant says it *)
(* will; what is left to prove is that the pointers a function writes,     *)
(* all together, put a node into a ring or take it out.                    *)
(***************************************************************************)
EXTENDS BleList, SequenceTheorems, TLAPS

Links == [Cells -> Cells \cup {NULL}]
Lists == [Heads -> Seq(Nodes)]

(* Cell, NodesOnce and LinksSpellLists, of any links and any lists.         *)
At(L, h, i) == IF i \in DOMAIN L[h] THEN L[h][i] ELSE h

Once(L) ==
  \A g, h \in Heads : \A i \in DOMAIN L[g], j \in DOMAIN L[h] :
    L[g][i] = L[h][j] => g = h /\ i = j

Spell(nx, pv, L) ==
  \A h \in Heads : \A i \in 0 .. Len(L[h]) :
    nx[At(L, h, i)] = At(L, h, i + 1) /\ pv[At(L, h, i + 1)] = At(L, h, i)

Rings(nx, pv, L) == nx \in Links /\ pv \in Links /\ L \in Lists /\ Once(L) /\ Spell(nx, pv, L)

Loose(n, L) == n \in Nodes /\ \A h \in Heads : \A i \in DOMAIN L[h] : L[h][i] # n

(* The links once the steps a function has left, from step a on, are taken. *)
HeadNext(nx, n, h, a) ==
  LET n1 == IF a <= 1 THEN [nx EXCEPT ![n] = nx[h]] ELSE nx
  IN  IF a <= 3 THEN [n1 EXCEPT ![h] = n] ELSE n1

HeadPrev(pv, n, h, after, a) ==
  LET p2 == IF a <= 2 THEN [pv EXCEPT ![n] = h] ELSE pv
  IN  IF a <= 4 THEN [p2 EXCEPT ![after] = n] ELSE p2

TailPrev(pv, n, h, a) ==
  LET p2 == IF a <= 2 THEN [pv EXCEPT ![n] = pv[h]] ELSE pv
  IN  IF a <= 3 THEN [p2 EXCEPT ![h] = n] ELSE p2

TailNext(nx, n, h, before, a) ==
  LET n1 == IF a <= 1 THEN [nx EXCEPT ![n] = h] ELSE nx
  IN  IF a <= 4 THEN [n1 EXCEPT ![before] = n] ELSE n1

RemoveNext(nx, n, before, a) ==
  LET n3 == IF a <= 3 THEN [nx EXCEPT ![before] = nx[n]] ELSE nx
  IN  IF a <= 6 THEN [n3 EXCEPT ![n] = NULL] ELSE n3

RemovePrev(pv, n, after, a) ==
  LET p4 == IF a <= 4 THEN [pv EXCEPT ![after] = pv[n]] ELSE pv
  IN  IF a <= 7 THEN [p4 EXCEPT ![n] = NULL] ELSE p4

(* The cells a new node comes between, the head apart. *)
After == IF at <= 1 THEN next[head] ELSE next[node]
Before == IF at <= 2 THEN prev[head] ELSE prev[node]

(* The node a removal removes: step 1 is to fetch it. *)
Removed(f) ==
  IF at > 1 THEN node ELSE IF f = "list_remove_head" THEN next[head] ELSE prev[head]

Left(nx, pv) == Rings(nx, pv, [lists EXCEPT ![head] = Effect])

(* The interrupts were not masked when the function was called, and were    *)
(* when it called list_remove_node.                                         *)
Saves(k) == Len(saved) = k /\ saved[1] = FALSE /\ (k = 2 => saved[2] = TRUE)

Idle ==
  call = <<>> => at = 0 /\ PRIMASK = FALSE /\ Len(saved) = 0 /\ Rings(next, prev, lists)

Inserting ==
  /\ \A f \in Insertions : Running(f) =>
       at \in 1 .. 5 /\ node \in Nodes /\ PRIMASK = TRUE /\ Saves(1)
  /\ Running("list_insert_head") =>
       Left(HeadNext(next, node, head, at), HeadPrev(prev, node, head, After, at))
  /\ Running("list_insert_tail") =>
       Left(TailNext(next, node, head, Before, at), TailPrev(prev, node, head, at))

Removing ==
  \A f \in Removals : Running(f) =>
    /\ at \in 1 .. 8 /\ Removed(f) \in Nodes
    /\ PRIMASK = TRUE /\ Saves(IF at \in 3 .. 5 THEN 2 ELSE 1)
    /\ LET n == Removed(f) IN Left(RemoveNext(next, n, prev[n], at), RemovePrev(prev, n, next[n], at))

Counting ==
  Running("list_get_size") =>
    /\ at = 1 /\ PRIMASK = TRUE /\ Saves(1)
    /\ Rings(next, prev, lists)
    /\ size <= Len(lists[head]) /\ temp = At(lists, head, size + 1)

IInv == TypeOK /\ Once(lists) /\ Idle /\ Inserting /\ Removing /\ Counting

-----------------------------------------------------------------------------
(* Cells of a ring. *)

LEMMA Spelling ==
  ASSUME NEW L \in Lists, NEW h \in Heads
  PROVE  /\ Len(L[h]) \in Nat /\ DOMAIN L[h] = 1 .. Len(L[h]) /\ L[h] \in Seq(Nodes)
         /\ At(L, h, 0) = h /\ At(L, h, Len(L[h]) + 1) = h
         /\ \A i \in 1 .. Len(L[h]) : At(L, h, i) = L[h][i] /\ At(L, h, i) \in Nodes
         /\ \A i \in Nat : At(L, h, i) \in Cells
<1>1. Len(L[h]) \in Nat /\ DOMAIN L[h] = 1 .. Len(L[h]) /\ L[h] \in Seq(Nodes)
  BY DEF Lists
<1>2. \A i \in 1 .. Len(L[h]) : L[h][i] \in Nodes
  BY <1>1
<1> QED BY <1>1, <1>2 DEF At, Cells

(* No cell is in two places, the head's two ends apart. *)
LEMMA Apart ==
  ASSUME NEW L \in Lists, Once(L), NEW g \in Heads, NEW h \in Heads
  PROVE  /\ \A i \in 0 .. Len(L[g]), j \in 0 .. Len(L[h]) :
              At(L, g, i) = At(L, h, j) => g = h /\ i = j
         /\ \A i \in 0 .. Len(L[g]), j \in 0 .. Len(L[h]) :
              At(L, g, i + 1) = At(L, h, j + 1) => g = h /\ i = j
<1>1. /\ Len(L[g]) \in Nat /\ DOMAIN L[g] = 1 .. Len(L[g])
      /\ Len(L[h]) \in Nat /\ DOMAIN L[h] = 1 .. Len(L[h])
      /\ \A i \in 1 .. Len(L[g]) : At(L, g, i) = L[g][i] /\ At(L, g, i) \in Nodes
      /\ \A i \in 1 .. Len(L[h]) : At(L, h, i) = L[h][i] /\ At(L, h, i) \in Nodes
      /\ At(L, g, 0) = g /\ At(L, g, Len(L[g]) + 1) = g
      /\ At(L, h, 0) = h /\ At(L, h, Len(L[h]) + 1) = h
  BY Spelling
<1>2. \A i \in 1 .. Len(L[g]), j \in 1 .. Len(L[h]) : L[g][i] = L[h][j] => g = h /\ i = j
  BY <1>1 DEF Once
<1>3. g \notin Nodes /\ h \notin Nodes
  BY ListAssumption
<1>4. ASSUME NEW i \in 0 .. Len(L[g]), NEW j \in 0 .. Len(L[h]), At(L, g, i) = At(L, h, j)
      PROVE  g = h /\ i = j
  <2>1. (i = 0 \/ i \in 1 .. Len(L[g])) /\ (j = 0 \/ j \in 1 .. Len(L[h]))
    BY <1>1
  <2> QED BY <1>1, <1>2, <1>3, <1>4, <2>1
<1>5. ASSUME NEW i \in 0 .. Len(L[g]), NEW j \in 0 .. Len(L[h]), At(L, g, i + 1) = At(L, h, j + 1)
      PROVE  g = h /\ i = j
  <2>1. (i = Len(L[g]) \/ i + 1 \in 1 .. Len(L[g])) /\ (j = Len(L[h]) \/ j + 1 \in 1 .. Len(L[h]))
    BY <1>1
  <2>2. CASE i + 1 \in 1 .. Len(L[g]) /\ j + 1 \in 1 .. Len(L[h])
    <3>1. g = h /\ i + 1 = j + 1
      BY <1>1, <1>2, <1>5, <2>2
    <3> QED BY <1>1, <3>1
  <2>3. CASE i = Len(L[g]) /\ j = Len(L[h])
    BY <1>1, <1>5, <2>3
  <2>4. CASE i = Len(L[g]) /\ j + 1 \in 1 .. Len(L[h])
    BY <1>1, <1>3, <1>5, <2>4
  <2>5. CASE i + 1 \in 1 .. Len(L[g]) /\ j = Len(L[h])
    BY <1>1, <1>3, <1>5, <2>5
  <2> QED BY <2>1, <2>2, <2>3, <2>4, <2>5
<1> QED BY <1>4, <1>5

LEMMA LooseApart ==
  ASSUME NEW L \in Lists, NEW n, Loose(n, L), NEW h \in Heads, NEW i \in Nat
  PROVE  At(L, h, i) # n
<1>1. n \in Nodes /\ h \notin Nodes /\ \A k \in DOMAIN L[h] : L[h][k] # n
  BY ListAssumption DEF Loose
<1> QED BY <1>1 DEF At

(* A node linked in between the cells k and k + 1 of a ring. *)
LinksIn(nx, pv, nx2, pv2, L, n, h, k) ==
  /\ nx2 \in Links /\ pv2 \in Links
  /\ nx2[n] = At(L, h, k + 1) /\ nx2[At(L, h, k)] = n
  /\ \A c \in Cells \ {n, At(L, h, k)} : nx2[c] = nx[c]
  /\ pv2[n] = At(L, h, k) /\ pv2[At(L, h, k + 1)] = n
  /\ \A c \in Cells \ {n, At(L, h, k + 1)} : pv2[c] = pv[c]

ListIn(L, M, n, h, k) ==
  /\ M \in Lists
  /\ \A g \in Heads \ {h} : M[g] = L[g]
  /\ Len(M[h]) = Len(L[h]) + 1 /\ M[h][k + 1] = n
  /\ \A i \in 1 .. k : M[h][i] = L[h][i]
  /\ \A i \in k + 1 .. Len(L[h]) : M[h][i + 1] = L[h][i]

LEMMA LinkedIn ==
  ASSUME NEW nx, NEW pv, NEW nx2, NEW pv2, NEW L, NEW M, Rings(nx, pv, L),
         NEW n, Loose(n, L), NEW h \in Heads, NEW k \in 0 .. Len(L[h]),
         LinksIn(nx, pv, nx2, pv2, L, n, h, k), ListIn(L, M, n, h, k)
  PROVE  Rings(nx2, pv2, M)
<1>a. /\ nx2 \in Links /\ pv2 \in Links
      /\ nx2[n] = At(L, h, k + 1) /\ nx2[At(L, h, k)] = n
      /\ \A c \in Cells \ {n, At(L, h, k)} : nx2[c] = nx[c]
      /\ pv2[n] = At(L, h, k) /\ pv2[At(L, h, k + 1)] = n
      /\ \A c \in Cells \ {n, At(L, h, k + 1)} : pv2[c] = pv[c]
  BY DEF LinksIn
<1>b. /\ M \in Lists
      /\ \A g \in Heads \ {h} : M[g] = L[g]
      /\ Len(M[h]) = Len(L[h]) + 1 /\ M[h][k + 1] = n
      /\ \A i \in 1 .. k : M[h][i] = L[h][i]
      /\ \A i \in k + 1 .. Len(L[h]) : M[h][i + 1] = L[h][i]
  BY DEF ListIn
<1> USE <1>a, <1>b
<1>0. L \in Lists /\ Once(L) /\ Spell(nx, pv, L)
  BY DEF Rings
<1> DEFINE N == Len(L[h])
<1>1. N \in Nat /\ DOMAIN L[h] = 1 .. N /\ DOMAIN M[h] = 1 .. N + 1 /\ k \in 0 .. N
  BY <1>0, Spelling
<1>2. \A g \in Heads \ {h} : \A i : At(M, g, i) = At(L, g, i)
  BY DEF At
<1>3. /\ \A i \in 0 .. k : At(M, h, i) = At(L, h, i)
      /\ At(M, h, k + 1) = n
      /\ \A i \in k + 1 .. N + 1 : At(M, h, i + 1) = At(L, h, i)
  <2>1. ASSUME NEW i \in 0 .. k PROVE At(M, h, i) = At(L, h, i)
    BY <1>1 DEF At
  <2>2. At(M, h, k + 1) = n
    BY <1>1 DEF At
  <2>3. ASSUME NEW i \in k + 1 .. N + 1 PROVE At(M, h, i + 1) = At(L, h, i)
    <3>1. CASE i \in k + 1 .. N
      BY <1>1, <3>1 DEF At
    <3>2. CASE i = N + 1
      BY <1>1, <3>2 DEF At
    <3> QED BY <1>1, <3>1, <3>2
  <2> QED BY <2>1, <2>2, <2>3
<1>4. \A g \in Heads : \A i \in Nat : At(L, g, i) # n /\ At(L, g, i) \in Cells
  BY <1>0, LooseApart, Spelling
<1>5. \A g \in Heads : \A i \in 0 .. Len(L[g]) :
        nx[At(L, g, i)] = At(L, g, i + 1) /\ pv[At(L, g, i + 1)] = At(L, g, i)
  BY <1>0 DEF Spell
<1>6. ASSUME NEW g \in Heads \ {h}, NEW i \in 0 .. Len(M[g])
      PROVE  nx2[At(M, g, i)] = At(M, g, i + 1) /\ pv2[At(M, g, i + 1)] = At(M, g, i)
  <2>1. Len(L[g]) \in Nat /\ i \in 0 .. Len(L[g])
    BY <1>0, Spelling
  <2>2. i \in Nat /\ i + 1 \in Nat
    BY <2>1
  <2>3. At(L, g, i) # At(L, h, k) /\ At(L, g, i + 1) # At(L, h, k + 1)
    BY <1>0, <2>1, Apart
  <2>4. At(L, g, i) \in Cells \ {n, At(L, h, k)} /\ At(L, g, i + 1) \in Cells \ {n, At(L, h, k + 1)}
    BY <1>4, <2>2, <2>3
  <2> QED BY <1>2, <1>5, <2>1, <2>4
<1>7. ASSUME NEW i \in 0 .. N, i # k
      PROVE  nx2[At(L, h, i)] = At(L, h, i + 1) /\ pv2[At(L, h, i + 1)] = At(L, h, i)
  <2>1. i \in Nat /\ i + 1 \in Nat
    BY <1>1
  <2>2. At(L, h, i) # At(L, h, k) /\ At(L, h, i + 1) # At(L, h, k + 1)
    BY <1>0, <1>7, Apart
  <2>3. At(L, h, i) \in Cells \ {n, At(L, h, k)} /\ At(L, h, i + 1) \in Cells \ {n, At(L, h, k + 1)}
    BY <1>4, <2>1, <2>2
  <2> QED BY <1>5, <2>3
<1>8. ASSUME NEW i \in 0 .. Len(M[h])
      PROVE  nx2[At(M, h, i)] = At(M, h, i + 1) /\ pv2[At(M, h, i + 1)] = At(M, h, i)
  <2>1. i \in 0 .. N + 1 /\ (i < k \/ i = k \/ i = k + 1 \/ i > k + 1)
    BY <1>1
  <2>2. CASE i < k
    <3>1. i \in 0 .. k /\ i + 1 \in 0 .. k /\ i \in 0 .. N /\ i # k
      BY <1>1, <2>1, <2>2
    <3> QED BY <1>3, <1>7, <3>1
  <2>3. CASE i = k
    <3>1. i \in 0 .. k
      BY <1>1, <2>3
    <3> QED BY <1>3, <2>3, <3>1
  <2>4. CASE i = k + 1
    <3>1. k + 1 \in k + 1 .. N + 1
      BY <1>1
    <3> QED BY <1>3, <2>4, <3>1
  <2>5. CASE i > k + 1
    <3> DEFINE j == i - 1
    <3>1. j \in k + 1 .. N + 1 /\ j + 1 \in k + 1 .. N + 1 /\ j \in 0 .. N /\ j # k /\ i = j + 1
      BY <1>1, <2>1, <2>5
    <3> HIDE DEF j
    <3>2. At(M, h, i) = At(L, h, j) /\ At(M, h, i + 1) = At(L, h, j + 1)
      BY <1>3, <3>1
    <3> QED BY <1>7, <3>1, <3>2
  <2> QED BY <2>1, <2>2, <2>3, <2>4, <2>5
<1>9. Spell(nx2, pv2, M)
  BY <1>6, <1>8 DEF Spell
<1>10. Once(M)
  <2> SUFFICES ASSUME NEW f \in Heads, NEW g \in Heads,
                      NEW i \in DOMAIN M[f], NEW j \in DOMAIN M[g], M[f][i] = M[g][j]
               PROVE  f = g /\ i = j
    BY DEF Once
  <2>1. \A i1 \in DOMAIN M[h] :
          \/ i1 = k + 1 /\ M[h][i1] = n
          \/ \E i0 \in DOMAIN L[h] :
               M[h][i1] = L[h][i0] /\ ((i1 = i0 /\ i0 <= k) \/ (i1 = i0 + 1 /\ i0 > k))
    <3> SUFFICES ASSUME NEW i1 \in 1 .. N + 1, i1 # k + 1 PROVE
          \E i0 \in 1 .. N :
            M[h][i1] = L[h][i0] /\ ((i1 = i0 /\ i0 <= k) \/ (i1 = i0 + 1 /\ i0 > k))
      BY <1>1
    <3>1. CASE i1 <= k
      <4>1. i1 \in 1 .. k /\ i1 \in 1 .. N
        BY <1>1, <3>1
      <4>2. M[h][i1] = L[h][i1]
        BY <4>1
      <4> QED BY <3>1, <4>1, <4>2
    <3>2. CASE i1 > k + 1
      <4> DEFINE i0 == i1 - 1
      <4>1. i0 \in k + 1 .. N /\ i0 \in 1 .. N /\ i1 = i0 + 1 /\ i0 > k
        BY <1>1, <3>2
      <4> HIDE DEF i0
      <4>2. M[h][i1] = L[h][i0]
        BY <4>1
      <4> QED BY <4>1, <4>2
    <3> QED BY <1>1, <3>1, <3>2
  <2>2. \A g1 \in Heads : \A i1 \in DOMAIN L[g1] : L[g1][i1] # n
    BY DEF Loose
  <2>3. \A f1, g1 \in Heads : \A i1 \in DOMAIN L[f1], j1 \in DOMAIN L[g1] :
          L[f1][i1] = L[g1][j1] => f1 = g1 /\ i1 = j1
    BY <1>0 DEF Once
  <2>4. CASE f # h /\ g # h
    BY <2>3, <2>4
  <2>5. CASE f = h /\ g # h
    BY <2>1, <2>2, <2>3, <2>5
  <2>6. CASE f # h /\ g = h
    BY <2>1, <2>2, <2>3, <2>6
  <2>7. CASE f = h /\ g = h
    <3>2. CASE i = k + 1
      <4>1. j = k + 1
        BY <2>1, <2>2, <2>7, <3>2
      <4> QED BY <2>7, <3>2, <4>1
    <3>3. CASE j = k + 1
      <4>1. i = k + 1
        BY <2>1, <2>2, <2>7, <3>3
      <4> QED BY <2>7, <3>3, <4>1
    <3>4. CASE i # k + 1 /\ j # k + 1
      <4>1. PICK i0 \in DOMAIN L[h] :
              M[h][i] = L[h][i0] /\ ((i = i0 /\ i0 <= k) \/ (i = i0 + 1 /\ i0 > k))
        BY <2>1, <2>7, <3>4
      <4>2. PICK j0 \in DOMAIN L[h] :
              M[h][j] = L[h][j0] /\ ((j = j0 /\ j0 <= k) \/ (j = j0 + 1 /\ j0 > k))
        BY <2>1, <2>7, <3>4
      <4>3. i0 = j0
        BY <2>3, <2>7, <4>1, <4>2
      <4> QED BY <2>7, <4>1, <4>2, <4>3
    <3> QED BY <3>2, <3>3, <3>4
  <2> QED BY <2>4, <2>5, <2>6, <2>7
<1> QED BY <1>9, <1>10 DEF Rings

(* The k-th node taken out of a ring, whatever its own links say then. *)
LinksOut(nx, pv, nx2, pv2, L, h, k) ==
  /\ nx2 \in Links /\ pv2 \in Links
  /\ nx2[At(L, h, k - 1)] = At(L, h, k + 1)
  /\ \A c \in Cells \ {At(L, h, k), At(L, h, k - 1)} : nx2[c] = nx[c]
  /\ pv2[At(L, h, k + 1)] = At(L, h, k - 1)
  /\ \A c \in Cells \ {At(L, h, k), At(L, h, k + 1)} : pv2[c] = pv[c]

ListOut(L, M, h, k) ==
  /\ M \in Lists
  /\ \A g \in Heads \ {h} : M[g] = L[g]
  /\ Len(M[h]) = Len(L[h]) - 1
  /\ \A i \in 1 .. k - 1 : M[h][i] = L[h][i]
  /\ \A i \in k .. Len(L[h]) - 1 : M[h][i] = L[h][i + 1]

LEMMA LinkedOut ==
  ASSUME NEW nx, NEW pv, NEW nx2, NEW pv2, NEW L, NEW M, Rings(nx, pv, L),
         NEW h \in Heads, NEW k \in 1 .. Len(L[h]),
         LinksOut(nx, pv, nx2, pv2, L, h, k), ListOut(L, M, h, k)
  PROVE  Rings(nx2, pv2, M) /\ Loose(At(L, h, k), M)
<1>a. /\ nx2 \in Links /\ pv2 \in Links
      /\ nx2[At(L, h, k - 1)] = At(L, h, k + 1)
      /\ \A c \in Cells \ {At(L, h, k), At(L, h, k - 1)} : nx2[c] = nx[c]
      /\ pv2[At(L, h, k + 1)] = At(L, h, k - 1)
      /\ \A c \in Cells \ {At(L, h, k), At(L, h, k + 1)} : pv2[c] = pv[c]
  BY DEF LinksOut
<1>b. /\ M \in Lists
      /\ \A g \in Heads \ {h} : M[g] = L[g]
      /\ Len(M[h]) = Len(L[h]) - 1
      /\ \A i \in 1 .. k - 1 : M[h][i] = L[h][i]
      /\ \A i \in k .. Len(L[h]) - 1 : M[h][i] = L[h][i + 1]
  BY DEF ListOut
<1> USE <1>a, <1>b
<1>0. L \in Lists /\ Once(L) /\ Spell(nx, pv, L)
  BY DEF Rings
<1> DEFINE N == Len(L[h])
<1>1. N \in Nat \ {0} /\ DOMAIN L[h] = 1 .. N /\ DOMAIN M[h] = 1 .. N - 1 /\ k \in 1 .. N
  BY <1>0, Spelling
<1>2. \A g \in Heads \ {h} : \A i : At(M, g, i) = At(L, g, i)
  BY DEF At
<1>3. /\ \A i \in 0 .. k - 1 : At(M, h, i) = At(L, h, i)
      /\ \A i \in k .. N : At(M, h, i) = At(L, h, i + 1)
  <2>1. ASSUME NEW i \in 0 .. k - 1 PROVE At(M, h, i) = At(L, h, i)
    BY <1>1 DEF At
  <2>2. ASSUME NEW i \in k .. N PROVE At(M, h, i) = At(L, h, i + 1)
    BY <1>1 DEF At
  <2> QED BY <2>1, <2>2
<1>4. \A g \in Heads : \A i \in Nat : At(L, g, i) \in Cells
  BY <1>0, Spelling
<1>5. \A g \in Heads : \A i \in 0 .. Len(L[g]) :
        nx[At(L, g, i)] = At(L, g, i + 1) /\ pv[At(L, g, i + 1)] = At(L, g, i)
  BY <1>0 DEF Spell
<1>6. \A g \in Heads : Len(L[g]) \in Nat
  BY <1>0, Spelling
<1>7. ASSUME NEW g \in Heads, NEW i \in 0 .. Len(L[g]), g # h \/ (i # k /\ i # k - 1)
      PROVE  nx2[At(L, g, i)] = At(L, g, i + 1) /\ pv2[At(L, g, i + 1)] = At(L, g, i)
  <2>1. i \in Nat /\ i + 1 \in Nat /\ k \in 0 .. N /\ k - 1 \in 0 .. N /\ k = k - 1 + 1
    BY <1>1, <1>6
  <2>2. At(L, g, i) # At(L, h, k) /\ At(L, g, i) # At(L, h, k - 1)
    BY <1>0, <1>7, <2>1, Apart
  <2>3. At(L, g, i + 1) # At(L, h, k + 1) /\ At(L, g, i + 1) # At(L, h, k - 1 + 1)
    BY <1>0, <1>7, <2>1, Apart
  <2>4. /\ At(L, g, i) \in Cells \ {At(L, h, k), At(L, h, k - 1)}
        /\ At(L, g, i + 1) \in Cells \ {At(L, h, k), At(L, h, k + 1)}
    BY <1>4, <2>1, <2>2, <2>3
  <2> QED BY <1>5, <2>4
<1>8. ASSUME NEW g \in Heads \ {h}, NEW i \in 0 .. Len(M[g])
      PROVE  nx2[At(M, g, i)] = At(M, g, i + 1) /\ pv2[At(M, g, i + 1)] = At(M, g, i)
  BY <1>2, <1>7
<1>9. ASSUME NEW i \in 0 .. Len(M[h])
      PROVE  nx2[At(M, h, i)] = At(M, h, i + 1) /\ pv2[At(M, h, i + 1)] = At(M, h, i)
  <2>1. i \in 0 .. N - 1 /\ (i < k - 1 \/ i = k - 1 \/ i >= k)
    BY <1>1
  <2>2. CASE i < k - 1
    <3>1. i \in 0 .. k - 1 /\ i + 1 \in 0 .. k - 1 /\ i \in 0 .. N /\ i # k /\ i # k - 1
      BY <1>1, <2>1, <2>2
    <3> QED BY <1>3, <1>7, <3>1
  <2>3. CASE i = k - 1
    <3>1. i \in 0 .. k - 1 /\ i + 1 = k /\ k \in k .. N
      BY <1>1, <2>3
    <3> QED BY <1>3, <2>3, <3>1
  <2>4. CASE i >= k
    <3>1. i \in k .. N /\ i + 1 \in k .. N /\ i + 1 \in 0 .. N /\ i + 1 # k /\ i + 1 # k - 1
      BY <1>1, <2>1, <2>4
    <3> QED BY <1>3, <1>7, <3>1
  <2> QED BY <2>1, <2>2, <2>3, <2>4
<1>10. Spell(nx2, pv2, M)
  BY <1>8, <1>9 DEF Spell
<1>11. \A i1 \in DOMAIN M[h] :
         \E i0 \in DOMAIN L[h] :
           M[h][i1] = L[h][i0] /\ ((i1 = i0 /\ i0 < k) \/ (i1 = i0 - 1 /\ i0 > k))
  <2> SUFFICES ASSUME NEW i1 \in 1 .. N - 1 PROVE
        \E i0 \in 1 .. N : M[h][i1] = L[h][i0] /\ ((i1 = i0 /\ i0 < k) \/ (i1 = i0 - 1 /\ i0 > k))
    BY <1>1
  <2>1. CASE i1 < k
    <3>1. i1 \in 1 .. k - 1 /\ i1 \in 1 .. N
      BY <1>1, <2>1
    <3>2. M[h][i1] = L[h][i1]
      BY <3>1
    <3> QED BY <2>1, <3>1, <3>2
  <2>2. CASE i1 >= k
    <3> DEFINE i0 == i1 + 1
    <3>1. i1 \in k .. N - 1 /\ i0 \in 1 .. N /\ i1 = i0 - 1 /\ i0 > k
      BY <1>1, <2>2
    <3>2. M[h][i1] = L[h][i0]
      BY <3>1
    <3> HIDE DEF i0
    <3> QED BY <3>1, <3>2
  <2> QED BY <1>1, <2>1, <2>2
<1>12. \A f1, g1 \in Heads : \A i1 \in DOMAIN L[f1], j1 \in DOMAIN L[g1] :
         L[f1][i1] = L[g1][j1] => f1 = g1 /\ i1 = j1
  BY <1>0 DEF Once
<1>13. Once(M)
  <2> SUFFICES ASSUME NEW f \in Heads, NEW g \in Heads,
                      NEW i \in DOMAIN M[f], NEW j \in DOMAIN M[g], M[f][i] = M[g][j]
               PROVE  f = g /\ i = j
    BY DEF Once
  <2>1. CASE f # h /\ g # h
    BY <1>12, <2>1
  <2>2. CASE f = h /\ g # h
    BY <1>11, <1>12, <2>2
  <2>3. CASE f # h /\ g = h
    BY <1>11, <1>12, <2>3
  <2>4. CASE f = h /\ g = h
    <3>1. PICK i0 \in DOMAIN L[h] :
            M[h][i] = L[h][i0] /\ ((i = i0 /\ i0 < k) \/ (i = i0 - 1 /\ i0 > k))
      BY <1>11, <2>4
    <3>2. PICK j0 \in DOMAIN L[h] :
            M[h][j] = L[h][j0] /\ ((j = j0 /\ j0 < k) \/ (j = j0 - 1 /\ j0 > k))
      BY <1>11, <2>4
    <3>3. i0 = j0
      BY <1>12, <2>4, <3>1, <3>2
    <3> QED BY <2>4, <3>1, <3>2, <3>3
  <2> QED BY <2>1, <2>2, <2>3, <2>4
<1>14. Loose(At(L, h, k), M)
  <2>1. At(L, h, k) = L[h][k] /\ At(L, h, k) \in Nodes /\ k \in DOMAIN L[h]
    BY <1>0, <1>1, Spelling
  <2>2. ASSUME NEW g \in Heads, NEW i \in DOMAIN M[g] PROVE M[g][i] # L[h][k]
    <3>1. CASE g # h
      BY <1>12, <2>1, <3>1
    <3>2. CASE g = h
      <4>1. PICK i0 \in DOMAIN L[h] :
              M[h][i] = L[h][i0] /\ ((i = i0 /\ i0 < k) \/ (i = i0 - 1 /\ i0 > k))
        BY <1>11, <3>2
      <4>2. i0 # k
        BY <1>1, <4>1
      <4> QED BY <1>12, <2>1, <3>2, <4>1, <4>2
    <3> QED BY <3>1, <3>2
  <2> QED BY <2>1, <2>2 DEF Loose
<1> QED BY <1>10, <1>13, <1>14 DEF Rings

(* What the functions of the module do to a ring. *)
LEMMA HeadIn ==
  ASSUME NEW nx, NEW pv, NEW L, Rings(nx, pv, L), NEW n, Loose(n, L), NEW h \in Heads
  PROVE  Rings([nx EXCEPT ![n] = nx[h], ![h] = n], [pv EXCEPT ![n] = h, ![nx[h]] = n],
               [L EXCEPT ![h] = <<n>> \o L[h]])
<1> DEFINE nx2 == [nx EXCEPT ![n] = nx[h], ![h] = n]
           pv2 == [pv EXCEPT ![n] = h, ![nx[h]] = n]
           M == [L EXCEPT ![h] = <<n>> \o L[h]]
<1>0. L \in Lists /\ Spell(nx, pv, L) /\ nx \in Links /\ pv \in Links /\ n \in Nodes
  BY DEF Rings, Loose
<1>1. /\ Len(L[h]) \in Nat /\ L[h] \in Seq(Nodes)
      /\ At(L, h, 0) = h /\ At(L, h, 1) \in Cells /\ 0 \in 0 .. Len(L[h])
  BY <1>0, Spelling
<1>2. nx[h] = At(L, h, 1)
  <2>1. nx[At(L, h, 0)] = At(L, h, 0 + 1)
    BY <1>0, <1>1 DEF Spell
  <2> QED BY <1>1, <2>1
<1>3. n # h /\ n # nx[h] /\ n \in Cells /\ h \in Cells
  <2>1. At(L, h, 1) # n
    BY <1>0, LooseApart
  <2> QED BY <1>0, <1>2, <2>1, ListAssumption DEF Cells
<1>4. nx2 \in Links /\ pv2 \in Links
  BY <1>0, <1>1, <1>2, <1>3 DEF Links
<1>5. /\ nx2[n] = At(L, h, 0 + 1) /\ nx2[At(L, h, 0)] = n
      /\ \A c \in Cells \ {n, At(L, h, 0)} : nx2[c] = nx[c]
  BY <1>0, <1>1, <1>2, <1>3 DEF Links
<1>6. /\ pv2[n] = At(L, h, 0) /\ pv2[At(L, h, 0 + 1)] = n
      /\ \A c \in Cells \ {n, At(L, h, 0 + 1)} : pv2[c] = pv[c]
  BY <1>0, <1>1, <1>2, <1>3 DEF Links
<1>7. /\ <<n>> \o L[h] \in Seq(Nodes) /\ Len(<<n>> \o L[h]) = Len(L[h]) + 1
      /\ (<<n>> \o L[h])[1] = n
      /\ \A i \in 1 .. Len(L[h]) : (<<n>> \o L[h])[i + 1] = L[h][i]
  <2>1. <<n>> \in Seq(Nodes) /\ Len(<<n>>) = 1 /\ <<n>>[1] = n
    BY <1>0
  <2> QED BY <1>1, <2>1, ConcatProperties
<1>8. /\ M \in Lists /\ M[h] = <<n>> \o L[h]
      /\ \A g \in Heads \ {h} : M[g] = L[g]
  BY <1>0, <1>7 DEF Lists
<1> HIDE DEF nx2, pv2, M
<1>9. /\ Len(M[h]) = Len(L[h]) + 1 /\ M[h][0 + 1] = n
      /\ \A i \in 1 .. 0 : M[h][i] = L[h][i]
      /\ \A i \in 0 + 1 .. Len(L[h]) : M[h][i + 1] = L[h][i]
  BY <1>1, <1>7, <1>8
<1>10. LinksIn(nx, pv, nx2, pv2, L, n, h, 0)
  BY <1>4, <1>5, <1>6 DEF LinksIn
<1>11. ListIn(L, M, n, h, 0)
  BY <1>8, <1>9 DEF ListIn
<1>12. Rings(nx2, pv2, M)
  BY <1>1, <1>10, <1>11, LinkedIn
<1> QED BY <1>12 DEF nx2, pv2, M

LEMMA TailIn ==
  ASSUME NEW nx, NEW pv, NEW L, Rings(nx, pv, L), NEW n, Loose(n, L), NEW h \in Heads
  PROVE  Rings([nx EXCEPT ![n] = h, ![pv[h]] = n], [pv EXCEPT ![n] = pv[h], ![h] = n],
               [L EXCEPT ![h] = Append(L[h], n)])
<1> DEFINE nx2 == [nx EXCEPT ![n] = h, ![pv[h]] = n]
           pv2 == [pv EXCEPT ![n] = pv[h], ![h] = n]
           M == [L EXCEPT ![h] = Append(L[h], n)]
<1>0. L \in Lists /\ Spell(nx, pv, L) /\ nx \in Links /\ pv \in Links /\ n \in Nodes
  BY DEF Rings, Loose
<1>a. PICK k \in Nat : k = Len(L[h])
  BY <1>0, Spelling
<1>1. /\ k \in Nat /\ L[h] \in Seq(Nodes)
      /\ At(L, h, k + 1) = h /\ At(L, h, k) \in Cells /\ k \in 0 .. Len(L[h])
  BY <1>0, <1>a, Spelling
<1>2. pv[h] = At(L, h, k)
  <2>1. pv[At(L, h, k + 1)] = At(L, h, k)
    BY <1>0, <1>1 DEF Spell
  <2> QED BY <1>1, <2>1
<1>3. n # h /\ n # pv[h] /\ n \in Cells /\ h \in Cells
  <2>1. At(L, h, k) # n
    BY <1>0, <1>1, LooseApart
  <2> QED BY <1>0, <1>2, <2>1, ListAssumption DEF Cells
<1>4. nx2 \in Links /\ pv2 \in Links
  BY <1>0, <1>1, <1>2, <1>3 DEF Links
<1>5. /\ nx2[n] = At(L, h, k + 1) /\ nx2[At(L, h, k)] = n
      /\ \A c \in Cells \ {n, At(L, h, k)} : nx2[c] = nx[c]
  BY <1>0, <1>1, <1>2, <1>3 DEF Links
<1>6. /\ pv2[n] = At(L, h, k) /\ pv2[At(L, h, k + 1)] = n
      /\ \A c \in Cells \ {n, At(L, h, k + 1)} : pv2[c] = pv[c]
  BY <1>0, <1>1, <1>2, <1>3 DEF Links
<1>7. /\ Append(L[h], n) \in Seq(Nodes) /\ Len(Append(L[h], n)) = Len(L[h]) + 1
      /\ Append(L[h], n)[k + 1] = n
      /\ \A i \in 1 .. k : Append(L[h], n)[i] = L[h][i]
  BY <1>0, <1>1, <1>a, AppendProperties
<1>8. /\ M \in Lists /\ M[h] = Append(L[h], n)
      /\ \A g \in Heads \ {h} : M[g] = L[g]
  BY <1>0, <1>7 DEF Lists
<1> HIDE DEF nx2, pv2, M
<1>9. /\ Len(M[h]) = Len(L[h]) + 1 /\ M[h][k + 1] = n
      /\ \A i \in 1 .. k : M[h][i] = L[h][i]
  BY <1>7, <1>8
<1>10. \A i \in k + 1 .. Len(L[h]) : M[h][i + 1] = L[h][i]
  BY <1>1, <1>a
<1>11. k \in 0 .. Len(L[h]) /\ M \in Lists /\ \A g \in Heads \ {h} : M[g] = L[g]
  BY <1>1, <1>8
<1>12. LinksIn(nx, pv, nx2, pv2, L, n, h, k)
  BY <1>4, <1>5, <1>6 DEF LinksIn
<1>13. ListIn(L, M, n, h, k)
  BY <1>9, <1>10, <1>11 DEF ListIn
<1>14. Rings(nx2, pv2, M)
  BY <1>11, <1>12, <1>13, LinkedIn
<1> QED BY <1>14 DEF nx2, pv2, M

Cut(links1, c, value) == [links1 EXCEPT ![c] = value]

(* The links of the node taken out may be anything. *)
NodeLinksOut(nx, pv, nx2, pv2, n) ==
  /\ nx2 \in Links /\ \A c \in Cells \ {n} : nx2[c] = Cut(nx, pv[n], nx[n])[c]
  /\ pv2 \in Links /\ \A c \in Cells \ {n} : pv2[c] = Cut(pv, nx[n], pv[n])[c]

LEMMA NodeOut ==
  ASSUME NEW nx, NEW pv, NEW nx2, NEW pv2, NEW L, NEW n, Rings(nx, pv, L),
         NEW h \in Heads, NEW k \in 1 .. Len(L[h]), n = L[h][k],
         NodeLinksOut(nx, pv, nx2, pv2, n),
         NEW t \in Seq(Nodes), Len(t) = Len(L[h]) - 1,
         \A i \in 1 .. k - 1 : t[i] = L[h][i],
         \A i \in k .. Len(L[h]) - 1 : t[i] = L[h][i + 1]
  PROVE  Rings(nx2, pv2, [L EXCEPT ![h] = t]) /\ Loose(n, [L EXCEPT ![h] = t])
<1> DEFINE M == [L EXCEPT ![h] = t]
<1>0. L \in Lists /\ Once(L) /\ Spell(nx, pv, L) /\ nx \in Links /\ pv \in Links
  BY DEF Rings
<1>1. /\ Len(L[h]) \in Nat /\ n = At(L, h, k) /\ n \in Nodes
      /\ k \in Nat /\ k - 1 \in Nat /\ k + 1 \in Nat
      /\ k \in 0 .. Len(L[h]) /\ k - 1 \in 0 .. Len(L[h]) /\ k - 1 + 1 = k
  BY <1>0, Spelling
<1>2. nx[n] = At(L, h, k + 1) /\ pv[n] = At(L, h, k - 1)
  <2>1. nx[At(L, h, k)] = At(L, h, k + 1)
    BY <1>0, <1>1 DEF Spell
  <2>2. pv[At(L, h, k - 1 + 1)] = At(L, h, k - 1)
    BY <1>0, <1>1 DEF Spell
  <2> QED BY <1>1, <2>1, <2>2
<1>3. At(L, h, k - 1) # n /\ At(L, h, k + 1) # n
  <2>1. At(L, h, k - 1) # At(L, h, k)
    BY <1>0, <1>1, Apart
  <2>2. At(L, h, k + 1) # At(L, h, k - 1 + 1)
    BY <1>0, <1>1, Apart
  <2> QED BY <1>1, <2>1, <2>2
<1>4. At(L, h, k - 1) \in Cells /\ At(L, h, k + 1) \in Cells
  BY <1>0, <1>1, Spelling
<1>5. /\ nx2[At(L, h, k - 1)] = At(L, h, k + 1)
      /\ \A c \in Cells \ {At(L, h, k), At(L, h, k - 1)} : nx2[c] = nx[c]
  BY <1>0, <1>1, <1>2, <1>3, <1>4 DEF Links, Cut, NodeLinksOut
<1>6. /\ pv2[At(L, h, k + 1)] = At(L, h, k - 1)
      /\ \A c \in Cells \ {At(L, h, k), At(L, h, k + 1)} : pv2[c] = pv[c]
  BY <1>0, <1>1, <1>2, <1>3, <1>4 DEF Links, Cut, NodeLinksOut
<1>7. /\ M \in Lists /\ M[h] = t
      /\ \A g \in Heads \ {h} : M[g] = L[g]
  BY <1>0 DEF Lists
<1> HIDE DEF M
<1>8. ListOut(L, M, h, k)
  BY <1>7 DEF ListOut
<1>9. LinksOut(nx, pv, nx2, pv2, L, h, k)
  BY <1>5, <1>6 DEF LinksOut, NodeLinksOut
<1>10. Rings(nx2, pv2, M) /\ Loose(At(L, h, k), M)
  BY <1>8, <1>9, LinkedOut
<1> QED BY <1>1, <1>10 DEF M

LEMMA HeadBack ==
  ASSUME NEW s \in Seq(Nodes), s # <<>>, NEW n, n = s[1]
  PROVE  <<n>> \o Tail(s) = s
<1>1. Len(s) \in Nat \ {0} /\ 1 \in 1 .. Len(s) /\ Len(s) \in 1 .. Len(s)
  OBVIOUS
<1>2. SubSeq(s, 1, Len(s)) = <<s[1]>> \o SubSeq(s, 1 + 1, Len(s))
  BY <1>1, SubSeqRecursiveFirst
<1>3. Tail(s) = SubSeq(s, 2, Len(s)) /\ SubSeq(s, 1, Len(s)) = s /\ 1 + 1 = 2
  BY SubSeqFull, TailIsSubSeq
<1> QED BY <1>2, <1>3

LEMMA HeadOut ==
  ASSUME NEW nx, NEW pv, NEW nx2, NEW pv2, NEW L, Rings(nx, pv, L),
         NEW h \in Heads, L[h] # <<>>, NEW n, n = nx[h], NodeLinksOut(nx, pv, nx2, pv2, n)
  PROVE  /\ n \in Nodes
         /\ Rings(nx2, pv2, [L EXCEPT ![h] = Tail(L[h])])
         /\ Loose(n, [L EXCEPT ![h] = Tail(L[h])])
<1> DEFINE t == Tail(L[h])
<1>0. L \in Lists /\ Spell(nx, pv, L)
  BY DEF Rings
<1>1. /\ L[h] \in Seq(Nodes) /\ Len(L[h]) \in Nat \ {0} /\ 1 \in 1 .. Len(L[h])
      /\ 0 \in 0 .. Len(L[h]) /\ Len(L[h]) \in 1 .. Len(L[h])
  BY <1>0, Spelling
<1>2. At(L, h, 0) = h /\ At(L, h, 1) = L[h][1] /\ L[h][1] \in Nodes
  BY <1>0, <1>1, Spelling
<1>3. n = L[h][1]
  <2>1. nx[At(L, h, 0)] = At(L, h, 0 + 1)
    BY <1>0, <1>1 DEF Spell
  <2> QED BY <1>2, <2>1
<1>4. /\ t \in Seq(Nodes) /\ Len(t) = Len(L[h]) - 1
      /\ \A i \in 1 .. Len(L[h]) - 1 : t[i] = L[h][i + 1]
  BY <1>1
<1> HIDE DEF t
<1>5. \A i \in 1 .. 1 - 1 : t[i] = L[h][i]
  OBVIOUS
<1>6. \A i \in 1 .. Len(L[h]) - 1 : t[i] = L[h][i + 1]
  BY <1>4
<1>7. Rings(nx2, pv2, [L EXCEPT ![h] = t]) /\ Loose(n, [L EXCEPT ![h] = t])
  BY <1>1, <1>3, <1>4, <1>5, <1>6, NodeOut
<1> QED BY <1>2, <1>3, <1>7 DEF t

LEMMA TailOut ==
  ASSUME NEW nx, NEW pv, NEW nx2, NEW pv2, NEW L, Rings(nx, pv, L),
         NEW h \in Heads, L[h] # <<>>, NEW n, n = pv[h], NodeLinksOut(nx, pv, nx2, pv2, n)
  PROVE  /\ n \in Nodes
         /\ Rings(nx2, pv2, [L EXCEPT ![h] = SubSeq(L[h], 1, Len(L[h]) - 1)])
<1> DEFINE t == SubSeq(L[h], 1, Len(L[h]) - 1)  k == Len(L[h])
<1>0. L \in Lists /\ Spell(nx, pv, L)
  BY DEF Rings
<1>1. /\ L[h] \in Seq(Nodes) /\ k \in Nat \ {0} /\ k \in 1 .. Len(L[h]) /\ k \in 0 .. Len(L[h])
  BY <1>0, Spelling
<1>2. At(L, h, k + 1) = h /\ At(L, h, k) = L[h][k] /\ L[h][k] \in Nodes
  BY <1>0, <1>1, Spelling
<1>3. n = L[h][k]
  <2>1. pv[At(L, h, k + 1)] = At(L, h, k)
    BY <1>0, <1>1 DEF Spell
  <2> QED BY <1>2, <2>1
<1>4. /\ t \in Seq(Nodes) /\ Len(t) = k - 1
      /\ \A i \in 1 .. k - 1 : t[i] = L[h][i]
  <2>1. Len(L[h]) - 1 \in Int /\ 1 \in Int /\ \A i \in 1 .. Len(L[h]) - 1 : L[h][i] \in Nodes
    BY <1>1
  <2>2. /\ t \in Seq(Nodes)
        /\ Len(t) = IF 1 <= Len(L[h]) - 1 THEN Len(L[h]) - 1 - 1 + 1 ELSE 0
        /\ \A i \in 1 .. Len(L[h]) - 1 - 1 + 1 : t[i] = L[h][1 + i - 1]
    BY <1>1, <2>1, SubSeqProperties
  <2>3. Len(L[h]) - 1 - 1 + 1 = k - 1 /\ \A i \in 1 .. k - 1 : 1 + i - 1 = i
    BY <1>1
  <2> HIDE DEF t
  <2> QED BY <1>1, <2>2, <2>3
<1> HIDE DEF t
<1>5. \A i \in k .. k - 1 : t[i] = L[h][i + 1]
  BY <1>1
<1>7. Rings(nx2, pv2, [L EXCEPT ![h] = t])
  BY <1>1, <1>3, <1>4, <1>5, NodeOut
<1> QED BY <1>2, <1>3, <1>7 DEF t

LEMMA HeadFirst ==
  ASSUME NEW nx, NEW pv, NEW L, Rings(nx, pv, L), NEW h \in Heads, L[h] # <<>>
  PROVE  nx[h] = L[h][1] /\ nx[h] \in Nodes /\ pv[h] = L[h][Len(L[h])] /\ pv[h] \in Nodes
<1>0. L \in Lists /\ Spell(nx, pv, L)
  BY DEF Rings
<1>1. /\ L[h] \in Seq(Nodes) /\ Len(L[h]) \in Nat \ {0} /\ 1 \in 1 .. Len(L[h])
      /\ 0 \in 0 .. Len(L[h]) /\ Len(L[h]) \in 1 .. Len(L[h]) /\ Len(L[h]) \in 0 .. Len(L[h])
  BY <1>0, Spelling
<1>2. /\ At(L, h, 0) = h /\ At(L, h, 1) = L[h][1] /\ L[h][1] \in Nodes
      /\ At(L, h, Len(L[h]) + 1) = h
      /\ At(L, h, Len(L[h])) = L[h][Len(L[h])] /\ L[h][Len(L[h])] \in Nodes
  BY <1>0, <1>1, Spelling
<1>3. nx[At(L, h, 0)] = At(L, h, 0 + 1) /\ pv[At(L, h, Len(L[h]) + 1)] = At(L, h, Len(L[h]))
  BY <1>0, <1>1 DEF Spell
<1> QED BY <1>2, <1>3

-----------------------------------------------------------------------------
(* The functions from their first step. *)

LEMMA InsertHeadAll ==
  ASSUME NEW nx, NEW pv, NEW L, Rings(nx, pv, L), NEW n, Loose(n, L), NEW h \in Heads
  PROVE  Rings(HeadNext(nx, n, h, 1), HeadPrev(pv, n, h, nx[h], 1), [L EXCEPT ![h] = <<n>> \o L[h]])
<1>1. HeadNext(nx, n, h, 1) = [nx EXCEPT ![n] = nx[h], ![h] = n]
  BY DEF HeadNext
<1>2. HeadPrev(pv, n, h, nx[h], 1) = [pv EXCEPT ![n] = h, ![nx[h]] = n]
  BY DEF HeadPrev
<1> QED BY <1>1, <1>2, HeadIn

LEMMA InsertTailAll ==
  ASSUME NEW nx, NEW pv, NEW L, Rings(nx, pv, L), NEW n, Loose(n, L), NEW h \in Heads
  PROVE  Rings(TailNext(nx, n, h, pv[h], 1), TailPrev(pv, n, h, 1), [L EXCEPT ![h] = Append(L[h], n)])
<1>1. TailNext(nx, n, h, pv[h], 1) = [nx EXCEPT ![n] = h, ![pv[h]] = n]
  BY DEF TailNext
<1>2. TailPrev(pv, n, h, 1) = [pv EXCEPT ![n] = pv[h], ![h] = n]
  BY DEF TailPrev
<1> QED BY <1>1, <1>2, TailIn

LEMMA RemoveAll ==
  ASSUME NEW nx \in Links, NEW pv \in Links, NEW n \in Nodes
  PROVE  NodeLinksOut(nx, pv, RemoveNext(nx, n, pv[n], 1), RemovePrev(pv, n, nx[n], 1), n)
<1>1. n \in Cells
  BY DEF Cells
<1> DEFINE n3 == Cut(nx, pv[n], nx[n])
           p4 == Cut(pv, nx[n], pv[n])
<1>2. n3 \in Links /\ p4 \in Links
  BY <1>1 DEF Links, Cut
<1>3. /\ RemoveNext(nx, n, pv[n], 1) = [n3 EXCEPT ![n] = NULL]
      /\ RemovePrev(pv, n, nx[n], 1) = [p4 EXCEPT ![n] = NULL]
  BY DEF RemoveNext, RemovePrev, Cut
<1> HIDE DEF n3, p4
<1>4. /\ [n3 EXCEPT ![n] = NULL] \in Links /\ [p4 EXCEPT ![n] = NULL] \in Links
      /\ \A c \in Cells \ {n} : [n3 EXCEPT ![n] = NULL][c] = n3[c]
      /\ \A c \in Cells \ {n} : [p4 EXCEPT ![n] = NULL][c] = p4[c]
  BY <1>2 DEF Links
<1>5. /\ RemoveNext(nx, n, pv[n], 1) \in Links /\ RemovePrev(pv, n, nx[n], 1) \in Links
      /\ \A c \in Cells \ {n} : RemoveNext(nx, n, pv[n], 1)[c] = n3[c]
      /\ \A c \in Cells \ {n} : RemovePrev(pv, n, nx[n], 1)[c] = p4[c]
  BY <1>3, <1>4
<1> QED BY <1>5 DEF n3, p4, NodeLinksOut

LEMMA RemoveHeadAll ==
  ASSUME NEW nx, NEW pv, NEW L, Rings(nx, pv, L), NEW h \in Heads, L[h] # <<>>, NEW n, n = nx[h]
  PROVE  /\ n \in Nodes
         /\ Rings(RemoveNext(nx, n, pv[n], 1), RemovePrev(pv, n, nx[n], 1), [L EXCEPT ![h] = Tail(L[h])])
<1>1. nx \in Links /\ pv \in Links /\ n \in Nodes
  BY HeadFirst DEF Rings
<1>2. NodeLinksOut(nx, pv, RemoveNext(nx, n, pv[n], 1), RemovePrev(pv, n, nx[n], 1), n)
  BY <1>1, RemoveAll
<1> QED BY <1>1, <1>2, HeadOut

LEMMA RemoveTailAll ==
  ASSUME NEW nx, NEW pv, NEW L, Rings(nx, pv, L), NEW h \in Heads, L[h] # <<>>, NEW n, n = pv[h]
  PROVE  /\ n \in Nodes
         /\ Rings(RemoveNext(nx, n, pv[n], 1), RemovePrev(pv, n, nx[n], 1), [L EXCEPT ![h] = SubSeq(L[h], 1, Len(L[h]) - 1)])
<1>1. nx \in Links /\ pv \in Links /\ n \in Nodes
  BY HeadFirst DEF Rings
<1>2. NodeLinksOut(nx, pv, RemoveNext(nx, n, pv[n], 1), RemovePrev(pv, n, nx[n], 1), n)
  BY <1>1, RemoveAll
<1> QED BY <1>1, <1>2, TailOut

-----------------------------------------------------------------------------
(* The steps. *)

LEMMA Known ==
  ASSUME TypeOK, call # <<>>
  PROVE  /\ call[1].f \in Functions /\ head \in Heads
         /\ call = <<call[1]>>
<1>1. call \in Seq([f : Functions, head : Heads]) /\ Len(call) <= 1
  BY DEF TypeOK
<1> DEFINE K == [f : Functions, head : Heads]
<1> HIDE DEF K
<1>2. call \in Seq(K) /\ call # <<>> /\ Len(call) <= 1
  BY <1>1 DEF K
<1>3. Len(call) = 1 /\ call[1] \in K /\ call = <<call[1]>>
  BY <1>2
<1> QED BY <1>3 DEF head, K

(* The interrupts are masked while a function is in progress. *)
LEMMA Masked ==
  ASSUME IInv, ~PRIMASK
  PROVE  call = <<>>
<1> SUFFICES ASSUME call # <<>> PROVE FALSE
  OBVIOUS
<1>1. call[1].f \in Functions
  BY Known DEF IInv
<1> QED BY <1>1 DEF IInv, Inserting, Removing, Counting, Running, Functions

LEMMA Pushed ==
  ASSUME NEW K, NEW s \in Seq(K), NEW x \in K
  PROVE  /\ Append(s, x) \in Seq(K) /\ Len(s) \in Nat /\ Len(Append(s, x)) = Len(s) + 1
         /\ \A i \in 1 .. Len(s) : Append(s, x)[i] = s[i]
         /\ Append(s, x)[Len(s) + 1] = x
BY AppendProperties, LenProperties

LEMMA Popped ==
  ASSUME NEW K, NEW s \in Seq(K), Len(s) # 0
  PROVE  /\ SubSeq(s, 1, Len(s) - 1) \in Seq(K)
         /\ Len(s) \in Nat \ {0} /\ Len(SubSeq(s, 1, Len(s) - 1)) = Len(s) - 1
         /\ \A i \in 1 .. Len(s) - 1 : SubSeq(s, 1, Len(s) - 1)[i] = s[i]
         /\ s[Len(s)] \in K
<1>1. Len(s) \in Nat \ {0} /\ Len(s) - 1 \in Int /\ 1 \in Int
  OBVIOUS
<1>2. \A i \in 1 .. Len(s) - 1 : s[i] \in K
  BY <1>1
<1>3. /\ SubSeq(s, 1, Len(s) - 1) \in Seq(K)
      /\ Len(SubSeq(s, 1, Len(s) - 1)) = IF 1 <= Len(s) - 1 THEN Len(s) - 1 - 1 + 1 ELSE 0
      /\ \A i \in 1 .. Len(s) - 1 - 1 + 1 : SubSeq(s, 1, Len(s) - 1)[i] = s[1 + i - 1]
  BY <1>1, <1>2, SubSeqProperties
<1>4. Len(s) - 1 - 1 + 1 = Len(s) - 1 /\ \A i \in 1 .. Len(s) - 1 : 1 + i - 1 = i
  BY <1>1
<1> QED BY <1>1, <1>3, <1>4

LEMMA CallPreserves ==
  ASSUME IInv, NEW f \in Functions, NEW h \in Heads, NEW n \in Nodes \cup {NULL}, Call(f, h, n)
  PROVE  IInv'
<1>0. TypeOK /\ Once(lists) /\ Idle
  BY DEF IInv
<1>1. /\ call = <<>> /\ call' = <<[f |-> f, head |-> h]>> /\ at' = 1
      /\ node' = n /\ temp' = next[h] /\ size' = 0
      /\ UNCHANGED <<next, prev, lists>>
      /\ saved' = Append(saved, PRIMASK) /\ PRIMASK' = TRUE
  BY DEF Call, Disable, links
<1>2. at = 0 /\ PRIMASK = FALSE /\ Len(saved) = 0 /\ Rings(next, prev, lists)
  BY <1>0, <1>1 DEF Idle
<1>3. saved' \in Seq(BOOLEAN) /\ Saves(1)' /\ PRIMASK' = TRUE
  <2>1. saved \in Seq(BOOLEAN) /\ saved' = Append(saved, FALSE)
    BY <1>0, <1>1, <1>2 DEF TypeOK
  <2>2. /\ saved' \in Seq(BOOLEAN) /\ Len(saved') = Len(saved) + 1
        /\ saved'[Len(saved) + 1] = FALSE
    BY <2>1, Pushed
  <2>3. Len(saved) + 1 = 1
    BY <1>2
  <2>4. Len(saved') = 1 /\ saved'[1] = FALSE
    BY <2>2, <2>3
  <2> QED BY <1>1, <2>2, <2>4 DEF Saves
<1>4. /\ call' # <<>> /\ call'[1].f = f /\ head' = h
      /\ \A g : Running(g)' <=> g = f
  BY <1>1 DEF head, Running
<1>5. h \in Cells /\ next \in Links /\ prev \in Links /\ lists \in Lists /\ Spell(next, prev, lists)
  BY <1>2 DEF Rings, Cells
<1>6. TypeOK'
  <2>1. call' \in Seq([f : Functions, head : Heads]) /\ Len(call') <= 1
    BY <1>1
  <2>2. saved' \in Seq(BOOLEAN) /\ Len(saved') <= 2 /\ PRIMASK' \in BOOLEAN
    <3>1. Len(saved') = 1
      BY <1>3 DEF Saves
    <3> QED BY <1>3, <3>1
  <2>3. /\ temp' \in Cells \cup {NULL} /\ node' \in Cells \cup {NULL} /\ size' \in Nat
        /\ at' \in 0 .. 8
    BY <1>1, <1>5 DEF Links, Cells
  <2> QED BY <1>0, <1>1, <2>1, <2>2, <2>3 DEF TypeOK
<1>7. Once(lists)' /\ Idle'
  BY <1>0, <1>1, <1>4 DEF Idle, Once
<1>8. Inserting'
  <2>1. CASE f \in Insertions
    <3>1. Loose(n, lists)
      BY <2>1 DEF Call, Listed, Loose
    <3>2. CASE f = "list_insert_head"
      <4>1. Effect' = <<n>> \o lists[h]
        BY <1>1, <1>4, <3>2 DEF Effect
      <4>2. Rings(HeadNext(next, n, h, 1), HeadPrev(prev, n, h, next[h], 1),
                  [lists EXCEPT ![h] = <<n>> \o lists[h]])
        BY <1>2, <3>1, InsertHeadAll
      <4>3. After' = next[h]
        BY <1>1, <1>4 DEF After
      <4>4. Left(HeadNext(next, node, head, at), HeadPrev(prev, node, head, After, at))'
        BY <1>1, <1>4, <4>1, <4>2, <4>3 DEF Left
      <4> QED BY <1>1, <1>3, <1>4, <2>1, <3>1, <3>2, <4>4 DEF Inserting, Loose
    <3>3. CASE f = "list_insert_tail"
      <4>1. Effect' = Append(lists[h], n)
        BY <1>1, <1>4, <3>3 DEF Effect
      <4>2. Rings(TailNext(next, n, h, prev[h], 1), TailPrev(prev, n, h, 1),
                  [lists EXCEPT ![h] = Append(lists[h], n)])
        BY <1>2, <3>1, InsertTailAll
      <4>3. Before' = prev[h]
        BY <1>1, <1>4 DEF Before
      <4>4. Left(TailNext(next, node, head, Before, at), TailPrev(prev, node, head, at))'
        BY <1>1, <1>4, <4>1, <4>2, <4>3 DEF Left
      <4> QED BY <1>1, <1>3, <1>4, <2>1, <3>1, <3>3, <4>4 DEF Inserting, Loose
    <3> QED BY <2>1, <3>2, <3>3 DEF Insertions
  <2>2. CASE f \notin Insertions
    BY <1>4, <2>2 DEF Inserting, Insertions
  <2> QED BY <2>1, <2>2
<1>9. Removing'
  <2> SUFFICES ASSUME f \in Removals PROVE Removing'
    BY <1>4 DEF Removing
  <2>1. lists[h] # <<>>
    BY DEF Call
  <2> DEFINE n1 == IF f = "list_remove_head" THEN next[h] ELSE prev[h]
  <2>2. Removed(f)' = n1
    BY <1>1, <1>4 DEF Removed
  <2>3. CASE f = "list_remove_head"
    <3>1. Effect' = Tail(lists[h])
      BY <1>1, <1>4, <2>3 DEF Effect
    <3>2. n1 = next[h]
      BY <2>3
    <3> HIDE DEF n1
    <3>3. /\ n1 \in Nodes
          /\ Rings(RemoveNext(next, n1, prev[n1], 1), RemovePrev(prev, n1, next[n1], 1),
                   [lists EXCEPT ![h] = Tail(lists[h])])
      BY <1>2, <2>1, <3>2, RemoveHeadAll
    <3>4. Rings(RemoveNext(next', n1, prev'[n1], at'), RemovePrev(prev', n1, next'[n1], at'),
                [lists' EXCEPT ![head'] = Effect'])
      BY <1>1, <1>4, <3>1, <3>3
    <3> QED BY <1>1, <1>3, <1>4, <2>2, <2>3, <3>3, <3>4 DEF Removing, Left
  <2>4. CASE f = "list_remove_tail"
    <3>1. Effect' = SubSeq(lists[h], 1, Len(lists[h]) - 1)
      BY <1>1, <1>4, <2>4 DEF Effect
    <3>2. n1 = prev[h]
      BY <2>4
    <3> HIDE DEF n1
    <3>3. /\ n1 \in Nodes
          /\ Rings(RemoveNext(next, n1, prev[n1], 1), RemovePrev(prev, n1, next[n1], 1),
                   [lists EXCEPT ![h] = SubSeq(lists[h], 1, Len(lists[h]) - 1)])
      BY <1>2, <2>1, <3>2, RemoveTailAll
    <3>4. Rings(RemoveNext(next', n1, prev'[n1], at'), RemovePrev(prev', n1, next'[n1], at'),
                [lists' EXCEPT ![head'] = Effect'])
      BY <1>1, <1>4, <3>1, <3>3
    <3> QED BY <1>1, <1>3, <1>4, <2>2, <2>4, <3>3, <3>4 DEF Removing, Left
  <2> QED BY <2>3, <2>4 DEF Removals
<1>10. Counting'
  <2> SUFFICES ASSUME f = "list_get_size" PROVE Counting'
    BY <1>4 DEF Counting
  <2>1. Len(lists[h]) \in Nat /\ 0 \in 0 .. Len(lists[h]) /\ At(lists, h, 0) = h
    BY <1>5, Spelling
  <2>2. next[h] = At(lists, h, 0 + 1)
    BY <1>5, <2>1 DEF Spell
  <2>3. size' <= Len(lists[h])
    BY <1>1, <2>1
  <2> QED BY <1>1, <1>2, <1>3, <1>4, <2>2, <2>3 DEF Counting
<1> QED BY <1>6, <1>7, <1>8, <1>9, <1>10 DEF IInv

LEMMA ReturnPreserves ==
  ASSUME IInv, call # <<>>, Saves(1), Left(next, prev), Return
  PROVE  IInv'
<1>0. TypeOK /\ head \in Heads
  BY Known DEF IInv
<1>1. /\ call' = <<>> /\ at' = 0
      /\ lists' = [lists EXCEPT ![head] = Effect]
      /\ PRIMASK' = saved[Len(saved)] /\ saved' = SubSeq(saved, 1, Len(saved) - 1)
      /\ UNCHANGED <<next, prev, node, temp, size>>
  BY DEF Return, Restore, links, locals
<1>2. Rings(next', prev', lists')
  BY <1>1 DEF Left
<1>3. PRIMASK' = FALSE
  BY <1>1 DEF Saves
<1>4. saved' \in Seq(BOOLEAN) /\ Len(saved') = 0
  <2>1. saved \in Seq(BOOLEAN) /\ Len(saved) = 1
    BY <1>0 DEF TypeOK, Saves
  <2>2. saved' \in Seq(BOOLEAN) /\ Len(saved') = Len(saved) - 1
    BY <1>1, <2>1, Popped
  <2> QED BY <2>1, <2>2
<1>5. TypeOK'
  <2>1. call' \in Seq([f : Functions, head : Heads]) /\ Len(call') <= 1
    BY <1>1
  <2>2. Len(saved') <= 2 /\ at' \in 0 .. 8
    BY <1>1, <1>4
  <2>3. lists' \in [Heads -> Seq(Nodes)]
    BY <1>2 DEF Rings, Lists
  <2> QED BY <1>0, <1>1, <1>3, <1>4, <2>1, <2>2, <2>3 DEF TypeOK
<1>6. Once(lists)'
  BY <1>2 DEF Rings
<1>7. Idle'
  BY <1>1, <1>2, <1>3, <1>4 DEF Idle
<1>8. Inserting' /\ Removing' /\ Counting'
  BY <1>1 DEF Inserting, Removing, Counting, Running
<1> QED BY <1>5, <1>6, <1>7, <1>8 DEF IInv

LEMMA ListGetSizePreserves ==
  ASSUME IInv, ListGetSize
  PROVE  IInv'
<1>0. TypeOK /\ Once(lists) /\ Counting /\ Running("list_get_size")
  BY DEF IInv, ListGetSize
<1>1. /\ call # <<>> /\ call[1].f = "list_get_size" /\ head \in Heads /\ call = <<call[1]>>
  BY <1>0, Known DEF Running
<1>2. /\ at = 1 /\ PRIMASK = TRUE /\ Saves(1) /\ Rings(next, prev, lists)
      /\ size <= Len(lists[head]) /\ temp = At(lists, head, size + 1)
  BY <1>0 DEF Counting
<1>3. CASE temp = head
  <2>1. Return
    BY <1>0, <1>3 DEF ListGetSize
  <2>2. Effect = lists[head]
    BY <1>1 DEF Effect, Running
  <2>3. [lists EXCEPT ![head] = Effect] = lists
    BY <1>0, <1>1, <2>2 DEF TypeOK
  <2> QED BY <1>1, <1>2, <2>1, <2>3, ReturnPreserves DEF Left
<1>4. CASE temp # head
  <2>1. /\ size' = size + 1 /\ temp' = next[temp]
        /\ UNCHANGED <<links, mask, call, at, node, lists>>
    BY <1>0, <1>4 DEF ListGetSize
  <2>2. /\ Len(lists[head]) \in Nat /\ size \in Nat
        /\ At(lists, head, Len(lists[head]) + 1) = head
    BY <1>0, <1>1, <1>2, Spelling DEF Rings, TypeOK
  <2>3. size # Len(lists[head])
    BY <1>2, <1>4, <2>2
  <2>4. /\ size + 1 \in 0 .. Len(lists[head]) /\ size + 1 <= Len(lists[head])
        /\ size + 1 \in Nat /\ size + 1 + 1 \in Nat
    BY <1>2, <2>2, <2>3
  <2>5. temp' = At(lists, head, size + 1 + 1)
    BY <1>1, <1>2, <2>1, <2>4 DEF Rings, Spell
  <2>6. At(lists, head, size + 1 + 1) \in Cells
    BY <1>1, <1>2, <2>4, Spelling DEF Rings
  <2>7. TypeOK'
    BY <1>0, <2>1, <2>4, <2>5, <2>6 DEF TypeOK, links, mask
  <2>8. head' = head /\ \A f : Running(f)' <=> f = "list_get_size"
    BY <1>1, <2>1 DEF head, Running
  <2>9. Counting'
    <3>1. Rings(next, prev, lists)' /\ Saves(1)' /\ at' = 1 /\ PRIMASK' = TRUE
      BY <1>2, <2>1 DEF links, mask, Saves
    <3>2. size' <= Len(lists'[head']) /\ temp' = At(lists', head', size' + 1)
      BY <2>1, <2>4, <2>5, <2>8
    <3> QED BY <3>1, <3>2 DEF Counting
  <2>10. Idle' /\ Inserting' /\ Removing' /\ Once(lists)'
    BY <1>0, <1>1, <2>1, <2>8 DEF Idle, Inserting, Removing, Insertions, Removals
  <2> QED BY <2>7, <2>9, <2>10 DEF IInv
<1> QED BY <1>3, <1>4

LEMMA ListInsertHeadPreserves ==
  ASSUME IInv, ListInsertHead
  PROVE  IInv'
<1>0. TypeOK /\ Once(lists) /\ Inserting /\ Running("list_insert_head")
  BY DEF IInv, ListInsertHead
<1>1. /\ call # <<>> /\ call[1].f = "list_insert_head" /\ head \in Heads
  BY <1>0, Known DEF Running
<1>2. /\ at \in 1 .. 5 /\ node \in Nodes /\ PRIMASK = TRUE /\ Saves(1)
      /\ Left(HeadNext(next, node, head, at), HeadPrev(prev, node, head, After, at))
  BY <1>0 DEF Inserting, Insertions
<1>3. next \in Links /\ prev \in Links /\ node \in Cells /\ head \in Cells /\ node # head
  BY <1>0, <1>1, <1>2, ListAssumption DEF TypeOK, Links, Cells
<1>4. CASE at = 5 /\ Return
  <2>1. HeadNext(next, node, head, at) = next /\ HeadPrev(prev, node, head, After, at) = prev
    BY <1>4 DEF HeadNext, HeadPrev
  <2> QED BY <1>1, <1>2, <1>4, <2>1, ReturnPreserves
<1>5. CASE ~(at = 5 /\ Return)
  <2>1. /\ at' = at + 1 /\ at \in 1 .. 4
        /\ UNCHANGED <<call, lists, mask, locals>>
        /\ next' \in Links /\ prev' \in Links
        /\ HeadNext(next', node, head, at') = HeadNext(next, node, head, at)
        /\ HeadPrev(prev', node, head, After', at') = HeadPrev(prev, node, head, After, at)
    <3>0. head' = head \/ call' # call
      BY DEF head
    <3>1. CASE Step(1) /\ SetNext(node, next[head]) /\ UNCHANGED <<mask, locals>>
      <4>1. /\ at = 1 /\ at' = 2 /\ next' = [next EXCEPT ![node] = next[head]] /\ prev' = prev
            /\ UNCHANGED <<call, lists, mask, locals>> /\ node' = node /\ head' = head
        BY <3>0, <3>1 DEF Step, SetNext, locals
      <4>2. next' \in Links /\ next'[node] = next[head]
        BY <1>3, <4>1 DEF Links
      <4>3. After' = After
        BY <4>1, <4>2 DEF After
      <4>4. HeadNext(next', node, head, at') = HeadNext(next, node, head, at)
        BY <4>1 DEF HeadNext
      <4>5. HeadPrev(prev', node, head, After', at') = HeadPrev(prev, node, head, After, at)
        BY <4>1, <4>3 DEF HeadPrev
      <4> QED BY <1>3, <4>1, <4>2, <4>4, <4>5
    <3>2. CASE Step(2) /\ SetPrev(node, head) /\ UNCHANGED <<mask, locals>>
      <4>1. /\ at = 2 /\ at' = 3 /\ next' = next /\ prev' = [prev EXCEPT ![node] = head]
            /\ UNCHANGED <<call, lists, mask, locals>> /\ node' = node /\ head' = head
        BY <3>0, <3>2 DEF Step, SetPrev, locals
      <4>2. prev' \in Links
        BY <1>3, <4>1 DEF Links
      <4>3. After' = After
        BY <4>1 DEF After
      <4>4. HeadNext(next', node, head, at') = HeadNext(next, node, head, at)
        BY <4>1 DEF HeadNext
      <4>5. HeadPrev(prev', node, head, After', at') = HeadPrev(prev, node, head, After, at)
        BY <4>1, <4>3 DEF HeadPrev
      <4> QED BY <1>3, <4>1, <4>2, <4>4, <4>5
    <3>3. CASE Step(3) /\ SetNext(head, node) /\ UNCHANGED <<mask, locals>>
      <4>1. /\ at = 3 /\ at' = 4 /\ next' = [next EXCEPT ![head] = node] /\ prev' = prev
            /\ UNCHANGED <<call, lists, mask, locals>> /\ node' = node /\ head' = head
        BY <3>0, <3>3 DEF Step, SetNext, locals
      <4>2. next' \in Links /\ next'[node] = next[node]
        BY <1>3, <4>1 DEF Links
      <4>3. After' = After
        BY <4>1, <4>2 DEF After
      <4>4. HeadNext(next', node, head, at') = HeadNext(next, node, head, at)
        BY <4>1 DEF HeadNext
      <4>5. HeadPrev(prev', node, head, After', at') = HeadPrev(prev, node, head, After, at)
        BY <4>1, <4>3 DEF HeadPrev
      <4> QED BY <1>3, <4>1, <4>2, <4>4, <4>5
    <3>4. CASE Step(4) /\ SetPrev(next[node], node) /\ UNCHANGED <<mask, locals>>
      <4>1. /\ at = 4 /\ at' = 5 /\ next' = next /\ prev' = [prev EXCEPT ![next[node]] = node]
            /\ UNCHANGED <<call, lists, mask, locals>> /\ node' = node /\ head' = head
        BY <3>0, <3>4 DEF Step, SetPrev, locals
      <4>2. prev' \in Links
        BY <1>3, <4>1 DEF Links
      <4>3. After = next[node]
        BY <4>1 DEF After
      <4>4. HeadNext(next', node, head, at') = HeadNext(next, node, head, at)
        BY <4>1 DEF HeadNext
      <4>5. HeadPrev(prev', node, head, After', at') = HeadPrev(prev, node, head, After, at)
        BY <4>1, <4>3 DEF HeadPrev
      <4> QED BY <1>3, <4>1, <4>2, <4>4, <4>5
    <3> QED BY <1>5, <3>1, <3>2, <3>3, <3>4 DEF ListInsertHead
  <2>2. /\ head' = head /\ node' = node /\ Effect' = Effect
        /\ \A f : Running(f)' <=> f = "list_insert_head"
    BY <1>1, <2>1 DEF head, Running, Effect, locals
  <2>3. TypeOK'
    <3>1. at' \in 0 .. 8
      BY <2>1
    <3> QED BY <1>0, <2>1, <3>1 DEF TypeOK, mask, locals, Links
  <2>4. Left(HeadNext(next, node, head, at), HeadPrev(prev, node, head, After, at))'
    BY <1>2, <2>1, <2>2 DEF Left
  <2>5. at' \in 1 .. 5 /\ node' \in Nodes /\ PRIMASK' = TRUE /\ Saves(1)'
    BY <1>2, <2>1, <2>2 DEF mask, Saves
  <2>6. Inserting'
    BY <2>2, <2>4, <2>5 DEF Inserting
  <2>7. Idle' /\ Removing' /\ Counting' /\ Once(lists)'
    BY <1>0, <1>1, <2>1, <2>2 DEF Idle, Removing, Counting, Removals
  <2> QED BY <2>3, <2>6, <2>7 DEF IInv
<1> QED BY <1>4, <1>5

LEMMA ListInsertTailPreserves ==
  ASSUME IInv, ListInsertTail
  PROVE  IInv'
<1>0. TypeOK /\ Once(lists) /\ Inserting /\ Running("list_insert_tail")
  BY DEF IInv, ListInsertTail
<1>1. /\ call # <<>> /\ call[1].f = "list_insert_tail" /\ head \in Heads
  BY <1>0, Known DEF Running
<1>2. /\ at \in 1 .. 5 /\ node \in Nodes /\ PRIMASK = TRUE /\ Saves(1)
      /\ Left(TailNext(next, node, head, Before, at), TailPrev(prev, node, head, at))
  BY <1>0 DEF Inserting, Insertions
<1>3. next \in Links /\ prev \in Links /\ node \in Cells /\ head \in Cells /\ node # head
  BY <1>0, <1>1, <1>2, ListAssumption DEF TypeOK, Links, Cells
<1>4. CASE at = 5 /\ Return
  <2>1. TailNext(next, node, head, Before, at) = next /\ TailPrev(prev, node, head, at) = prev
    BY <1>4 DEF TailNext, TailPrev
  <2> QED BY <1>1, <1>2, <1>4, <2>1, ReturnPreserves
<1>5. CASE ~(at = 5 /\ Return)
  <2>1. /\ at' = at + 1 /\ at \in 1 .. 4
        /\ UNCHANGED <<call, lists, mask, locals>>
        /\ next' \in Links /\ prev' \in Links
        /\ TailNext(next', node, head, Before', at') = TailNext(next, node, head, Before, at)
        /\ TailPrev(prev', node, head, at') = TailPrev(prev, node, head, at)
    <3>0. head' = head \/ call' # call
      BY DEF head
    <3>1. CASE Step(1) /\ SetNext(node, head) /\ UNCHANGED <<mask, locals>>
      <4>1. /\ at = 1 /\ at' = 2 /\ next' = [next EXCEPT ![node] = head] /\ prev' = prev
            /\ UNCHANGED <<call, lists, mask, locals>> /\ node' = node /\ head' = head
        BY <3>0, <3>1 DEF Step, SetNext, locals
      <4>2. next' \in Links
        BY <1>3, <4>1 DEF Links
      <4>3. Before' = Before
        BY <4>1, <4>2 DEF Before
      <4>4. TailNext(next', node, head, Before', at') = TailNext(next, node, head, Before, at)
        BY <4>1, <4>3 DEF TailNext
      <4>5. TailPrev(prev', node, head, at') = TailPrev(prev, node, head, at)
        BY <4>1 DEF TailPrev
      <4> QED BY <1>3, <4>1, <4>2, <4>4, <4>5
    <3>2. CASE Step(2) /\ SetPrev(node, prev[head]) /\ UNCHANGED <<mask, locals>>
      <4>1. /\ at = 2 /\ at' = 3 /\ next' = next /\ prev' = [prev EXCEPT ![node] = prev[head]]
            /\ UNCHANGED <<call, lists, mask, locals>> /\ node' = node /\ head' = head
        BY <3>0, <3>2 DEF Step, SetPrev, locals
      <4>2. prev' \in Links /\ prev'[node] = prev[head]
        BY <1>3, <4>1 DEF Links
      <4>3. Before' = Before
        BY <4>1, <4>2 DEF Before
      <4>4. TailNext(next', node, head, Before', at') = TailNext(next, node, head, Before, at)
        BY <4>1, <4>3 DEF TailNext
      <4>5. TailPrev(prev', node, head, at') = TailPrev(prev, node, head, at)
        BY <4>1 DEF TailPrev
      <4> QED BY <1>3, <4>1, <4>2, <4>4, <4>5
    <3>3. CASE Step(3) /\ SetPrev(head, node) /\ UNCHANGED <<mask, locals>>
      <4>1. /\ at = 3 /\ at' = 4 /\ next' = next /\ prev' = [prev EXCEPT ![head] = node]
            /\ UNCHANGED <<call, lists, mask, locals>> /\ node' = node /\ head' = head
        BY <3>0, <3>3 DEF Step, SetPrev, locals
      <4>2. prev' \in Links /\ prev'[node] = prev[node]
        BY <1>3, <4>1 DEF Links
      <4>3. Before' = Before
        BY <4>1, <4>2 DEF Before
      <4>4. TailNext(next', node, head, Before', at') = TailNext(next, node, head, Before, at)
        BY <4>1, <4>3 DEF TailNext
      <4>5. TailPrev(prev', node, head, at') = TailPrev(prev, node, head, at)
        BY <4>1 DEF TailPrev
      <4> QED BY <1>3, <4>1, <4>2, <4>4, <4>5
    <3>4. CASE Step(4) /\ SetNext(prev[node], node) /\ UNCHANGED <<mask, locals>>
      <4>1. /\ at = 4 /\ at' = 5 /\ next' = [next EXCEPT ![prev[node]] = node] /\ prev' = prev
            /\ UNCHANGED <<call, lists, mask, locals>> /\ node' = node /\ head' = head
        BY <3>0, <3>4 DEF Step, SetNext, locals
      <4>2. next' \in Links
        BY <1>3, <4>1 DEF Links
      <4>3. Before' = Before
        BY <4>1, <4>2 DEF Before
      <4>6. Before = prev[node]
        BY <4>1 DEF Before
      <4>4. TailNext(next', node, head, Before', at') = TailNext(next, node, head, Before, at)
        BY <4>1, <4>3, <4>6 DEF TailNext
      <4>5. TailPrev(prev', node, head, at') = TailPrev(prev, node, head, at)
        BY <4>1 DEF TailPrev
      <4> QED BY <1>3, <4>1, <4>2, <4>4, <4>5
    <3> QED BY <1>5, <3>1, <3>2, <3>3, <3>4 DEF ListInsertTail
  <2>2. /\ head' = head /\ node' = node /\ Effect' = Effect
        /\ \A f : Running(f)' <=> f = "list_insert_tail"
    BY <1>1, <2>1 DEF head, Running, Effect, locals
  <2>3. TypeOK'
    <3>1. at' \in 0 .. 8
      BY <2>1
    <3> QED BY <1>0, <2>1, <3>1 DEF TypeOK, mask, locals, Links
  <2>4. Left(TailNext(next, node, head, Before, at), TailPrev(prev, node, head, at))'
    BY <1>2, <2>1, <2>2 DEF Left
  <2>5. at' \in 1 .. 5 /\ node' \in Nodes /\ PRIMASK' = TRUE /\ Saves(1)'
    BY <1>2, <2>1, <2>2 DEF mask, Saves
  <2>6. Inserting'
    BY <2>2, <2>4, <2>5 DEF Inserting
  <2>7. Idle' /\ Removing' /\ Counting' /\ Once(lists)'
    BY <1>0, <1>1, <2>1, <2>2 DEF Idle, Removing, Counting, Removals
  <2> QED BY <2>3, <2>6, <2>7 DEF IInv
<1> QED BY <1>4, <1>5

LEMMA ListRemovePreserves ==
  ASSUME IInv, ListRemove
  PROVE  IInv'
<1>0. TypeOK /\ Once(lists) /\ Removing /\ call # <<>> /\ call[1].f \in Removals
  BY DEF IInv, ListRemove
<1> DEFINE f == call[1].f
<1>1. head \in Heads /\ Running(f) /\ \A g : Running(g) <=> g = f
  BY <1>0, Known DEF Running
<1> HIDE DEF f
<1>a. f \in Removals /\ (Running("list_remove_head") <=> f = "list_remove_head")
  BY <1>0, <1>1 DEF f
<1>2. PICK n \in Nodes :
        /\ n = Removed(f) /\ at \in 1 .. 8 /\ PRIMASK = TRUE
        /\ Saves(IF at \in 3 .. 5 THEN 2 ELSE 1)
        /\ Left(RemoveNext(next, n, prev[n], at), RemovePrev(prev, n, next[n], at))
  BY <1>0, <1>1, <1>a DEF Removing
<1>3. next \in Links /\ prev \in Links /\ n \in Cells /\ head \in Cells
  BY <1>0, <1>1 DEF TypeOK, Links, Cells
<1>4. saved \in Seq(BOOLEAN) /\ (at > 1 => node = n)
  BY <1>0, <1>2 DEF TypeOK, Removed
<1>5. CASE at = 8 /\ Return
  <2>1. /\ RemoveNext(next, n, prev[n], at) = next /\ RemovePrev(prev, n, next[n], at) = prev
        /\ Saves(1)
    BY <1>2, <1>5 DEF RemoveNext, RemovePrev
  <2> QED BY <1>0, <1>2, <1>5, <2>1, ReturnPreserves
<1>6. CASE ~(at = 8 /\ Return)
  <2>1. /\ at' = at + 1 /\ at \in 1 .. 7
        /\ UNCHANGED <<call, lists, temp, size>> /\ node' = n
        /\ next' \in Links /\ prev' \in Links
        /\ RemoveNext(next', n, prev'[n], at') = RemoveNext(next, n, prev[n], at)
        /\ RemovePrev(prev', n, next'[n], at') = RemovePrev(prev, n, next[n], at)
        /\ saved' \in Seq(BOOLEAN) /\ PRIMASK' = TRUE
        /\ Saves(IF at \in 3 .. 5 THEN 2 ELSE 1)'
    <3>1. CASE /\ Step(1)
               /\ node' = IF Running("list_remove_head") THEN next[head] ELSE prev[head]
               /\ UNCHANGED <<links, mask, temp, size>>
      <4>1. /\ at = 1 /\ at' = 2 /\ next' = next /\ prev' = prev
            /\ UNCHANGED <<call, lists, saved, PRIMASK, temp, size>> /\ node' = n
        BY <1>a, <1>2, <3>1 DEF Step, Removed, mask, links
      <4>2. next' \in Links /\ prev' \in Links
        BY <1>3, <4>1 DEF Links
      <4>3. RemoveNext(next', n, prev'[n], at') = RemoveNext(next, n, prev[n], at)
        BY <4>1 DEF RemoveNext
      <4>4. RemovePrev(prev', n, next'[n], at') = RemovePrev(prev, n, next[n], at)
        BY <4>1, <4>2 DEF RemovePrev
      <4>5. saved' \in Seq(BOOLEAN) /\ PRIMASK' = TRUE /\ Saves(IF at \in 3 .. 5 THEN 2 ELSE 1)'
        BY <1>2, <1>4, <4>1 DEF Saves
      <4> QED BY <4>1, <4>2, <4>3, <4>4, <4>5
    <3>2. CASE Step(2) /\ Disable("list_remove_node") /\ UNCHANGED <<links, locals>>
      <4>1. /\ at = 2 /\ at' = 3 /\ next' = next /\ prev' = prev
            /\ UNCHANGED <<call, lists, temp, size>> /\ node' = n
            /\ saved' = Append(saved, PRIMASK) /\ PRIMASK' = TRUE
        BY <1>2, <3>2 DEF Step, Disable, Removed, links, locals
      <4>3. RemoveNext(next', n, prev'[n], at') = RemoveNext(next, n, prev[n], at)
        BY <4>1 DEF RemoveNext
      <4>4. RemovePrev(prev', n, next'[n], at') = RemovePrev(prev, n, next[n], at)
        BY <4>1 DEF RemovePrev
      <4>5. saved' \in Seq(BOOLEAN) /\ Saves(IF at \in 3 .. 5 THEN 2 ELSE 1)'
        <5>1. Len(saved) = 1 /\ saved[1] = FALSE
          BY <1>2, <4>1 DEF Saves
        <5>2. saved' = Append(saved, TRUE) /\ TRUE \in BOOLEAN
          BY <1>2, <4>1
        <5>3. /\ saved' \in Seq(BOOLEAN) /\ Len(saved') = Len(saved) + 1
              /\ \A i \in 1 .. Len(saved) : saved'[i] = saved[i]
              /\ saved'[Len(saved) + 1] = TRUE
          BY <1>4, <5>2, Pushed
        <5>4. Len(saved) + 1 = 2 /\ 1 \in 1 .. Len(saved)
          BY <5>1
        <5>5. Len(saved') = 2 /\ saved'[1] = FALSE /\ saved'[2] = TRUE
          BY <5>1, <5>3, <5>4, Zenon
        <5>6. at' \in 3 .. 5
          BY <4>1
        <5> QED BY <5>3, <5>5, <5>6 DEF Saves
      <4> QED BY <1>3, <4>1, <4>3, <4>4, <4>5
    <3>3. CASE Step(3) /\ SetNext(prev[node], next[node]) /\ UNCHANGED <<mask, locals>>
      <4>1. /\ at = 3 /\ at' = 4 /\ next' = [next EXCEPT ![prev[n]] = next[n]] /\ prev' = prev
            /\ UNCHANGED <<call, lists, saved, PRIMASK, temp, size>> /\ node' = n
        BY <1>2, <3>3 DEF Step, SetNext, Removed, mask, locals
      <4>2. next' \in Links /\ prev' \in Links /\ next'[n] = next[n]
        BY <1>3, <4>1 DEF Links
      <4>3. RemoveNext(next', n, prev'[n], at') = RemoveNext(next, n, prev[n], at)
        BY <4>1 DEF RemoveNext
      <4>4. RemovePrev(prev', n, next'[n], at') = RemovePrev(prev, n, next[n], at)
        BY <4>1, <4>2 DEF RemovePrev
      <4>5. saved' \in Seq(BOOLEAN) /\ PRIMASK' = TRUE /\ Saves(IF at \in 3 .. 5 THEN 2 ELSE 1)'
        BY <1>2, <1>4, <4>1 DEF Saves
      <4> QED BY <4>1, <4>2, <4>3, <4>4, <4>5
    <3>4. CASE Step(4) /\ SetPrev(next[node], prev[node]) /\ UNCHANGED <<mask, locals>>
      <4>1. /\ at = 4 /\ at' = 5 /\ next' = next /\ prev' = [prev EXCEPT ![next[n]] = prev[n]]
            /\ UNCHANGED <<call, lists, saved, PRIMASK, temp, size>> /\ node' = n
        BY <1>2, <3>4 DEF Step, SetPrev, Removed, mask, locals
      <4>2. next' \in Links /\ prev' \in Links
        BY <1>3, <4>1 DEF Links
      <4>3. RemoveNext(next', n, prev'[n], at') = RemoveNext(next, n, prev[n], at)
        BY <4>1 DEF RemoveNext
      <4>4. RemovePrev(prev', n, next'[n], at') = RemovePrev(prev, n, next[n], at)
        BY <4>1, <4>2 DEF RemovePrev
      <4>5. saved' \in Seq(BOOLEAN) /\ PRIMASK' = TRUE /\ Saves(IF at \in 3 .. 5 THEN 2 ELSE 1)'
        BY <1>2, <1>4, <4>1 DEF Saves
      <4> QED BY <4>1, <4>2, <4>3, <4>4, <4>5
    <3>5. CASE Step(5) /\ Restore /\ UNCHANGED <<links, locals>>
      <4>1. /\ at = 5 /\ at' = 6 /\ next' = next /\ prev' = prev
            /\ UNCHANGED <<call, lists, temp, size>> /\ node' = n
            /\ PRIMASK' = saved[Len(saved)] /\ saved' = SubSeq(saved, 1, Len(saved) - 1)
        BY <1>2, <3>5 DEF Step, Restore, Removed, links, locals
      <4>3. RemoveNext(next', n, prev'[n], at') = RemoveNext(next, n, prev[n], at)
        BY <4>1 DEF RemoveNext
      <4>4. RemovePrev(prev', n, next'[n], at') = RemovePrev(prev, n, next[n], at)
        BY <4>1 DEF RemovePrev
      <4>5. saved' \in Seq(BOOLEAN) /\ PRIMASK' = TRUE /\ Saves(IF at \in 3 .. 5 THEN 2 ELSE 1)'
        <5>0. Saves(2)
          <6>1. at \in 3 .. 5
            BY <4>1
          <6> QED BY <1>2, <6>1
        <5>1. Len(saved) = 2 /\ saved[1] = FALSE /\ saved[2] = TRUE
          BY <5>0 DEF Saves
        <5>2. Len(saved) # 0 /\ Len(saved) - 1 = 1 /\ 1 \in 1 .. Len(saved) - 1
          BY <5>1
        <5>3. /\ saved' \in Seq(BOOLEAN) /\ Len(saved') = Len(saved) - 1
              /\ \A i \in 1 .. Len(saved) - 1 : saved'[i] = saved[i]
          BY <1>4, <4>1, <5>2, Popped
        <5>4. Len(saved') = 1 /\ saved'[1] = FALSE /\ PRIMASK' = TRUE
          BY <4>1, <5>1, <5>2, <5>3, Zenon
        <5>5. Saves(1)'
          BY <5>4 DEF Saves
        <5>6. at' \notin 3 .. 5
          BY <4>1
        <5>7. Saves(IF at \in 3 .. 5 THEN 2 ELSE 1)'
          BY <5>5, <5>6, Zenon
        <5> QED BY <5>3, <5>4, <5>7
      <4> QED BY <1>3, <4>1, <4>3, <4>4, <4>5
    <3>6. CASE Step(6) /\ SetNext(node, NULL) /\ UNCHANGED <<mask, locals>>
      <4>1. /\ at = 6 /\ at' = 7 /\ next' = [next EXCEPT ![n] = NULL] /\ prev' = prev
            /\ UNCHANGED <<call, lists, saved, PRIMASK, temp, size>> /\ node' = n
        BY <1>2, <3>6 DEF Step, SetNext, Removed, mask, locals
      <4>2. next' \in Links /\ prev' \in Links
        BY <1>3, <4>1 DEF Links
      <4>3. RemoveNext(next', n, prev'[n], at') = RemoveNext(next, n, prev[n], at)
        BY <4>1 DEF RemoveNext
      <4>4. RemovePrev(prev', n, next'[n], at') = RemovePrev(prev, n, next[n], at)
        BY <4>1, <4>2 DEF RemovePrev
      <4>5. saved' \in Seq(BOOLEAN) /\ PRIMASK' = TRUE /\ Saves(IF at \in 3 .. 5 THEN 2 ELSE 1)'
        BY <1>2, <1>4, <4>1 DEF Saves
      <4> QED BY <4>1, <4>2, <4>3, <4>4, <4>5
    <3>7. CASE Step(7) /\ SetPrev(node, NULL) /\ UNCHANGED <<mask, locals>>
      <4>1. /\ at = 7 /\ at' = 8 /\ next' = next /\ prev' = [prev EXCEPT ![n] = NULL]
            /\ UNCHANGED <<call, lists, saved, PRIMASK, temp, size>> /\ node' = n
        BY <1>2, <3>7 DEF Step, SetPrev, Removed, mask, locals
      <4>2. next' \in Links /\ prev' \in Links
        BY <1>3, <4>1 DEF Links
      <4>3. RemoveNext(next', n, prev'[n], at') = RemoveNext(next, n, prev[n], at)
        BY <4>1 DEF RemoveNext
      <4>4. RemovePrev(prev', n, next'[n], at') = RemovePrev(prev, n, next[n], at)
        BY <4>1, <4>2 DEF RemovePrev
      <4>5. saved' \in Seq(BOOLEAN) /\ PRIMASK' = TRUE /\ Saves(IF at \in 3 .. 5 THEN 2 ELSE 1)'
        BY <1>2, <1>4, <4>1 DEF Saves
      <4> QED BY <4>1, <4>2, <4>3, <4>4, <4>5
    <3> QED BY <1>6, <3>1, <3>2, <3>3, <3>4, <3>5, <3>6, <3>7 DEF ListRemove, ListRemoveNode
  <2>2. /\ head' = head /\ Effect' = Effect
        /\ \A g : Running(g)' <=> g = f
    BY <1>0, <1>1, <1>a, <2>1 DEF head, Running, Effect, Removals
  <2>3. at' \in 0 .. 8 /\ at' \in 1 .. 8 /\ at' > 1
    BY <2>1
  <2>4. Saves(1)' \/ Saves(2)'
    BY <2>1
  <2>5. TypeOK'
    <3>1. Len(saved') = 1 \/ Len(saved') = 2
      BY <2>4 DEF Saves
    <3>2. 1 <= 2 /\ 2 <= 2
      OBVIOUS
    <3>3. Len(saved') <= 2
      BY <3>1, <3>2, Zenon
    <3> QED BY <1>0, <1>3, <2>1, <2>3, <3>3 DEF TypeOK, Links
  <2>6. \A g : Removed(g)' = n
    BY <2>1, <2>3 DEF Removed
  <2>7. Rings(RemoveNext(next', n, prev'[n], at'), RemovePrev(prev', n, next'[n], at'),
              [lists' EXCEPT ![head'] = Effect'])
    BY <1>2, <2>1, <2>2 DEF Left
  <2>8. Removing'
    <3> SUFFICES ASSUME NEW g \in Removals, Running(g)'
                 PROVE  /\ at' \in 1 .. 8 /\ Removed(g)' \in Nodes /\ PRIMASK' = TRUE
                        /\ Saves(IF at \in 3 .. 5 THEN 2 ELSE 1)'
                        /\ LET m == Removed(g)
                           IN  Left(RemoveNext(next, m, prev[m], at), RemovePrev(prev, m, next[m], at))'
      BY Zenon DEF Removing
    <3>1. Removed(g)' = n
      BY <2>6
    <3>2. /\ at' \in 1 .. 8 /\ Removed(g)' \in Nodes /\ PRIMASK' = TRUE
          /\ Saves(IF at \in 3 .. 5 THEN 2 ELSE 1)'
      BY <2>1, <2>3, <3>1
    <3>3. LET m == Removed(g)
          IN  Left(RemoveNext(next, m, prev[m], at), RemovePrev(prev, m, next[m], at))'
      BY <2>7, <3>1 DEF Left
    <3> QED BY <3>2, <3>3
  <2>9. Idle' /\ Inserting' /\ Counting' /\ Once(lists)'
    BY <1>0, <1>a, <2>1, <2>2 DEF Idle, Inserting, Counting, Insertions, Removals
  <2> QED BY <2>5, <2>8, <2>9 DEF IInv
<1> QED BY <1>5, <1>6

LEMMA InterruptPreserves ==
  ASSUME IInv, NEW from \in Heads, NEW to \in Heads, Interrupt(from, to)
  PROVE  IInv'
<1>0. TypeOK /\ ~PRIMASK /\ call = <<>>
  BY Masked DEF IInv, Interrupt
<1>1. /\ Rings(next, prev, lists) /\ at = 0 /\ PRIMASK = FALSE /\ Len(saved) = 0
  BY <1>0 DEF IInv, Idle
<1>2. /\ next \in Links /\ prev \in Links /\ lists \in Lists /\ Spell(next, prev, lists)
  BY <1>1 DEF Rings
<1>3. lists[from] # <<>>
  <2> SUFFICES ASSUME lists[from] = <<>> PROVE FALSE
    OBVIOUS
  <2>1. Len(lists[from]) = 0 /\ 0 \in 0 .. Len(lists[from])
    OBVIOUS
  <2>2. At(lists, from, 0) = from /\ At(lists, from, 0 + 1) = from
    BY <1>2, <2>1, Spelling
  <2>3. next[At(lists, from, 0)] = At(lists, from, 0 + 1)
    BY <1>2, <2>1 DEF Spell
  <2> QED BY <2>2, <2>3 DEF Interrupt, ListIsEmpty
<1>a. PICK n : n = next[from]
  OBVIOUS
<1>b. PICK nx, pv : nx = Cut(next, prev[n], next[n]) /\ pv = Cut(prev, next[n], prev[n])
  OBVIOUS
<1> DEFINE L == [lists EXCEPT ![from] = Tail(lists[from])]
<1>4. n \in Nodes /\ n \in Cells
  BY <1>1, <1>3, <1>a, HeadFirst DEF Cells
<1>5. nx \in Links /\ pv \in Links
  BY <1>2, <1>4, <1>b DEF Links, Cut
<1>6. NodeLinksOut(next, prev, nx, pv, n)
  BY <1>5, <1>b DEF NodeLinksOut
<1>7. Rings(nx, pv, L) /\ Loose(n, L) /\ <<n>> \o Tail(lists[from]) = lists[from]
  <2>1. Rings(next, prev, lists) /\ lists[from] # <<>> /\ n = next[from]
    BY <1>1, <1>3, <1>a
  <2>2. Rings(nx, pv, [lists EXCEPT ![from] = Tail(lists[from])])
    BY <1>6, <2>1, HeadOut
  <2>3. Loose(n, [lists EXCEPT ![from] = Tail(lists[from])])
    BY <1>6, <2>1, HeadOut
  <2>4. <<n>> \o Tail(lists[from]) = lists[from]
    <3>1. lists[from] \in Seq(Nodes)
      BY <1>2, Spelling
    <3>2. n = lists[from][1]
      BY <2>1, HeadFirst
    <3> QED BY <2>1, <3>1, <3>2, HeadBack
  <2> QED BY <2>2, <2>3, <2>4
<1>8. /\ Unlinked(n).next = nx /\ Unlinked(n).prev = pv
  BY <1>b DEF Unlinked, Cut
<1>9. L[from] = Tail(lists[from]) /\ \A h \in Heads \ {from} : L[h] = lists[h]
  BY <1>2 DEF Lists
<1>10. UNCHANGED <<mask, call, at, locals>>
  BY DEF Interrupt
<1>11. Rings(next', prev', lists')
  <2>1. CASE /\ from # to
             /\ Linked(Unlinked(n), n, Unlinked(n).prev[to], to)
             /\ lists' = [lists EXCEPT ![from] = Tail(lists[from]), ![to] = Append(lists[to], n)]
    <3>1. /\ next' = [nx EXCEPT ![n] = to, ![pv[to]] = n]
          /\ prev' = [pv EXCEPT ![n] = pv[to], ![to] = n]
      BY <1>8, <2>1 DEF Linked
    <3>2. lists' = [L EXCEPT ![to] = Append(L[to], n)]
      BY <1>9, <2>1
    <3> HIDE DEF L
    <3>3. Rings([nx EXCEPT ![n] = to, ![pv[to]] = n], [pv EXCEPT ![n] = pv[to], ![to] = n],
                [L EXCEPT ![to] = Append(L[to], n)])
      BY <1>7, TailIn
    <3> QED BY <3>1, <3>2, <3>3
  <2>2. CASE /\ from = to
             /\ Linked(Unlinked(n), n, from, Unlinked(n).next[from])
             /\ UNCHANGED lists
    <3>1. /\ next' = [nx EXCEPT ![n] = nx[from], ![from] = n]
          /\ prev' = [pv EXCEPT ![n] = from, ![nx[from]] = n]
      BY <1>8, <2>2 DEF Linked
    <3>2. lists' = [L EXCEPT ![from] = <<n>> \o L[from]]
      <4>1. <<n>> \o L[from] = lists[from]
        BY <1>7, <1>9
      <4>2. [L EXCEPT ![from] = lists[from]] = lists
        BY <1>2 DEF Lists
      <4> QED BY <2>2, <4>1, <4>2
    <3> HIDE DEF L
    <3>3. Rings([nx EXCEPT ![n] = nx[from], ![from] = n], [pv EXCEPT ![n] = from, ![nx[from]] = n],
                [L EXCEPT ![from] = <<n>> \o L[from]])
      BY <1>7, HeadIn
    <3> QED BY <3>1, <3>2, <3>3
  <2> QED BY <1>a, <2>1, <2>2 DEF Interrupt
<1> HIDE DEF L
<1>12. TypeOK' /\ Once(lists)'
  BY <1>0, <1>10, <1>11 DEF TypeOK, Rings, Links, Lists, mask, locals
<1>13. Idle'
  BY <1>1, <1>10, <1>11 DEF Idle, mask
<1>14. Inserting' /\ Removing' /\ Counting'
  BY <1>0, <1>10 DEF Inserting, Removing, Counting, Running
<1> QED BY <1>12, <1>13, <1>14 DEF IInv

LEMMA InitHolds == Init => IInv
<1> SUFFICES ASSUME Init PROVE IInv
  OBVIOUS
<1>1. /\ next = [c \in Cells |-> IF c \in Heads THEN c ELSE NULL] /\ prev = next
      /\ PRIMASK = FALSE /\ saved = <<>> /\ call = <<>> /\ at = 0
      /\ node = NULL /\ temp = NULL /\ size = 0 /\ lists = [h \in Heads |-> <<>>]
  BY DEF Init
<1>2. next \in Links /\ prev \in Links
  BY <1>1 DEF Links, Cells
<1>3. lists \in Lists /\ \A h \in Heads : lists[h] = <<>>
  BY <1>1 DEF Lists
<1>4. \A h \in Heads : DOMAIN lists[h] = {} /\ Len(lists[h]) = 0
  <2>1. DOMAIN <<>> = {} /\ Len(<<>>) = 0
    OBVIOUS
  <2> QED BY <1>3, <2>1
<1>5. Once(lists)
  BY <1>4 DEF Once
<1>6. Spell(next, prev, lists)
  <2> SUFFICES ASSUME NEW h \in Heads, NEW i \in 0 .. Len(lists[h])
               PROVE  /\ next[At(lists, h, i)] = At(lists, h, i + 1)
                      /\ prev[At(lists, h, i + 1)] = At(lists, h, i)
    BY DEF Spell
  <2>1. At(lists, h, i) = h /\ At(lists, h, i + 1) = h
    BY <1>4 DEF At
  <2>2. next[h] = h /\ prev[h] = h
    BY <1>1 DEF Cells
  <2> QED BY <2>1, <2>2
<1>7. Idle
  <2>1. Len(saved) = 0
    BY <1>1
  <2> QED BY <1>1, <1>2, <1>3, <1>5, <1>6, <2>1 DEF Idle, Rings
<1>8. TypeOK
  <2>1. saved \in Seq(BOOLEAN) /\ call \in Seq([f : Functions, head : Heads])
    BY <1>1
  <2>2. Len(saved) <= 2 /\ Len(call) <= 1 /\ at \in 0 .. 8 /\ size \in Nat
    BY <1>1
  <2> QED BY <1>1, <1>2, <1>3, <2>1, <2>2 DEF TypeOK, Links, Lists
<1>9. Inserting /\ Removing /\ Counting
  BY <1>1 DEF Inserting, Removing, Counting, Running
<1> QED BY <1>5, <1>7, <1>8, <1>9 DEF IInv

LEMMA NextPreserves == IInv /\ [Next]_vars => IInv'
<1> SUFFICES ASSUME IInv, [Next]_vars PROVE IInv'
  OBVIOUS
<1>1. CASE \E f \in Functions, h \in Heads, n \in Nodes \cup {NULL} : Call(f, h, n)
  BY <1>1, CallPreserves
<1>2. CASE Main
  BY <1>2, ListInsertHeadPreserves, ListInsertTailPreserves, ListRemovePreserves,
     ListGetSizePreserves DEF Main
<1>3. CASE \E from, to \in Heads : Interrupt(from, to)
  BY <1>3, InterruptPreserves
<1>4. CASE UNCHANGED vars
  <2>1. UNCHANGED <<next, prev, PRIMASK, saved, call, at, node, temp, size, lists>>
    BY <1>4 DEF vars, links, mask, locals
  <2>2. TypeOK' /\ Once(lists)'
    BY <2>1 DEF IInv, TypeOK
  <2>3. \A f : Running(f)' <=> Running(f)
    BY <2>1 DEF Running
  <2>4. Idle' /\ Counting'
    BY <2>1, <2>3 DEF IInv, Idle, Counting, Saves, head
  <2>5. head' = head /\ Effect' = Effect
    BY <2>1 DEF head, Effect, Running
  <2>6. Inserting'
    BY <2>1, <2>3, <2>5 DEF IInv, Inserting, Saves, Left, After, Before
  <2>7. Removing'
    BY <2>1, <2>3, <2>5 DEF IInv, Removing, Saves, Left, Removed
  <2> QED BY <2>2, <2>4, <2>6, <2>7 DEF IInv
<1> QED BY <1>1, <1>2, <1>3, <1>4 DEF Next

LEMMA Invariance == Spec => []IInv
BY InitHolds, NextPreserves, PTL DEF Spec

-----------------------------------------------------------------------------

\* Whatever the lists and the packets: links lead to cells, lists hold packets,
\* and no more than two values of PRIMASK are ever saved.
THEOREM TypeCorrect == Spec => []TypeOK
<1>1. IInv => TypeOK
  BY DEF IInv
<1> QED BY <1>1, Invariance, PTL

\* Whenever the interrupt may run the links spell the sequences the functions
\* called so far leave behind: HciTransport may take a list for a sequence and
\* a call for one step.
THEOREM LinksAlwaysSpellLists == Spec => []LinksSpellLists
<1>1. IInv => LinksSpellLists
  <2> SUFFICES ASSUME IInv, ~PRIMASK, NEW h \in Heads, NEW i \in 0 .. Len(lists[h])
               PROVE  next[Cell(h, i)] = Cell(h, i + 1) /\ prev[Cell(h, i + 1)] = Cell(h, i)
    BY DEF LinksSpellLists
  <2>1. Spell(next, prev, lists)
    BY Masked DEF IInv, Idle, Rings
  <2>2. Cell(h, i) = At(lists, h, i) /\ Cell(h, i + 1) = At(lists, h, i + 1)
    BY DEF Cell, At
  <2> QED BY <2>1, <2>2 DEF Spell
<1> QED BY <1>1, Invariance, PTL

\* No packet is ever in two lists, or in one list twice.
THEOREM NodesAlwaysOnce == Spec => []NodesOnce
<1>1. IInv => NodesOnce
  BY DEF IInv, Once, NodesOnce
<1> QED BY <1>1, Invariance, PTL

\* list_get_size counts the packets of the list, whose number the interrupt
\* cannot change while it walks the ring.
THEOREM SizeAlwaysExact == Spec => []SizeIsExact
<1>1. IInv => SizeIsExact
  BY DEF IInv, Counting, SizeIsExact, At, Cell
<1> QED BY <1>1, Invariance, PTL
=============================================================================
