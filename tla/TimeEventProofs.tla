-------------------------- MODULE TimeEventProofs --------------------------
(***************************************************************************)
(* Theorems about the heap of time events, for any events, cycles, length  *)
(* of a tick and number of values of EVTTIM: it stays a heap, it tells the *)
(* time left to the millisecond, and it implements TimerQueue.             *)
(*                                                                         *)
(* The argument has two halves.  Fine, that the heap is one, is kept by    *)
(* tmevtb_insert and tmevtb_delete: their loops, recursive functions here, *)
(* move the nodes of a chain by one place (Moved, GoneUp, GoneDown), by    *)
(* induction on the number of places passed, and the node placed at its    *)
(* end restores the order (ChainUp, ChainDown).  ClockOK says how the four *)
(* clocks stand to each other; it bounds how far any event in use is from  *)
(* min_time, so that the difference of two times is never mistaken for     *)
(* another one when they wrap around.                                      *)
(***************************************************************************)
EXTENDS TimeEvent, WellFoundedInduction, TLAPS

-----------------------------------------------------------------------------
(* Remainders, and times that wrap around.                                 *)

LEMMA ModIs ==
  ASSUME NEW m \in Nat \ {0}, NEW x \in Int, NEW q \in Int,
         0 <= x - q * m, x - q * m < m
  PROVE  x % m = x - q * m
<1> DEFINE d == x \div m
<1>1. d \in Int /\ x % m = x - m * d /\ 0 <= x - m * d /\ x - m * d < m
  OBVIOUS
<1> HIDE DEF d
<1>2. d <= q
  <2>1. SUFFICES ASSUME d >= q + 1 PROVE FALSE
    BY <1>1
  <2>2. m * d >= m * (q + 1)
    BY <1>1, <2>1
  <2> QED BY <1>1, <2>2
<1>3. d >= q
  <2>1. SUFFICES ASSUME q >= d + 1 PROVE FALSE
    BY <1>1
  <2>2. m * q >= m * (d + 1)
    BY <1>1, <2>1
  <2> QED BY <1>1, <2>2
<1> QED BY <1>1, <1>2, <1>3

LEMMA ModEx ==
  ASSUME NEW m \in Nat \ {0}, NEW x \in Int
  PROVE  /\ x % m \in 0 .. m - 1
         /\ \E q \in Int : x % m = x - q * m
<1> DEFINE d == x \div m
<1>1. d \in Int /\ x % m = x - m * d /\ 0 <= x - m * d /\ x - m * d < m
  OBVIOUS
<1> HIDE DEF d
<1>2. x % m = x - d * m
  BY <1>1
<1>3. x % m \in Int
  BY <1>1
<1>4. x % m \in 0 .. m - 1
  BY <1>1, <1>3
<1> QED BY <1>1, <1>2, <1>4

Times == 0 .. EVTTIM_MOD - 1

LEMMA WrapEx ==
  ASSUME NEW x \in Int
  PROVE  /\ Wrap(x) \in Times
         /\ \E k \in Int : Wrap(x) = x - k /\ \E q \in Int : k = q * EVTTIM_MOD
<1>1. EVTTIM_MOD \in Nat \ {0}
  BY TimeEventAssumption
<1>2. PICK q \in Int : x % EVTTIM_MOD = x - q * EVTTIM_MOD
  BY <1>1, ModEx
<1>3. Wrap(x) \in Times
  BY <1>1, ModEx DEF Wrap, Times
<1> DEFINE k == q * EVTTIM_MOD
<1>4. k \in Int /\ Wrap(x) = x - k /\ k = q * EVTTIM_MOD
  BY <1>1, <1>2 DEF Wrap
<1> HIDE DEF k
<1> QED BY <1>3, <1>4

LEMMA WrapIs ==
  ASSUME NEW x \in Int, NEW q \in Int, NEW k, k = q * EVTTIM_MOD,
         x - k \in Times
  PROVE  Wrap(x) = x - k
<1>1. EVTTIM_MOD \in Nat \ {0}
  BY TimeEventAssumption
<1>2. k \in Int
  BY <1>1
<1>3. 0 <= x - q * EVTTIM_MOD /\ x - q * EVTTIM_MOD < EVTTIM_MOD
  BY <1>1, <1>2 DEF Times
<1> QED BY <1>1, <1>3, ModIs DEF Wrap

LEMMA WrapSmall ==
  ASSUME NEW x \in Times
  PROVE  Wrap(x) = x
<1>1. x \in Int /\ EVTTIM_MOD \in Nat
  BY TimeEventAssumption DEF Times
<1> DEFINE q == 0
<1>2. q \in Int /\ q = q * EVTTIM_MOD /\ x - q = x
  BY <1>1
<1> HIDE DEF q
<1> QED BY <1>1, <1>2, WrapIs

(* A time set d after another one, or before it, is d further or nearer,   *)
(* as long as the type can express the difference.                         *)
LEMMA WrapLater ==
  ASSUME NEW t \in Int, NEW m \in Int, NEW d \in Int,
         Wrap(t - m) + d \in Times
  PROVE  Wrap(Wrap(t + d) - m) = Wrap(t - m) + d
<1> DEFINE M == EVTTIM_MOD
           u == t - m
           v == t + d
<1>1. M \in Nat \ {0} /\ u \in Int /\ v \in Int
  BY TimeEventAssumption
<1>2. PICK k \in Int, a \in Int : Wrap(u) = u - k /\ k = a * M
  <2> HIDE DEF u
  <2> QED BY <1>1, WrapEx
<1>3. PICK l \in Int, b \in Int : Wrap(v) = v - l /\ l = b * M
  <2> HIDE DEF v
  <2> QED BY <1>1, WrapEx
<1> DEFINE x == (v - l) - m
<1>4. x \in Int /\ a - b \in Int /\ k - l = (a - b) * M
  BY <1>1, <1>2, <1>3
<1>5. x - (k - l) = Wrap(u) + d
  BY <1>2, <1>3
<1>6. Wrap(x) = x - (k - l)
  <2> HIDE DEF x
  <2> QED BY <1>4, <1>5, WrapIs
<1> QED BY <1>3, <1>5, <1>6

(* Differences from a later origin.                                        *)
LEMMA WrapNearer ==
  ASSUME NEW t \in Int, NEW m \in Int, NEW n \in Int,
         Wrap(n - m) <= Wrap(t - m)
  PROVE  Wrap(t - n) = Wrap(t - m) - Wrap(n - m)
<1> DEFINE M == EVTTIM_MOD
           u == t - m
           v == n - m
           x == t - n
<1>1. M \in Nat \ {0} /\ u \in Int /\ v \in Int /\ x \in Int
  BY TimeEventAssumption
<1>2. PICK k \in Int, a \in Int : Wrap(u) = u - k /\ k = a * M
  <2> HIDE DEF u
  <2> QED BY <1>1, WrapEx
<1>3. PICK l \in Int, b \in Int : Wrap(v) = v - l /\ l = b * M
  <2> HIDE DEF v
  <2> QED BY <1>1, WrapEx
<1>4. a - b \in Int /\ k - l = (a - b) * M
  BY <1>1, <1>2, <1>3
<1>5. x - (k - l) = Wrap(u) - Wrap(v)
  BY <1>2, <1>3
<1>6. Wrap(u) \in Times /\ Wrap(v) \in Times /\ Wrap(v) <= Wrap(u)
  <2>1. Wrap(v) <= Wrap(u)
    OBVIOUS
  <2> HIDE DEF u, v
  <2> QED BY <1>1, <2>1, WrapEx
<1>7. x - (k - l) \in Times
  <2> HIDE DEF x, u, v
  <2> QED BY <1>1, <1>4, <1>5, <1>6 DEF Times
<1>8. Wrap(x) = x - (k - l)
  <2> HIDE DEF x
  <2> QED BY <1>1, <1>4, <1>7, WrapIs
<1> QED BY <1>5, <1>8

-----------------------------------------------------------------------------
(* Moving nodes.  A heap of L nodes as the functions that its fields are.  *)

Nodes == [time : Times, ev : Events]
Heap(L) == [heap : [1 .. L -> Nodes], index : [Events -> Nat]]

LEMMA PlaceIs ==
  ASSUME NEW L \in Nat, NEW H \in Heap(L), NEW i \in 1 .. L, NEW node \in Nodes
  PROVE  /\ Place(H, i, node) \in Heap(L)
         /\ Place(H, i, node).heap = [H.heap EXCEPT ![i] = node]
         /\ Place(H, i, node).index = [H.index EXCEPT ![node.ev] = i]
<1> DEFINE A == [1 .. L -> Nodes]
           B == [Events -> Nat]
           a == [H.heap EXCEPT ![i] = node]
           b == [H.index EXCEPT ![node.ev] = i]
<1>1. H \in [heap : A, index : B] /\ H.heap \in A /\ H.index \in B
  BY DEF Heap
<1>2. a \in A
  BY <1>1
<1>3. i \in Nat /\ node.ev \in Events
  BY DEF Nodes
<1>4. b \in B
  BY <1>1, <1>3
<1> HIDE DEF A, B
<1>5. Place(H, i, node).heap = a
  BY <1>1 DEF Place
<1>6. Place(H, i, node).index = b
  BY <1>1 DEF Place
<1>7. Place(H, i, node) \in [heap : A, index : B]
  BY <1>1, <1>2, <1>4, <1>5, <1>6 DEF Place
<1> QED BY <1>5, <1>6, <1>7 DEF Heap, A, B

(* The first n places hold nodes that their blocks know, but for the place *)
(* gap (0: for none); the blocks of X are not among them.                  *)
Filled(H, n, gap, X) ==
  /\ \A j \in (1 .. n) \ {gap} : /\ H.index[H.heap[j].ev] = j
                                 /\ H.heap[j].ev \notin X
  /\ \A e \in Events \ X :
       H.index[e] # 0 => /\ H.index[e] \in (1 .. n) \ {gap}
                         /\ H.heap[H.index[e]].ev = e

Node(H, e) == H.heap[H.index[e]]

(* The events of E are set or not as before, and for the same time.        *)
Kept(H, K, E) ==
  \A e \in E : /\ K.index[e] = 0 <=> H.index[e] = 0
               /\ H.index[e] # 0 => Node(K, e) = Node(H, e)

(* K is H with the nodes of the places f[j] moved to the places j of M, a  *)
(* chain that starts at gap: now the place at can be filled.               *)
Moved(H, K, L, n, gap, at, M, f) ==
  /\ K \in Heap(L)
  /\ at \in 1 .. n /\ M \subseteq 1 .. n /\ at \notin M
  /\ f \in [M -> M \cup {at}]
  /\ \A j, k \in M : f[j] = f[k] => j = k
  /\ gap \in M \cup {at}
  /\ \A k \in M \cup {at} : k # gap <=> \E j \in M : f[j] = k
  /\ \A j \in M : K.heap[j] = H.heap[f[j]] /\ K.index[H.heap[f[j]].ev] = j
  /\ \A j \in (1 .. L) \ M : K.heap[j] = H.heap[j]
  /\ \A e \in Events : \/ \E j \in M : e = H.heap[f[j]].ev
                       \/ K.index[e] = H.index[e]

LEMMA NothingMoved ==
  ASSUME NEW L \in Nat, NEW n \in 1 .. L, NEW H \in Heap(L), NEW i \in 1 .. n,
         NEW f \in [{} -> {i}]
  PROVE  Moved(H, H, L, n, i, i, {}, f)
BY DEF Moved, Heap

LEMMA OneMoreMoved ==
  ASSUME NEW L \in Nat, NEW n \in 1 .. L, NEW H \in Heap(L), NEW K,
         NEW at, NEW M, NEW f, NEW i \in 1 .. n, NEW k \in 1 .. n,
         Moved(H, K, L, n, k, at, M, f), i \notin M \cup {at}, i # k,
         NEW g, g = [j \in M \cup {i} |-> IF j = i THEN k ELSE f[j]],
         \A j \in M : H.heap[f[j]].ev # H.heap[k].ev
  PROVE  Moved(H, Place(K, i, H.heap[k]), L, n, i, at, M \cup {i}, g)
<1> DEFINE N == Place(K, i, H.heap[k])
           node == H.heap[k]
<1>1. K \in Heap(L) /\ node \in Nodes /\ i \in 1 .. L
  BY DEF Moved, Heap
<1>2. /\ N \in Heap(L)
      /\ N.heap = [K.heap EXCEPT ![i] = node]
      /\ N.index = [K.index EXCEPT ![node.ev] = i]
  <2> HIDE DEF node
  <2> QED BY <1>1, PlaceIs DEF node
<1>3. K.heap \in [1 .. L -> Nodes] /\ K.index \in [Events -> Nat] /\ node.ev \in Events
  BY <1>1 DEF Heap, Nodes
<1> HIDE DEF N, node
<1>4. /\ \A j \in 1 .. L : N.heap[j] = IF j = i THEN node ELSE K.heap[j]
      /\ \A e \in Events : N.index[e] = IF e = node.ev THEN i ELSE K.index[e]
  BY <1>2, <1>3
<1>5. /\ at \in 1 .. n /\ M \subseteq 1 .. n /\ at \notin M
      /\ f \in [M -> M \cup {at}]
      /\ \A j, l \in M : f[j] = f[l] => j = l
      /\ k \in M \cup {at}
      /\ \A l \in M \cup {at} : l # k <=> \E j \in M : f[j] = l
  BY DEF Moved
<1>6. g[i] = k /\ \A j \in M : g[j] = f[j]
  BY <1>5
<1>7. g \in [M \cup {i} -> (M \cup {i}) \cup {at}]
  BY <1>5
<1>8. \A j, l \in M \cup {i} : g[j] = g[l] => j = l
  BY <1>5, <1>6
<1>9. \A l \in (M \cup {i}) \cup {at} : l # i <=> \E j \in M \cup {i} : g[j] = l
  <2> SUFFICES ASSUME NEW l \in (M \cup {i}) \cup {at}
               PROVE  l # i <=> \E j \in M \cup {i} : g[j] = l
    OBVIOUS
  <2>1. CASE l = i
    BY <1>5, <1>6, <2>1
  <2>2. CASE l = k
    BY <1>5, <1>6, <2>2
  <2>3. CASE l # i /\ l # k
    <3>1. PICK j \in M : f[j] = l
      BY <1>5, <2>3
    <3> QED BY <1>6, <2>3, <3>1
  <2> QED BY <2>1, <2>2, <2>3
<1>10. \A j \in M : f[j] \in 1 .. L /\ H.heap[f[j]].ev \in Events
  <2>1. \A l \in 1 .. L : H.heap[l].ev \in Events
    BY DEF Heap, Nodes
  <2>2. M \cup {at} \subseteq 1 .. n /\ 1 .. n \subseteq 1 .. L
    BY <1>5
  <2>3. \A j \in M : f[j] \in M \cup {at}
    BY <1>5
  <2> QED BY ONLY <2>1, <2>2, <2>3
<1>11. \A j \in M \cup {i} : N.heap[j] = H.heap[g[j]] /\ N.index[H.heap[g[j]].ev] = j
  <2>1. ASSUME NEW j \in M
        PROVE  N.heap[j] = H.heap[g[j]] /\ N.index[H.heap[g[j]].ev] = j
    <3>1. K.heap[j] = H.heap[f[j]] /\ K.index[H.heap[f[j]].ev] = j
      BY DEF Moved
    <3>2. H.heap[f[j]].ev # node.ev
      BY DEF node
    <3> QED BY <1>4, <1>5, <1>6, <1>10, <3>1, <3>2
  <2>2. N.heap[i] = H.heap[g[i]] /\ N.index[H.heap[g[i]].ev] = i
    BY <1>1, <1>3, <1>4, <1>6 DEF node
  <2> QED BY <2>1, <2>2
<1>12. \A j \in (1 .. L) \ (M \cup {i}) : N.heap[j] = H.heap[j]
  BY <1>4 DEF Moved
<1>13. \A e \in Events : \/ \E j \in M \cup {i} : e = H.heap[g[j]].ev
                         \/ N.index[e] = H.index[e]
  BY <1>4, <1>6 DEF Moved, node
<1>14. /\ at \in 1 .. n /\ M \cup {i} \subseteq 1 .. n /\ at \notin M \cup {i}
       /\ i \in (M \cup {i}) \cup {at}
  BY <1>5
<1>15. Moved(H, N, L, n, i, at, M \cup {i}, g)
  BY <1>2, <1>14, <1>5, <1>7, <1>8, <1>9, <1>11, <1>12, <1>13 DEF Moved
<1> QED BY <1>15 DEF N, node

(* The chain of moves has gone: every place of the n has its node.         *)
LEMMA MovedPlaced ==
  ASSUME NEW L \in Nat, NEW n \in 1 .. L, NEW H \in Heap(L), NEW K,
         NEW gap, NEW at, NEW M, NEW f, NEW X \in SUBSET Events,
         NEW node \in Nodes, node.ev \in X,
         Moved(H, K, L, n, gap, at, M, f),
         Filled(H, n, gap, X)
  PROVE  LET P == Place(K, at, node)
         IN /\ P \in Heap(L)
            /\ P.heap[at] = node
            /\ \A j \in M : P.heap[j] = H.heap[f[j]]
            /\ \A j \in (1 .. L) \ (M \cup {at}) : P.heap[j] = H.heap[j]
            /\ Filled(P, n, 0, X \ {node.ev})
            /\ P.index[node.ev] = at
            /\ \A x \in X \ {node.ev} : P.index[x] = H.index[x]
            /\ Kept(H, P, Events \ X)
<1> DEFINE P == Place(K, at, node)
<1>1. /\ K \in Heap(L) /\ at \in 1 .. L /\ at \in 1 .. n
      /\ M \subseteq 1 .. n /\ at \notin M
      /\ f \in [M -> M \cup {at}]
      /\ \A j, k \in M : f[j] = f[k] => j = k
      /\ gap \in M \cup {at}
  BY DEF Moved
<1>2. /\ P \in Heap(L)
      /\ P.heap = [K.heap EXCEPT ![at] = node]
      /\ P.index = [K.index EXCEPT ![node.ev] = at]
  BY <1>1, PlaceIs
<1> HIDE DEF P
<1>3. /\ \A j \in 1 .. L : P.heap[j] = IF j = at THEN node ELSE K.heap[j]
      /\ \A e \in Events : P.index[e] = IF e = node.ev THEN at ELSE K.index[e]
  BY <1>1, <1>2 DEF Heap
<1>4. \A j \in M : f[j] \in 1 .. n /\ f[j] # gap /\ f[j] \in M \cup {at}
  <2>1. \A j \in M : f[j] \in M \cup {at} /\ f[j] \in 1 .. n
    BY <1>1
  <2>2. \A k \in M \cup {at} : k # gap <=> \E j \in M : f[j] = k
    BY DEF Moved
  <2> QED BY <2>1, <2>2
<1>5. \A j \in (1 .. n) \ {gap} : /\ H.index[H.heap[j].ev] = j
                                  /\ H.heap[j].ev \in Events \ X
  BY DEF Filled, Heap, Nodes
<1>6. \A j \in M : /\ P.heap[j] = H.heap[f[j]]
                   /\ P.index[H.heap[f[j]].ev] = j
                   /\ H.heap[f[j]].ev \in Events \ X
                   /\ H.heap[f[j]].ev # node.ev
  <2> SUFFICES ASSUME NEW j \in M
               PROVE  /\ P.heap[j] = H.heap[f[j]]
                      /\ P.index[H.heap[f[j]].ev] = j
                      /\ H.heap[f[j]].ev \in Events \ X
                      /\ H.heap[f[j]].ev # node.ev
    OBVIOUS
  <2>1. K.heap[j] = H.heap[f[j]] /\ K.index[H.heap[f[j]].ev] = j
    BY DEF Moved
  <2>2. H.heap[f[j]].ev \in Events \ X
    BY <1>4, <1>5
  <2>3. j \in 1 .. L /\ j # at
    BY <1>1
  <2> QED BY <1>3, <2>1, <2>2, <2>3
<1>7. \A j \in (1 .. L) \ (M \cup {at}) : P.heap[j] = H.heap[j]
  BY <1>3 DEF Moved
<1>8. P.heap[at] = node /\ P.index[node.ev] = at
  BY <1>1, <1>3 DEF Nodes
(* An event that no moved node is for keeps its index.                     *)
<1>9. \A e \in Events \ {node.ev} :
        \/ \E j \in M : e = H.heap[f[j]].ev
        \/ P.index[e] = H.index[e]
  BY <1>3 DEF Moved
<1>10. ASSUME NEW j \in 1 .. n
       PROVE  P.index[P.heap[j].ev] = j /\ P.heap[j].ev \notin X \ {node.ev}
  <2>1. CASE j = at
    BY <1>8, <2>1
  <2>2. CASE j \in M
    BY <1>6, <2>2
  <2>3. CASE j \notin M \cup {at}
    <3>1. /\ P.heap[j] = H.heap[j] /\ H.heap[j].ev \in Events \ X
          /\ H.index[H.heap[j].ev] = j
      BY <1>1, <1>5, <1>7, <2>3
    <3>2. \A l \in M : H.heap[j].ev # H.heap[f[l]].ev
      BY <1>4, <1>5, <2>3, <3>1
    <3> QED BY <1>9, <3>1, <3>2
  <2> QED BY <2>1, <2>2, <2>3
<1>11. ASSUME NEW e \in Events \ X
       PROVE  /\ P.index[e] = 0 <=> H.index[e] = 0
              /\ H.index[e] # 0 => /\ P.index[e] \in 1 .. n
                                   /\ Node(P, e) = Node(H, e)
                                   /\ Node(H, e).ev = e
  <2>1. CASE H.index[e] = 0
    <3>1. \A j \in M : H.index[H.heap[f[j]].ev] # 0
      BY <1>4, <1>5
    <3> QED BY <1>9, <2>1, <3>1
  <2>2. CASE H.index[e] # 0
    <3> DEFINE k == H.index[e]
    <3>1. k \in (1 .. n) \ {gap} /\ H.heap[k].ev = e
      BY <2>2 DEF Filled
    <3> HIDE DEF k
    <3>2. CASE \E j \in M : e = H.heap[f[j]].ev
      <4>1. PICK j \in M : e = H.heap[f[j]].ev
        BY <3>2
      <4>2. f[j] = k
        BY <1>4, <1>5, <4>1 DEF k
      <4>3. P.index[e] = j /\ P.heap[j] = H.heap[k] /\ j \in 1 .. n /\ j # 0
        BY <1>1, <1>6, <4>1, <4>2
      <4>4. Node(P, e) = H.heap[k] /\ Node(H, e) = H.heap[k]
        BY <4>3 DEF Node, k
      <4> QED BY <2>2, <3>1, <4>3, <4>4
    <3>3. CASE ~ \E j \in M : e = H.heap[f[j]].ev
      <4>1. P.index[e] = k
        BY <1>9, <3>3 DEF k
      <4>2. k \notin M \cup {at}
        <5>1. SUFFICES ASSUME k \in M \cup {at} PROVE FALSE
          OBVIOUS
        <5>2. PICK j \in M : f[j] = k
          BY <3>1, <5>1 DEF Moved
        <5> QED BY <3>1, <3>3, <5>2
      <4>3. P.heap[k] = H.heap[k]
        BY <1>1, <1>7, <3>1, <4>2
      <4> QED BY <2>2, <3>1, <4>1, <4>3 DEF Node, k
    <3> QED BY <3>2, <3>3
  <2> QED BY <2>1, <2>2
<1>12. Filled(P, n, 0, X \ {node.ev})
  <2>1. ASSUME NEW e \in Events \ (X \ {node.ev}), P.index[e] # 0
        PROVE  P.index[e] \in (1 .. n) \ {0} /\ P.heap[P.index[e]].ev = e
    <3>1. CASE e = node.ev
      BY <1>1, <1>8, <3>1
    <3>2. CASE e \in Events \ X
      BY <1>11, <2>1, <3>2 DEF Node
    <3> QED BY <2>1, <3>1, <3>2
  <2> QED BY <1>10, <2>1 DEF Filled
<1>13. \A x \in X \ {node.ev} : P.index[x] = H.index[x]
  BY <1>6, <1>9
<1>14. Kept(H, P, Events \ X)
  BY <1>11 DEF Kept
<1> QED BY <1>2, <1>6, <1>7, <1>8, <1>12, <1>13, <1>14 DEF P

-----------------------------------------------------------------------------
(* The order of the heap, of the times d of its nodes.                     *)

LEMMA ParentIs ==
  ASSUME NEW j \in Nat, j >= 2
  PROVE  /\ PARENT(j) \in 1 .. j - 1
         /\ j = LCHILD(PARENT(j)) \/ j = LCHILD(PARENT(j)) + 1
BY DEF PARENT, LCHILD

LEMMA ChildIs ==
  ASSUME NEW i \in Nat \ {0}
  PROVE  /\ LCHILD(i) \in Nat /\ LCHILD(i) >= i + 1
         /\ PARENT(LCHILD(i)) = i /\ PARENT(LCHILD(i) + 1) = i
BY DEF PARENT, LCHILD

(* In order but for the gap, around which the nodes are in order too.      *)
InOrder(d, n, gap) ==
  /\ \A j \in 2 .. n : j # gap /\ PARENT(j) # gap => d[PARENT(j)] <= d[j]
  /\ \A j \in 2 .. n : PARENT(j) = gap /\ gap > 1 => d[PARENT(gap)] <= d[j]

InHeap(p, n) == \A j \in 2 .. n : p[PARENT(j)] <= p[j]

(* p: d with the times of a chain M, from at down to the gap, moved down   *)
(* along it, and t in at.                                                  *)
ChainUp(n, gap, at, M, d, p, t) ==
  /\ gap \in 1 .. n /\ at \in 1 .. n /\ M \subseteq 1 .. n
  /\ d \in [1 .. n -> Int] /\ p \in [1 .. n -> Int] /\ t \in Int
  /\ InOrder(d, n, gap)
  /\ \A j \in 2 .. n : PARENT(j) = gap => t <= d[j]
  /\ at = 1 \/ d[PARENT(at)] <= t
  /\ gap \in M \cup {at}
  /\ \A k \in M \cup {at} : k # gap => \E j \in M : PARENT(j) = k
  /\ \A j \in M : /\ j > at /\ j <= gap /\ PARENT(j) \in M \cup {at}
                  /\ t < d[PARENT(j)] /\ p[j] = d[PARENT(j)]
  /\ p[at] = t
  /\ \A j \in (1 .. n) \ (M \cup {at}) : p[j] = d[j]

LEMMA UpOrder ==
  ASSUME NEW n \in Nat, NEW gap, NEW at, NEW M, NEW d, NEW p, NEW t,
         ChainUp(n, gap, at, M, d, p, t)
  PROVE  InHeap(p, n)
<1> USE DEF ChainUp
<1> SUFFICES ASSUME NEW j \in 2 .. n PROVE p[PARENT(j)] <= p[j]
  BY DEF InHeap
<1> DEFINE k == PARENT(j)
<1>1. k \in 1 .. n /\ k < j
  <2>1. j \in Nat /\ j >= 2
    OBVIOUS
  <2>2. PARENT(j) \in 1 .. j - 1
    BY <2>1, ParentIs
  <2> HIDE DEF ChainUp
  <2> QED BY <2>2
<1>2. \A l \in M : l > 1 /\ l \in 2 .. n /\ PARENT(l) \in 1 .. n /\ PARENT(l) < l
  <2> SUFFICES ASSUME NEW l \in M
               PROVE  l > 1 /\ l \in 2 .. n /\ PARENT(l) \in 1 .. n /\ PARENT(l) < l
    OBVIOUS
  <2>1. l \in 1 .. n /\ l > at
    OBVIOUS
  <2>2. l \in Nat /\ l >= 2
    BY <2>1
  <2>3. PARENT(l) \in 1 .. l - 1
    BY <2>2, ParentIs
  <2> QED BY <2>1, <2>2, <2>3
<1>3. \A l \in M : PARENT(l) # gap
  BY <1>2
<1>4. CASE j = at
  <2>1. k \notin M \cup {at}
    BY <1>1, <1>4
  <2> QED BY <1>1, <1>4, <2>1
<1>5. CASE j \in M
  <2>1. p[j] = d[k] /\ k \in M \cup {at}
    BY <1>5
  <2>2. CASE k = at
    BY <1>1, <1>5, <2>1, <2>2
  <2>3. CASE k \in M
    <3>1. k \in 2 .. n /\ p[k] = d[PARENT(k)] /\ PARENT(k) \in 1 .. n
      BY <1>2, <2>3
    <3>2. k # gap /\ PARENT(k) # gap
      BY <1>3, <1>5, <2>3
    <3>3. d[PARENT(k)] <= d[k]
      BY <3>1, <3>2 DEF InOrder
    <3> QED BY <2>1, <3>1, <3>3
  <2> QED BY <2>1, <2>2, <2>3
<1>6. CASE j \notin M \cup {at}
  <2>1. p[j] = d[j] /\ j # gap
    BY <1>6
  <2>2. CASE k \notin M \cup {at}
    <3>1. p[k] = d[k] /\ k # gap
      BY <1>1, <2>2
    <3> QED BY <2>1, <3>1 DEF InOrder
  <2>3. CASE k = at
    <3>1. CASE at = gap
      BY <2>1, <2>3, <3>1
    <3>2. CASE at # gap
      <4>1. PICK l \in M : PARENT(l) = at
        BY <3>2
      <4>2. t < d[at]
        BY <4>1
      <4>3. d[at] <= d[j]
        BY <2>1, <2>3, <3>2 DEF InOrder
      <4> QED BY <2>1, <2>3, <4>2, <4>3
    <3> QED BY <3>1, <3>2
  <2>4. CASE k \in M
    <3>1. k \in 2 .. n /\ p[k] = d[PARENT(k)] /\ PARENT(k) \in 1 .. n
      BY <1>2, <2>4
    <3>2. CASE k = gap
      BY <2>1, <3>1, <3>2 DEF InOrder
    <3>3. CASE k # gap
      <4>1. d[k] <= d[j]
        BY <2>1, <3>3 DEF InOrder
      <4>2. d[PARENT(k)] <= d[k]
        BY <1>3, <2>4, <3>1, <3>3 DEF InOrder
      <4>3. d[j] \in Int /\ d[k] \in Int /\ d[PARENT(k)] \in Int
        BY <1>1, <3>1
      <4> QED BY ONLY <2>1, <3>1, <4>1, <4>2, <4>3
    <3> QED BY <3>2, <3>3
  <2> QED BY <2>2, <2>3, <2>4
<1> QED BY <1>4, <1>5, <1>6

(* The chain goes down from the gap to at, to the earliest place each time.*)
ChainDown(n, gap, at, M, f, d, p, t) ==
  /\ gap \in 1 .. n /\ at \in 1 .. n /\ M \subseteq 1 .. n
  /\ d \in [1 .. n -> Int] /\ p \in [1 .. n -> Int] /\ t \in Int
  /\ InOrder(d, n, gap)
  /\ gap = 1 \/ d[PARENT(gap)] <= t
  /\ \A j \in 2 .. n : PARENT(j) = at => t <= d[j]
  /\ gap \in M \cup {at}
  /\ \A k \in M \cup {at} : k >= gap /\ (k # gap => \E j \in M : f[j] = k)
  /\ \A j \in M : /\ f[j] \in 2 .. n /\ PARENT(f[j]) = j
                  /\ d[f[j]] < t /\ p[j] = d[f[j]]
                  /\ \A l \in 2 .. n : PARENT(l) = j => d[f[j]] <= d[l]
  /\ p[at] = t
  /\ \A j \in (1 .. n) \ (M \cup {at}) : p[j] = d[j]

LEMMA DownOrder ==
  ASSUME NEW n \in Nat, NEW gap, NEW at, NEW M, NEW f, NEW d, NEW p, NEW t,
         ChainDown(n, gap, at, M, f, d, p, t)
  PROVE  InHeap(p, n)
<1> USE DEF ChainDown
<1> SUFFICES ASSUME NEW j \in 2 .. n PROVE p[PARENT(j)] <= p[j]
  BY DEF InHeap
<1> DEFINE k == PARENT(j)
<1>1. k \in 1 .. n /\ k < j
  <2>1. j \in Nat /\ j >= 2
    OBVIOUS
  <2>2. PARENT(j) \in 1 .. j - 1
    BY <2>1, ParentIs
  <2> QED BY <2>2
<1>2. CASE j = gap
  <2>1. k \notin M \cup {at} /\ p[k] = d[k] /\ d[k] <= t
    BY <1>1, <1>2
  <2>2. CASE j = at
    BY <1>1, <2>1, <2>2
  <2>3. CASE j \in M
    <3>1. d[k] <= d[f[j]]
      BY <1>2, <2>3 DEF InOrder
    <3> QED BY <2>1, <2>3, <3>1
  <2> QED BY <1>2, <2>2, <2>3
<1>3. CASE j \in M \cup {at} /\ j # gap
  <2>1. PICK m \in M : f[m] = j
    BY <1>3
  <2>2. m = k /\ p[k] = d[j] /\ d[j] < t
    BY <2>1
  <2>3. CASE j = at
    BY <1>1, <2>2, <2>3
  <2>4. CASE j \in M
    <3>1. f[j] \in 2 .. n /\ PARENT(f[j]) = j /\ p[j] = d[f[j]]
      BY <2>4
    <3>2. f[j] # gap
      <4>1. f[j] \in Nat /\ f[j] >= 2
        BY <3>1
      <4>2. PARENT(f[j]) \in 1 .. f[j] - 1
        BY <4>1, ParentIs
      <4>3. j >= gap
        BY <2>4
      <4> QED BY <3>1, <4>1, <4>2, <4>3
    <3>3. d[j] <= d[f[j]]
      BY <1>3, <3>1, <3>2 DEF InOrder
    <3> QED BY <2>2, <3>1, <3>3
  <2> QED BY <1>3, <2>3, <2>4
<1>4. CASE j \notin M \cup {at}
  <2>1. p[j] = d[j] /\ j # gap
    BY <1>4
  <2>2. CASE k \notin M \cup {at}
    <3>1. p[k] = d[k] /\ k # gap
      BY <1>1, <2>2
    <3> QED BY <2>1, <3>1 DEF InOrder
  <2>3. CASE k = at
    BY <2>1, <2>3
  <2>4. CASE k \in M
    BY <2>1, <2>4
  <2> QED BY <2>2, <2>3, <2>4
<1> QED BY <1>2, <1>3, <1>4

-----------------------------------------------------------------------------
(* tmevt_up and tmevt_down: how the loops move the nodes.                  *)

Due(node) == Wrap(node.time - min_time)

LEMMA DueType ==
  ASSUME NEW node \in Nodes, min_time \in Int
  PROVE  Due(node) \in Times /\ Due(node) \in Int
<1>1. node.time - min_time \in Int
  BY TimeEventAssumption DEF Nodes, Times
<1>2. Due(node) \in Times
  BY <1>1, WrapEx DEF Due
<1> QED BY <1>2, TimeEventAssumption DEF Times

Went(H, L, n, i, r, M, f) ==
  r \in [at : Nat, h : Heap(L)] /\ Moved(H, r.h, L, n, i, r.at, M, f)

(* Up from the place i, until t.                                           *)
GoneUp(H, L, n, i, t, r) ==
  \E M, f :
    /\ Went(H, L, n, i, r, M, f)
    /\ \A j \in M : /\ j > r.at /\ j <= i /\ f[j] = PARENT(j)
                    /\ t < Due(H.heap[PARENT(j)])
    /\ r.at <= i
    /\ r.at = 1 \/ Due(H.heap[PARENT(r.at)]) <= t

LEMMA UpStop ==
  ASSUME NEW L \in Nat, NEW n \in 1 .. L, NEW H \in Heap(L), NEW i \in 1 .. n,
         NEW t, i = 1 \/ Due(H.heap[PARENT(i)]) <= t
  PROVE  GoneUp(H, L, n, i, t, [at |-> i, h |-> H])
<1> DEFINE f == [j \in {} |-> i]
           r == [at |-> i, h |-> H]
<1>1. f \in [{} -> {i}]
  OBVIOUS
<1> HIDE DEF f
<1>2. Moved(H, H, L, n, i, i, {}, f)
  BY <1>1, NothingMoved
<1>3. r \in [at : Nat, h : Heap(L)] /\ r.at = i /\ r.h = H
  OBVIOUS
<1>4. Went(H, L, n, i, r, {}, f)
  BY <1>2, <1>3 DEF Went
<1>5. r.at <= i
  BY <1>3
<1> HIDE DEF r
<1>6. GoneUp(H, L, n, i, t, r)
  BY <1>3, <1>4, <1>5 DEF GoneUp
<1> QED BY <1>6 DEF r

LEMMA UpStep ==
  ASSUME NEW L \in Nat, NEW n \in 1 .. L, NEW H \in Heap(L),
         NEW gap \in 1 .. n, NEW X, Filled(H, n, gap, X),
         NEW i \in 2 .. gap, NEW t, NEW r,
         GoneUp(H, L, n, PARENT(i), t, r), t < Due(H.heap[PARENT(i)])
  PROVE  GoneUp(H, L, n, i, t, [r EXCEPT !.h = Place(@, i, H.heap[PARENT(i)])])
<1> DEFINE k == PARENT(i)
           q == [r EXCEPT !.h = Place(@, i, H.heap[k])]
<1>1. k \in 1 .. n /\ k < i /\ i \in 1 .. n
  <2>1. i \in Nat /\ i >= 2
    OBVIOUS
  <2>2. PARENT(i) \in 1 .. i - 1
    BY <2>1, ParentIs
  <2> QED BY <2>2
<1>2. PICK M, f :
        /\ Went(H, L, n, k, r, M, f)
        /\ \A j \in M : /\ j > r.at /\ j <= k /\ f[j] = PARENT(j)
                        /\ t < Due(H.heap[PARENT(j)])
        /\ r.at <= k
        /\ r.at = 1 \/ Due(H.heap[PARENT(r.at)]) <= t
  BY DEF GoneUp
<1> HIDE DEF k
<1>3. r \in [at : Nat, h : Heap(L)] /\ Moved(H, r.h, L, n, k, r.at, M, f)
  BY <1>2 DEF Went
<1>4. M \subseteq 1 .. n /\ r.at \in 1 .. n
  BY <1>3 DEF Moved
<1>5. i \notin M \cup {r.at}
  BY <1>1, <1>2, <1>4
<1>6. \A j \in M : H.heap[f[j]].ev # H.heap[k].ev
  <2> SUFFICES ASSUME NEW j \in M PROVE H.heap[f[j]].ev # H.heap[k].ev
    OBVIOUS
  <2>1. j \in Nat /\ j >= 2
    BY <1>2, <1>4
  <2>2. PARENT(j) \in 1 .. j - 1
    BY <2>1, ParentIs
  <2>3. f[j] \in (1 .. n) \ {gap} /\ k \in (1 .. n) \ {gap} /\ f[j] # k
    BY <1>1, <1>2, <1>4, <2>2
  <2> QED BY <2>3 DEF Filled
<1> DEFINE g == [j \in M \cup {i} |-> IF j = i THEN k ELSE f[j]]
<1>7. Moved(H, Place(r.h, i, H.heap[k]), L, n, i, r.at, M \cup {i}, g)
  <2> DEFINE K == r.h
             a == r.at
             e == g
  <2>1. Moved(H, K, L, n, k, a, M, f) /\ i \notin M \cup {a} /\ i # k
    BY <1>1, <1>3, <1>5
  <2>2. e = [j \in M \cup {i} |-> IF j = i THEN k ELSE f[j]]
    OBVIOUS
  <2> HIDE DEF K, a, e
  <2>3. Moved(H, Place(K, i, H.heap[k]), L, n, i, a, M \cup {i}, e)
    BY <1>1, <1>6, <2>1, <2>2, OneMoreMoved
  <2> QED BY <2>3 DEF K, a, e
<1>8. q \in [at : Nat, h : Heap(L)] /\ q.at = r.at /\ q.h = Place(r.h, i, H.heap[k])
  <2>1. q.at = r.at /\ q.h = Place(r.h, i, H.heap[k])
    BY <1>3
  <2>2. Place(r.h, i, H.heap[k]) \in Heap(L)
    BY <1>7 DEF Moved
  <2> QED BY <1>3, <2>1, <2>2
<1>9. Went(H, L, n, i, q, M \cup {i}, g)
  <2> HIDE DEF q, g
  <2> QED BY <1>7, <1>8 DEF Went
<1>10. \A j \in M \cup {i} : /\ j > r.at /\ j <= i /\ g[j] = PARENT(j)
                             /\ t < Due(H.heap[PARENT(j)])
  <2>1. ASSUME NEW j \in M
        PROVE  /\ j > r.at /\ j <= i /\ g[j] = PARENT(j)
               /\ t < Due(H.heap[PARENT(j)])
    BY <1>1, <1>2, <1>4, <1>5, <2>1
  <2>2. /\ i > r.at /\ i <= i /\ g[i] = PARENT(i)
        /\ t < Due(H.heap[PARENT(i)])
    BY <1>1, <1>2, <1>4 DEF k
  <2> QED BY <2>1, <2>2
<1>11. q.at <= i /\ (q.at = 1 \/ Due(H.heap[PARENT(q.at)]) <= t)
  BY <1>1, <1>2, <1>4, <1>8
<1>12. GoneUp(H, L, n, i, t, q)
  <2> HIDE DEF q, g
  <2> QED BY <1>8, <1>9, <1>10, <1>11 DEF GoneUp
<1> QED BY <1>12 DEF q, k

(* For the recursive functions that the loops are: what holds of 0, and of *)
(* n + 1 when it does of n, holds of every number.                         *)
LEMMA SetInduction ==
  ASSUME NEW A, 0 \in A, \A n \in Nat : n \in A => n + 1 \in A
  PROVE  Nat \subseteq A
<1> DEFINE R == OpToRel(<, Nat)
           T == Nat \ A
<1>1. IsWellFoundedOn(R, Nat)
  BY NatLessThanWellFounded
<1>2. \A x, y \in Nat : y < x => <<y, x>> \in R
  BY DEF OpToRel
<1> HIDE DEF R
<1>3. SUFFICES ASSUME T # {} PROVE FALSE
  OBVIOUS
<1>4. PICK x \in T : \A y \in T : ~(<<y, x>> \in R)
  BY <1>1, <1>3, WFMin
<1>5. x \in Nat /\ x # 0 /\ x - 1 \in Nat /\ x - 1 < x
  OBVIOUS
<1>6. x - 1 \in A
  BY <1>2, <1>4, <1>5
<1> QED BY <1>5, <1>6

LEMMA UpGoes ==
  ASSUME NEW L \in Nat, NEW n \in 1 .. L, NEW H \in Heap(L),
         NEW gap \in 1 .. n, NEW X, Filled(H, n, gap, X),
         NEW time \in Times, min_time \in Int
  PROVE  GoneUp(H, L, n, gap, Wrap(time - min_time), tmevt_up(H, gap, time))
<1> DEFINE t == Wrap(time - min_time)
           Stop(i) == i = 1 \/ EVTTIM_LE(H.heap[PARENT(i)].time, time)
           Step(g, i) == IF Stop(i)
                         THEN [at |-> i, h |-> H]
                         ELSE LET r == g[PARENT(i)]
                              IN [r EXCEPT !.h = Place(@, i, H.heap[PARENT(i)])]
           F(g) == [i \in 1 .. gap |-> Step(g, i)]
           Good(m, g) == \A i \in 1 .. m : g[i] = Step(g, i)
           A == {m \in Nat : m <= gap => \E g : Good(m, g)}
           f == CHOOSE x : x = F(x)
           B == {m \in Nat : m <= gap => \A i \in 1 .. m : GoneUp(H, L, n, i, t, f[i])}
<1>1. \A j \in Nat : j >= 2 => PARENT(j) \in 1 .. j - 1
  BY ParentIs
<1>2. tmevt_up(H, gap, time) = f[gap]
  BY DEF tmevt_up
<1>3. 0 \in A
  <2>1. Good(0, <<>>)
    OBVIOUS
  <2> QED BY <2>1
<1>4. ASSUME NEW m \in Nat, m \in A, m + 1 <= gap
      PROVE  \E g : Good(m + 1, g)
  <2>1. PICK g : Good(m, g)
    <3>1. m <= gap
      BY <1>4
    <3> HIDE DEF Good
    <3> QED BY <1>4, <3>1
  <2> DEFINE e == [j \in 1 .. m + 1 |-> IF j = m + 1 THEN Step(g, j) ELSE g[j]]
  <2>2. \A j \in 1 .. m + 1 : Step(e, j) = Step(g, j)
    <3>1. \A j \in 1 .. m + 1 : j = 1 \/ PARENT(j) \in 1 .. m
      BY <1>1
    <3>2. \A j \in 1 .. m : e[j] = g[j]
      OBVIOUS
    <3> HIDE DEF e
    <3> QED BY <3>1, <3>2
  <2> HIDE DEF Step
  <2>3. Good(m + 1, e)
    BY <2>1, <2>2
  <2> HIDE DEF Good
  <2> QED BY <2>3
<1>5. PICK g : Good(gap, g)
  <2>1. gap \in Nat /\ gap <= gap
    OBVIOUS
  <2> HIDE DEF Good
  <2>2. \A m \in Nat : m \in A => m + 1 \in A
    BY <1>4
  <2>3. Nat \subseteq A
    <3> HIDE DEF A
    <3> QED BY <1>3, <2>2, SetInduction
  <2> QED BY <2>1, <2>3
<1> DEFINE G == [i \in 1 .. gap |-> g[i]]
<1>6. G = F(G)
  <2>1. \A j \in 1 .. gap : j = 1 \/ PARENT(j) \in 1 .. gap
    BY <1>1
  <2>2. \A j \in 1 .. gap : Step(G, j) = Step(g, j)
    BY <2>1
  <2> HIDE DEF Step
  <2> QED BY <1>5, <2>2
<1>7. f = F(f)
  <2> HIDE DEF F, G
  <2> QED BY <1>6
<1> HIDE DEF f
<1>8. \A i \in 1 .. gap : f[i] = Step(f, i)
  <2> HIDE DEF Step
  <2> QED BY <1>7
<1>9. 0 \in B
  OBVIOUS
<1>10. ASSUME NEW m \in Nat, m \in B, m + 1 <= gap
       PROVE  GoneUp(H, L, n, m + 1, t, f[m + 1])
  <2> DEFINE i == m + 1
             k == PARENT(i)
  <2> SUFFICES GoneUp(H, L, n, i, t, f[i])
    OBVIOUS
  <2>1. i \in 1 .. gap /\ i \in 1 .. n /\ f[i] = Step(f, i)
    BY <1>8, <1>10
  <2>2. CASE i = 1
    <3>1. f[i] = [at |-> i, h |-> H]
      BY <2>1, <2>2
    <3> HIDE DEF i, t
    <3> QED BY <2>1, <2>2, <3>1, UpStop
  <2>3. CASE i # 1
    <3>1. i \in 2 .. gap /\ k \in 1 .. m
      BY <1>1, <2>1, <2>3
    <3>2. H.heap[k] \in Nodes
      BY <2>1, <3>1 DEF Heap
    <3>3. Stop(i) <=> Due(H.heap[k]) <= t
      BY <2>3 DEF EVTTIM_LE, Due
    <3>4. Due(H.heap[k]) \in Int /\ t \in Int
      <4>1. time - min_time \in Int
        BY TimeEventAssumption DEF Times
      <4>2. t \in Times
        BY <4>1, WrapEx
      <4> QED BY <3>2, <4>2, DueType, TimeEventAssumption DEF Times
    <3>5. CASE Stop(i)
      <4>1. f[i] = [at |-> i, h |-> H]
        BY <2>1, <3>5
      <4>2. Due(H.heap[PARENT(i)]) <= t
        BY <3>3, <3>5
      <4> HIDE DEF i, t
      <4> QED BY <2>1, <4>1, <4>2, UpStop
    <3>6. CASE ~ Stop(i)
      <4>1. f[i] = [f[k] EXCEPT !.h = Place(@, i, H.heap[k])]
        BY <2>1, <3>6
      <4>2. t < Due(H.heap[k])
        BY <3>3, <3>4, <3>6
      <4>3. GoneUp(H, L, n, k, t, f[k])
        BY <1>10, <3>1
      <4> HIDE DEF i, t
      <4> QED BY <3>1, <4>1, <4>2, <4>3, UpStep
    <3> QED BY <3>5, <3>6
  <2> QED BY <2>2, <2>3
<1>11. \A m \in Nat : m \in B => m + 1 \in B
  BY <1>10
<1>12. Nat \subseteq B
  <2> HIDE DEF B
  <2> QED BY <1>9, <1>11, SetInduction
<1>13. GoneUp(H, L, n, gap, t, f[gap])
  BY <1>12
<1> QED BY <1>2, <1>13 DEF f

(* The place l is below i and its node no later than the others below i.   *)
Earliest(H, n, i, l) ==
  /\ l \in 2 .. n /\ PARENT(l) = i
  /\ \A j \in 2 .. n : PARENT(j) = i => Due(H.heap[l]) <= Due(H.heap[j])

(* Down from the place i, until t.                                         *)
GoneDown(H, L, n, i, t, r) ==
  \E M, f :
    /\ Went(H, L, n, i, r, M, f)
    /\ \A j \in M : j >= i /\ Earliest(H, n, j, f[j]) /\ Due(H.heap[f[j]]) < t
    /\ r.at >= i
    /\ \A l \in 2 .. n : PARENT(l) = r.at => t <= Due(H.heap[l])

LEMMA DownStop ==
  ASSUME NEW L \in Nat, NEW n \in 1 .. L, NEW H \in Heap(L), NEW i \in 1 .. n,
         NEW t, \A l \in 2 .. n : PARENT(l) = i => t <= Due(H.heap[l])
  PROVE  GoneDown(H, L, n, i, t, [at |-> i, h |-> H])
<1> DEFINE f == [j \in {} |-> i]
           r == [at |-> i, h |-> H]
<1>1. f \in [{} -> {i}]
  OBVIOUS
<1> HIDE DEF f
<1>2. Moved(H, H, L, n, i, i, {}, f)
  BY <1>1, NothingMoved
<1>3. r \in [at : Nat, h : Heap(L)] /\ r.at = i /\ r.h = H
  OBVIOUS
<1>4. Went(H, L, n, i, r, {}, f)
  BY <1>2, <1>3 DEF Went
<1>5. r.at >= i
  BY <1>3
<1> HIDE DEF r
<1>6. GoneDown(H, L, n, i, t, r)
  BY <1>3, <1>4, <1>5 DEF GoneDown
<1> QED BY <1>6 DEF r

LEMMA DownStep ==
  ASSUME NEW L \in Nat, NEW n \in 1 .. L, NEW H \in Heap(L),
         NEW gap \in 1 .. n, NEW X, Filled(H, n, gap, X),
         NEW i \in gap .. n, NEW t, NEW r, NEW k,
         Earliest(H, n, i, k), Due(H.heap[k]) < t,
         GoneDown(H, L, n, k, t, r)
  PROVE  GoneDown(H, L, n, i, t, [r EXCEPT !.h = Place(@, i, H.heap[k])])
<1> DEFINE q == [r EXCEPT !.h = Place(@, i, H.heap[k])]
<1>1. k \in 1 .. n /\ i \in 1 .. n /\ i < k
  <2>1. k \in 2 .. n /\ PARENT(k) = i
    BY DEF Earliest
  <2>2. k \in Nat /\ k >= 2 /\ k \in 1 .. n /\ i \in 1 .. n
    BY <2>1
  <2>3. PARENT(k) \in 1 .. k - 1
    BY <2>2, ParentIs
  <2> QED BY <2>1, <2>2, <2>3
<1>2. PICK M, f :
        /\ Went(H, L, n, k, r, M, f)
        /\ \A j \in M : j >= k /\ Earliest(H, n, j, f[j]) /\ Due(H.heap[f[j]]) < t
        /\ r.at >= k
        /\ \A l \in 2 .. n : PARENT(l) = r.at => t <= Due(H.heap[l])
  BY DEF GoneDown
<1>3. r \in [at : Nat, h : Heap(L)] /\ Moved(H, r.h, L, n, k, r.at, M, f)
  BY <1>2 DEF Went
<1>4. /\ M \subseteq 1 .. n /\ r.at \in 1 .. n
      /\ \A j \in M : f[j] \in M \cup {r.at} /\ f[j] # k
  BY <1>3 DEF Moved
<1>5. i \notin M \cup {r.at}
  BY <1>1, <1>2, <1>4
<1>6. \A j \in M : H.heap[f[j]].ev # H.heap[k].ev
  <2> SUFFICES ASSUME NEW j \in M PROVE H.heap[f[j]].ev # H.heap[k].ev
    OBVIOUS
  <2>1. f[j] \in 1 .. n /\ f[j] >= k /\ f[j] # k
    BY <1>2, <1>4
  <2>2. f[j] \in (1 .. n) \ {gap} /\ k \in (1 .. n) \ {gap} /\ f[j] # k
    BY <1>1, <2>1
  <2> QED BY <2>2 DEF Filled
<1> DEFINE g == [j \in M \cup {i} |-> IF j = i THEN k ELSE f[j]]
<1>7. Moved(H, Place(r.h, i, H.heap[k]), L, n, i, r.at, M \cup {i}, g)
  <2> DEFINE K == r.h
             a == r.at
             e == g
  <2>1. Moved(H, K, L, n, k, a, M, f) /\ i \notin M \cup {a} /\ i # k
    BY <1>1, <1>3, <1>5
  <2>2. e = [j \in M \cup {i} |-> IF j = i THEN k ELSE f[j]]
    OBVIOUS
  <2> HIDE DEF K, a, e
  <2>3. Moved(H, Place(K, i, H.heap[k]), L, n, i, a, M \cup {i}, e)
    BY <1>1, <1>6, <2>1, <2>2, OneMoreMoved
  <2> QED BY <2>3 DEF K, a, e
<1>8. q \in [at : Nat, h : Heap(L)] /\ q.at = r.at /\ q.h = Place(r.h, i, H.heap[k])
  <2>1. q.at = r.at /\ q.h = Place(r.h, i, H.heap[k])
    BY <1>3
  <2>2. Place(r.h, i, H.heap[k]) \in Heap(L)
    BY <1>7 DEF Moved
  <2> QED BY <1>3, <2>1, <2>2
<1>9. Went(H, L, n, i, q, M \cup {i}, g)
  <2> HIDE DEF q, g
  <2> QED BY <1>7, <1>8 DEF Went
<1>10. \A j \in M \cup {i} : /\ j >= i /\ Earliest(H, n, j, g[j])
                             /\ Due(H.heap[g[j]]) < t
  <2>1. ASSUME NEW j \in M
        PROVE  j >= i /\ Earliest(H, n, j, g[j]) /\ Due(H.heap[g[j]]) < t
    <3>1. j # i /\ g[j] = f[j] /\ j >= i
      BY <1>1, <1>2, <1>4, <1>5
    <3> HIDE DEF g
    <3> QED BY <1>2, <3>1
  <2>2. i >= i /\ Earliest(H, n, i, g[i]) /\ Due(H.heap[g[i]]) < t
    <3>1. g[i] = k /\ i >= i
      BY <1>1
    <3> HIDE DEF g
    <3> QED BY <3>1
  <2> QED BY <2>1, <2>2
<1>11. q.at >= i /\ \A l \in 2 .. n : PARENT(l) = q.at => t <= Due(H.heap[l])
  BY <1>1, <1>2, <1>4, <1>8
<1>12. GoneDown(H, L, n, i, t, q)
  <2> HIDE DEF q, g
  <2> QED BY <1>8, <1>9, <1>10, <1>11 DEF GoneDown
<1> QED BY <1>12 DEF q

(* The place below i that tmevt_down looks at.                             *)
Child(H, n, i) ==
  IF /\ LCHILD(i) + 1 <= n
     /\ EVTTIM_LT(H.heap[LCHILD(i) + 1].time, H.heap[LCHILD(i)].time)
  THEN LCHILD(i) + 1 ELSE LCHILD(i)

DownStops(H, n, i, time) ==
  LCHILD(i) > n \/ EVTTIM_LE(time, H.heap[Child(H, n, i)].time)

LEMMA DownUnfold ==
  ASSUME NEW n \in Nat, NEW H, NEW time, NEW i \in Nat \ {0}
  PROVE  tmevt_down(H, i, time, n) =
           IF DownStops(H, n, i, time) THEN [at |-> i, h |-> H]
           ELSE [tmevt_down(H, Child(H, n, i), time, n) EXCEPT
                   !.h = Place(@, i, H.heap[Child(H, n, i)])]
<1> DEFINE C(j) == Child(H, n, j)
           Stop(j) == DownStops(H, n, j, time)
           Step(g, j) == IF Stop(j)
                         THEN [at |-> j, h |-> H]
                         ELSE LET r == g[C(j)]
                              IN [r EXCEPT !.h = Place(@, j, H.heap[C(j)])]
           F(g) == [j \in Nat \ {0} |-> Step(g, j)]
           Good(m, g) == \A j \in Nat \ {0} : j > n - m => g[j] = Step(g, j)
           A == {m \in Nat : m <= n => \E g : Good(m, g)}
           f == CHOOSE x : x = F(x)
<1>1. \A j \in Nat \ {0} : C(j) \in Nat /\ C(j) > j
  BY ChildIs DEF Child
<1>2. \A j \in Nat \ {0} : tmevt_down(H, j, time, n) = f[j]
  BY DEF tmevt_down, DownStops, Child
<1> HIDE DEF C
<1>3. 0 \in A
  <2> DEFINE e == [j \in Nat \ {0} |-> [at |-> j, h |-> H]]
  <2>1. \A j \in Nat \ {0} : j > n => Stop(j)
    BY ChildIs DEF DownStops
  <2>2. Good(0, e)
    <3> HIDE DEF Stop
    <3> QED BY <2>1
  <2> HIDE DEF Good
  <2> QED BY <2>2
<1> HIDE DEF Stop
<1>4. ASSUME NEW m \in Nat, m \in A, m + 1 <= n
      PROVE  \E g : Good(m + 1, g)
  <2>1. PICK g : Good(m, g)
    <3>1. m <= n
      BY <1>4
    <3> HIDE DEF Good
    <3> QED BY <1>4, <3>1
  <2> DEFINE p == n - m
             e == [j \in Nat \ {0} |-> IF j = p THEN Step(g, j) ELSE g[j]]
  <2>2. \A j \in Nat \ {0} : j >= p => Step(e, j) = Step(g, j)
    <3>1. \A j \in Nat \ {0} : j # p => e[j] = g[j]
      OBVIOUS
    <3>2. \A j \in Nat \ {0} : j >= p => C(j) \in Nat \ {0} /\ C(j) # p
      BY <1>1, <1>4
    <3> HIDE DEF e, p
    <3> QED BY <3>1, <3>2
  <2> HIDE DEF Step
  <2>3. Good(m + 1, e)
    BY <1>4, <2>1, <2>2
  <2> HIDE DEF Good
  <2> QED BY <2>3
<1>5. PICK g : Good(n, g)
  <2>1. n \in Nat /\ n <= n
    OBVIOUS
  <2> HIDE DEF Good
  <2>2. \A m \in Nat : m \in A => m + 1 \in A
    BY <1>4
  <2>3. Nat \subseteq A
    <3> HIDE DEF A
    <3> QED BY <1>3, <2>2, SetInduction
  <2> QED BY <2>1, <2>3
<1> DEFINE G == [j \in Nat \ {0} |-> g[j]]
<1>6. G = F(G)
  <2>1. \A j \in Nat \ {0} : C(j) \in Nat \ {0}
    BY <1>1
  <2>2. \A j \in Nat \ {0} : Step(G, j) = Step(g, j)
    BY <2>1
  <2> HIDE DEF Step
  <2> QED BY <1>5, <2>2
<1>7. f = F(f)
  <2> HIDE DEF F, G
  <2> QED BY <1>6
<1> HIDE DEF f
<1>8. f[i] = Step(f, i)
  <2> HIDE DEF Step
  <2> QED BY <1>7
<1>9. C(i) \in Nat \ {0}
  BY <1>1
<1>10. tmevt_down(H, i, time, n) = f[i] /\ tmevt_down(H, C(i), time, n) = f[C(i)]
  BY <1>2, <1>9
<1>11. tmevt_down(H, i, time, n) =
         IF Stop(i) THEN [at |-> i, h |-> H]
         ELSE [tmevt_down(H, C(i), time, n) EXCEPT !.h = Place(@, i, H.heap[C(i)])]
  BY <1>8, <1>10
<1> QED BY <1>11 DEF C, Stop

LEMMA DownGoes ==
  ASSUME NEW L \in Nat, NEW n \in 1 .. L, NEW H \in Heap(L),
         NEW gap \in 1 .. n, NEW X, Filled(H, n, gap, X),
         NEW time \in Times, min_time \in Int
  PROVE  GoneDown(H, L, n, gap, Wrap(time - min_time),
                  tmevt_down(H, gap, time, n))
<1> DEFINE t == Wrap(time - min_time)
           C(j) == Child(H, n, j)
           Stop(j) == DownStops(H, n, j, time)
           f == [j \in Nat \ {0} |-> tmevt_down(H, j, time, n)]
           B == {m \in Nat : m <= n - gap + 1 =>
                   \A i \in gap .. n : i > n - m => GoneDown(H, L, n, i, t, f[i])}
<1>1. \A j \in Nat \ {0} : C(j) \in Nat /\ C(j) > j
  BY ChildIs DEF Child
<1>2. \A j \in Nat \ {0} :
        f[j] = IF Stop(j) THEN [at |-> j, h |-> H]
               ELSE [f[C(j)] EXCEPT !.h = Place(@, j, H.heap[C(j)])]
  <2> SUFFICES ASSUME NEW j \in Nat \ {0}
               PROVE  f[j] = IF Stop(j) THEN [at |-> j, h |-> H]
                             ELSE [f[C(j)] EXCEPT !.h = Place(@, j, H.heap[C(j)])]
    OBVIOUS
  <2>1. tmevt_down(H, j, time, n) =
          IF Stop(j) THEN [at |-> j, h |-> H]
          ELSE [tmevt_down(H, C(j), time, n) EXCEPT !.h = Place(@, j, H.heap[C(j)])]
    BY DownUnfold
  <2> HIDE DEF C, Stop
  <2> QED BY <1>1, <2>1
<1>3. f[gap] = tmevt_down(H, gap, time, n)
  OBVIOUS
<1> HIDE DEF f
<1>4. \A j \in 1 .. n : Due(H.heap[j]) \in Int
  <2>1. \A j \in 1 .. n : H.heap[j] \in Nodes
    BY DEF Heap
  <2> QED BY <2>1, DueType
<1>5. t \in Int
  <2>1. time - min_time \in Int
    BY TimeEventAssumption DEF Times
  <2>2. t \in Times
    BY <2>1, WrapEx
  <2> QED BY <2>2, TimeEventAssumption DEF Times
<1>6. \A i \in 1 .. n : LCHILD(i) <= n => Earliest(H, n, i, C(i))
  <2> SUFFICES ASSUME NEW i \in 1 .. n, LCHILD(i) <= n
               PROVE  Earliest(H, n, i, C(i))
    OBVIOUS
  <2>1. /\ LCHILD(i) \in 2 .. n /\ PARENT(LCHILD(i)) = i
        /\ PARENT(LCHILD(i) + 1) = i
    BY ChildIs
  <2>2. \A j \in 2 .. n : PARENT(j) = i => j = LCHILD(i) \/ j = LCHILD(i) + 1
    BY ParentIs
  <2> DEFINE l == LCHILD(i)
  <2>3. EVTTIM_LT(H.heap[l + 1].time, H.heap[l].time)
          <=> Due(H.heap[l + 1]) < Due(H.heap[l])
    BY DEF EVTTIM_LT, Due
  <2> HIDE DEF l
  <2> QED BY <1>4, <2>1, <2>2, <2>3 DEF Earliest, l, Child
<1>7. 0 \in B
  OBVIOUS
<1>8. ASSUME NEW m \in Nat, m \in B, m + 1 <= n - gap + 1,
              NEW i \in gap .. n, i > n - (m + 1)
       PROVE  GoneDown(H, L, n, i, t, f[i])
  <2>1. i \in 1 .. n /\ i \in Nat \ {0}
    OBVIOUS
  <2>2. CASE LCHILD(i) > n
    <3>1. f[i] = [at |-> i, h |-> H]
      BY <1>2, <2>1, <2>2 DEF DownStops
    <3>2. \A l \in 2 .. n : PARENT(l) # i
      <4>1. \A l \in 2 .. n : l = LCHILD(PARENT(l)) \/ l = LCHILD(PARENT(l)) + 1
        BY ParentIs
      <4>2. LCHILD(i) \in Nat
        BY <2>1, ChildIs
      <4> QED BY <2>2, <4>1, <4>2
    <3> HIDE DEF t
    <3> QED BY <2>1, <3>1, <3>2, DownStop
  <2>3. CASE LCHILD(i) <= n
    <3> DEFINE k == C(i)
    <3>1. Earliest(H, n, i, k) /\ k \in 1 .. n /\ k > i
      BY <1>1, <1>6, <2>1, <2>3 DEF Earliest
    <3>2. Stop(i) <=> t <= Due(H.heap[k])
      BY <2>1, <2>3, ChildIs DEF EVTTIM_LE, Due, DownStops
    <3>3. f[i] = IF Stop(i) THEN [at |-> i, h |-> H]
                 ELSE [f[k] EXCEPT !.h = Place(@, i, H.heap[k])]
      BY <1>2, <2>1
    <3> HIDE DEF t, k, Stop
    <3>4. CASE Stop(i)
      <4>1. \A l \in 2 .. n : PARENT(l) = i => t <= Due(H.heap[l])
        BY <1>4, <1>5, <3>1, <3>2, <3>4 DEF Earliest
      <4> QED BY <2>1, <3>3, <3>4, <4>1, DownStop
    <3>5. CASE ~ Stop(i)
      <4>1. Due(H.heap[k]) < t
        BY <1>4, <1>5, <3>1, <3>2, <3>5
      <4>2. GoneDown(H, L, n, k, t, f[k])
        BY <1>8, <3>1
      <4> QED BY <3>1, <3>3, <3>5, <4>1, <4>2, DownStep
    <3> QED BY <3>4, <3>5
  <2> QED BY <2>1, <2>2, <2>3, ChildIs
<1>9. \A m \in Nat : m \in B => m + 1 \in B
  BY <1>8
<1>10. Nat \subseteq B
  <2> HIDE DEF B
  <2> QED BY <1>7, <1>9, SetInduction
<1>11. GoneDown(H, L, n, gap, t, f[gap])
  <2> DEFINE m == n - gap + 1
  <2>1. m \in Nat /\ m <= n - gap + 1 /\ gap \in gap .. n /\ gap > n - m
    OBVIOUS
  <2> HIDE DEF m
  <2> QED BY <1>10, <2>1
<1> QED BY <1>3, <1>11

-----------------------------------------------------------------------------
(* With the node in the place that a loop has found, the heap is one.      *)

Dues(H, n) == [j \in 1 .. n |-> Due(H.heap[j])]

Sorted(H, n) == \A j \in 2 .. n : Due(H.heap[PARENT(j)]) <= Due(H.heap[j])

Done(H, P, L, n, X, node) ==
  /\ P \in Heap(L)
  /\ Filled(P, n, 0, X \ {node.ev}) /\ Sorted(P, n)
  /\ P.index[node.ev] \in 1 .. n /\ Node(P, node.ev) = node
  /\ \A x \in X \ {node.ev} : P.index[x] = H.index[x]
  /\ Kept(H, P, Events \ X)

LEMMA DuesType ==
  ASSUME NEW L \in Nat, NEW n \in 0 .. L, NEW H \in Heap(L), min_time \in Int
  PROVE  /\ Dues(H, n) \in [1 .. n -> Int]
         /\ \A j \in 1 .. n : Dues(H, n)[j] = Due(H.heap[j])
<1>1. \A j \in 1 .. n : H.heap[j] \in Nodes
  BY DEF Heap
<1>2. \A j \in 1 .. n : Due(H.heap[j]) \in Int
  BY <1>1, DueType
<1> QED BY <1>2 DEF Dues

LEMMA UpDone ==
  ASSUME NEW L \in Nat, NEW n \in 1 .. L, NEW H \in Heap(L), min_time \in Int,
         NEW gap \in 1 .. n, NEW X \in SUBSET Events, Filled(H, n, gap, X),
         InOrder(Dues(H, n), n, gap),
         NEW node \in Nodes, node.ev \in X,
         \A j \in 2 .. n : PARENT(j) = gap => Due(node) <= Due(H.heap[j]),
         NEW r, r = tmevt_up(H, gap, node.time)
  PROVE  Done(H, Place(r.h, r.at, node), L, n, X, node)
<1> DEFINE t == Due(node)
           d == Dues(H, n)
<1>1. GoneUp(H, L, n, gap, t, r)
  <2>1. node.time \in Times
    BY DEF Nodes
  <2> QED BY <2>1, UpGoes DEF Due
<1>2. PICK M, f :
        /\ Went(H, L, n, gap, r, M, f)
        /\ \A j \in M : /\ j > r.at /\ j <= gap /\ f[j] = PARENT(j)
                        /\ t < Due(H.heap[PARENT(j)])
        /\ r.at <= gap
        /\ r.at = 1 \/ Due(H.heap[PARENT(r.at)]) <= t
  BY <1>1 DEF GoneUp
<1> DEFINE K == r.h
           at == r.at
           P == Place(K, at, node)
           p == Dues(P, n)
<1>3. Moved(H, K, L, n, gap, at, M, f)
  BY <1>2 DEF Went
<1>4. /\ at \in 1 .. n /\ M \in SUBSET (1 .. n) /\ gap \in M \cup {at} /\ at \notin M
      /\ \A k \in M \cup {at} : k # gap => \E j \in M : f[j] = k
      /\ \A j \in M : f[j] \in M \cup {at}
  BY <1>3 DEF Moved
<1> HIDE DEF K, at, t
<1>5. /\ P \in Heap(L)
      /\ P.heap[at] = node
      /\ \A j \in M : P.heap[j] = H.heap[f[j]]
      /\ \A j \in (1 .. L) \ (M \cup {at}) : P.heap[j] = H.heap[j]
      /\ Filled(P, n, 0, X \ {node.ev})
      /\ P.index[node.ev] = at
      /\ \A x \in X \ {node.ev} : P.index[x] = H.index[x]
      /\ Kept(H, P, Events \ X)
  BY <1>3, MovedPlaced
<1> HIDE DEF P
<1>6. /\ d \in [1 .. n -> Int] /\ \A j \in 1 .. n : d[j] = Due(H.heap[j])
      /\ p \in [1 .. n -> Int] /\ \A j \in 1 .. n : p[j] = Due(P.heap[j])
  <2>1. n \in 0 .. L
    OBVIOUS
  <2> QED BY <1>5, <2>1, DuesType
<1>7. t \in Int
  BY DueType DEF t
<1>8. \A j \in 2 .. n : j \in 1 .. n /\ PARENT(j) \in 1 .. n
  BY ParentIs
<1>9. \A j \in M : j > at /\ at \in 1 .. n
  BY <1>2, <1>4 DEF at
<1>10. \A j \in M : j \in 2 .. n /\ PARENT(j) \in 1 .. n
  <2> SUFFICES ASSUME NEW j \in M PROVE j \in 2 .. n
    BY <1>8
  <2> QED BY <1>4, <1>9
<1>11. InHeap(p, n)
  <2>1. \A j \in 2 .. n : PARENT(j) = gap => t <= d[j]
    BY <1>6, <1>8 DEF t
  <2>2. at = 1 \/ d[PARENT(at)] <= t
    <3>1. at = 1 \/ at \in 2 .. n
      BY <1>4
    <3> QED BY <1>2, <1>6, <1>8, <3>1 DEF at
  <2>3. \A k \in M \cup {at} : k # gap => \E j \in M : PARENT(j) = k
    BY <1>2, <1>4
  <2>4. \A j \in M : /\ j > at /\ j <= gap /\ PARENT(j) \in M \cup {at}
                     /\ t < d[PARENT(j)] /\ p[j] = d[PARENT(j)]
    <3> SUFFICES ASSUME NEW j \in M
                 PROVE  /\ j > at /\ j <= gap /\ PARENT(j) \in M \cup {at}
                        /\ t < d[PARENT(j)] /\ p[j] = d[PARENT(j)]
      OBVIOUS
    <3>1. /\ j > at /\ j <= gap /\ f[j] = PARENT(j) /\ t < Due(H.heap[PARENT(j)])
      BY <1>2 DEF at
    <3>2. PARENT(j) \in M \cup {at} /\ PARENT(j) \in 1 .. n /\ j \in 1 .. n
      BY <1>4, <1>10, <3>1
    <3> QED BY <1>5, <1>6, <3>1, <3>2
  <2>5. p[at] = t
    BY <1>4, <1>5, <1>6 DEF t
  <2>6. \A j \in (1 .. n) \ (M \cup {at}) : p[j] = d[j]
    BY <1>5, <1>6
  <2> HIDE DEF p, d
  <2>7. n \in Nat /\ InOrder(d, n, gap)
    BY DEF d
  <2>8. ChainUp(n, gap, at, M, d, p, t)
    BY <1>4, <1>6, <1>7, <2>1, <2>2, <2>3, <2>4, <2>5, <2>6, <2>7 DEF ChainUp
  <2> QED BY <2>7, <2>8, UpOrder
<1>12. Sorted(P, n)
  BY <1>6, <1>8, <1>11 DEF Sorted, InHeap
<1>13. Done(H, P, L, n, X, node)
  BY <1>4, <1>5, <1>12 DEF Done, Node
<1> QED BY <1>13 DEF P, K, at

LEMMA DownDone ==
  ASSUME NEW L \in Nat, NEW n \in 1 .. L, NEW H \in Heap(L), min_time \in Int,
         NEW gap \in 1 .. n, NEW X \in SUBSET Events, Filled(H, n, gap, X),
         InOrder(Dues(H, n), n, gap),
         NEW node \in Nodes, node.ev \in X,
         gap = 1 \/ Due(H.heap[PARENT(gap)]) <= Due(node),
         NEW r, r = tmevt_down(H, gap, node.time, n)
  PROVE  Done(H, Place(r.h, r.at, node), L, n, X, node)
<1> DEFINE t == Due(node)
           d == Dues(H, n)
<1>1. GoneDown(H, L, n, gap, t, r)
  <2>1. node.time \in Times
    BY DEF Nodes
  <2> QED BY <2>1, DownGoes DEF Due
<1>2. PICK M, f :
        /\ Went(H, L, n, gap, r, M, f)
        /\ \A j \in M : j >= gap /\ Earliest(H, n, j, f[j]) /\ Due(H.heap[f[j]]) < t
        /\ r.at >= gap
        /\ \A l \in 2 .. n : PARENT(l) = r.at => t <= Due(H.heap[l])
  BY <1>1 DEF GoneDown
<1> DEFINE K == r.h
           at == r.at
           P == Place(K, at, node)
           p == Dues(P, n)
<1>3. Moved(H, K, L, n, gap, at, M, f)
  BY <1>2 DEF Went
<1>4. /\ at \in 1 .. n /\ M \in SUBSET (1 .. n) /\ gap \in M \cup {at} /\ at \notin M
      /\ \A k \in M \cup {at} : k # gap => \E j \in M : f[j] = k
  BY <1>3 DEF Moved
<1> HIDE DEF K, at, t
<1>5. /\ P \in Heap(L)
      /\ P.heap[at] = node
      /\ \A j \in M : P.heap[j] = H.heap[f[j]]
      /\ \A j \in (1 .. L) \ (M \cup {at}) : P.heap[j] = H.heap[j]
      /\ Filled(P, n, 0, X \ {node.ev})
      /\ P.index[node.ev] = at
      /\ \A x \in X \ {node.ev} : P.index[x] = H.index[x]
      /\ Kept(H, P, Events \ X)
  BY <1>3, MovedPlaced
<1> HIDE DEF P
<1>6. /\ d \in [1 .. n -> Int] /\ \A j \in 1 .. n : d[j] = Due(H.heap[j])
      /\ p \in [1 .. n -> Int] /\ \A j \in 1 .. n : p[j] = Due(P.heap[j])
  <2>1. n \in 0 .. L
    OBVIOUS
  <2> QED BY <1>5, <2>1, DuesType
<1>7. t \in Int
  BY DueType DEF t
<1>8. \A j \in 2 .. n : j \in 1 .. n /\ PARENT(j) \in 1 .. n
  BY ParentIs
<1>9. InHeap(p, n)
  <2>1. gap = 1 \/ d[PARENT(gap)] <= t
    <3>1. gap = 1 \/ gap \in 2 .. n
      OBVIOUS
    <3> QED BY <1>6, <1>8, <3>1 DEF t
  <2>2. \A j \in 2 .. n : PARENT(j) = at => t <= d[j]
    BY <1>2, <1>6, <1>8 DEF at
  <2>3. \A k \in M \cup {at} : k >= gap /\ (k # gap => \E j \in M : f[j] = k)
    BY <1>2, <1>4 DEF at
  <2>4. \A j \in M : /\ f[j] \in 2 .. n /\ PARENT(f[j]) = j
                     /\ d[f[j]] < t /\ p[j] = d[f[j]]
                     /\ \A l \in 2 .. n : PARENT(l) = j => d[f[j]] <= d[l]
    <3> SUFFICES ASSUME NEW j \in M
                 PROVE  /\ f[j] \in 2 .. n /\ PARENT(f[j]) = j
                        /\ d[f[j]] < t /\ p[j] = d[f[j]]
                        /\ \A l \in 2 .. n : PARENT(l) = j => d[f[j]] <= d[l]
      OBVIOUS
    <3>1. /\ f[j] \in 2 .. n /\ PARENT(f[j]) = j /\ Due(H.heap[f[j]]) < t
          /\ \A l \in 2 .. n : PARENT(l) = j => Due(H.heap[f[j]]) <= Due(H.heap[l])
      BY <1>2 DEF Earliest
    <3>2. f[j] \in 1 .. n /\ j \in 1 .. n
      BY <1>4, <1>8, <3>1
    <3>3. d[f[j]] = Due(H.heap[f[j]]) /\ \A l \in 2 .. n : d[l] = Due(H.heap[l])
      BY <1>6, <1>8, <3>2
    <3>4. p[j] = Due(H.heap[f[j]])
      BY <1>5, <1>6, <3>2
    <3> HIDE DEF d, p
    <3> QED BY <3>1, <3>3, <3>4
  <2>5. p[at] = t
    BY <1>4, <1>5, <1>6 DEF t
  <2>6. \A j \in (1 .. n) \ (M \cup {at}) : p[j] = d[j]
    BY <1>5, <1>6
  <2> HIDE DEF p, d
  <2>7. n \in Nat /\ InOrder(d, n, gap)
    BY DEF d
  <2>8. ChainDown(n, gap, at, M, f, d, p, t)
    BY <1>4, <1>6, <1>7, <2>1, <2>2, <2>3, <2>4, <2>5, <2>6, <2>7 DEF ChainDown
  <2> QED BY <2>7, <2>8, DownOrder
<1>10. Sorted(P, n)
  BY <1>6, <1>8, <1>9 DEF Sorted, InHeap
<1>11. Done(H, P, L, n, X, node)
  BY <1>4, <1>5, <1>10 DEF Done, Node
<1> QED BY <1>11 DEF P, K, at

-----------------------------------------------------------------------------
(* tmevtb_insert, tmevtb_delete and tmevtb_delete_top.                     *)

(* A heap, as HeapOK says, and as wide as its sequence is long.            *)
Fine(H) ==
  /\ Len(H.heap) \in Nat
  /\ H \in Heap(Len(H.heap))
  /\ H.heap \in Seq(Nodes)
  /\ Filled(H, Len(H.heap), 0, {}) /\ Sorted(H, Len(H.heap))

LEMMA HeapIsSeq ==
  ASSUME NEW L \in Nat, NEW H \in Heap(L)
  PROVE  H.heap \in Seq(Nodes) /\ Len(H.heap) = L
<1>1. H.heap \in [1 .. L -> Nodes]
  BY DEF Heap
<1> QED BY <1>1

(* What insertion of e at time and deletion of e leave.                    *)
Inserted(H, K, e, time) ==
  /\ Fine(K) /\ Kept(H, K, Events \ {e})
  /\ K.index[e] # 0 /\ Node(K, e) = [time |-> time, ev |-> e]

Deleted(H, K, e) ==
  /\ Fine(K) /\ Kept(H, K, Events \ {e})
  /\ K.index[e] = 0

LEMMA InsertOK ==
  ASSUME NEW H, Fine(H), min_time \in Int,
         NEW e \in Events, H.index[e] = 0, NEW time \in Times
  PROVE  Inserted(H, tmevtb_insert(H, e, time), e, time)
<1> DEFINE l == Len(H.heap)
           n == l + 1
           node == [time |-> time, ev |-> e]
           G == [H EXCEPT !.heap = Append(@, node)]
           r == tmevt_up(G, n, node.time)
           P == Place(r.h, r.at, node)
<1>1. l \in Nat /\ H \in Heap(l) /\ H.heap \in Seq(Nodes)
  BY DEF Fine
<1>2. node \in Nodes /\ node.ev = e /\ node.time = time
  BY DEF Nodes
<1> HIDE DEF node
<1>3. /\ Append(H.heap, node) \in Seq(Nodes)
      /\ Len(Append(H.heap, node)) = n
      /\ \A j \in 1 .. l : Append(H.heap, node)[j] = H.heap[j]
  BY <1>1, <1>2
<1>4. /\ G.heap = Append(H.heap, node) /\ G.index = H.index
      /\ G \in [heap : Seq(Nodes), index : [Events -> Nat]]
  <2>1. H \in [heap : [1 .. l -> Nodes], index : [Events -> Nat]]
    BY <1>1 DEF Heap
  <2> DEFINE a == Append(H.heap, node)
  <2> HIDE DEF a, l
  <2>2. [H EXCEPT !.heap = a].heap = a /\ [H EXCEPT !.heap = a].index = H.index
    BY <2>1
  <2>3. [H EXCEPT !.heap = a] \in [heap : Seq(Nodes), index : [Events -> Nat]]
    BY <1>3, <2>1 DEF a
  <2> QED BY <2>2, <2>3 DEF a
<1>5. /\ Len(G.heap) = n /\ G.heap \in [1 .. n -> Nodes]
      /\ \A j \in 1 .. l : G.heap[j] = H.heap[j]
  <2>1. G.heap \in Seq(Nodes) /\ Len(G.heap) = n
    BY <1>3, <1>4
  <2> HIDE DEF G, n
  <2>2. G.heap \in [1 .. Len(G.heap) -> Nodes]
    BY <2>1
  <2> QED BY <1>3, <1>4, <2>1, <2>2
<1>6. tmevtb_insert(H, e, time) = P
  <2>1. tmevtb_insert(H, e, time) =
          LET L == [H EXCEPT !.heap = Append(@, node)]
              q == tmevt_up(L, Len(L.heap), time)
          IN Place(q.h, q.at, node)
    BY DEF tmevtb_insert, node
  <2> QED BY <1>2, <1>5, <2>1
<1>7. n \in Nat /\ n \in 1 .. n /\ G \in Heap(n)
  <2>1. n \in Nat /\ n \in 1 .. n
    BY <1>1
  <2> HIDE DEF G, n
  <2> QED BY <1>4, <1>5, <2>1 DEF Heap
<1> HIDE DEF G, l
<1>8. Filled(H, l, 0, {}) /\ Sorted(H, l)
  BY DEF Fine, l
<1>9. Filled(G, n, n, {e})
  <2>1. ASSUME NEW j \in (1 .. n) \ {n}
        PROVE  G.index[G.heap[j].ev] = j /\ G.heap[j].ev \notin {e}
    <3>1. j \in (1 .. l) \ {0} /\ G.heap[j] = H.heap[j]
      BY <1>1, <1>5, <2>1
    <3>2. H.index[H.heap[j].ev] = j
      BY <1>8, <3>1 DEF Filled
    <3> QED BY <1>4, <3>1, <3>2
  <2>2. ASSUME NEW x \in Events \ {e}, G.index[x] # 0
        PROVE  G.index[x] \in (1 .. n) \ {n} /\ G.heap[G.index[x]].ev = x
    <3>1. H.index[x] \in 1 .. l /\ H.heap[H.index[x]].ev = x
      BY <1>4, <1>8, <2>2 DEF Filled
    <3> QED BY <1>1, <1>4, <1>5, <3>1
  <2> QED BY <2>1, <2>2 DEF Filled
<1>10. \A j \in 2 .. n : PARENT(j) # n /\ PARENT(j) \in 1 .. n
  BY <1>1, ParentIs
<1>11. InOrder(Dues(G, n), n, n)
  <2> DEFINE d == Dues(G, n)
  <2>1. \A j \in 1 .. n : d[j] = Due(G.heap[j])
    BY <1>1 DEF Dues
  <2>2. ASSUME NEW j \in 2 .. n, j # n
        PROVE  d[PARENT(j)] <= d[j]
    <3>1. j \in 2 .. l /\ j \in 1 .. l
      BY <1>1, <2>2
    <3>2. PARENT(j) \in 1 .. l
      BY <1>1, <1>10, <3>1
    <3>3. Due(H.heap[PARENT(j)]) <= Due(H.heap[j])
      BY <1>8, <3>1 DEF Sorted
    <3> HIDE DEF d
    <3> QED BY <1>1, <1>5, <2>1, <3>1, <3>2, <3>3
  <2> QED BY <1>10, <2>2 DEF InOrder
<1>12. Done(G, P, n, n, {e}, node)
  <2> DEFINE X == {e}
  <2>1. X \in SUBSET Events /\ node.ev \in X /\ Filled(G, n, n, X)
    BY <1>2, <1>9
  <2>2. \A j \in 2 .. n : PARENT(j) = n => Due(node) <= Due(G.heap[j])
    BY <1>10
  <2>3. r = tmevt_up(G, n, node.time)
    OBVIOUS
  <2> HIDE DEF n, X, r
  <2>4. Done(G, Place(r.h, r.at, node), n, n, X, node)
    BY <1>2, <1>7, <1>11, <2>1, <2>2, <2>3, UpDone
  <2> QED BY <2>4 DEF X
<1>13. P \in Heap(n) /\ Filled(P, n, 0, {}) /\ Sorted(P, n)
  BY <1>2, <1>12 DEF Done
<1>14. P.heap \in Seq(Nodes) /\ Len(P.heap) = n
  BY <1>7, <1>13, HeapIsSeq
<1>15. Fine(P)
  BY <1>7, <1>13, <1>14 DEF Fine
<1>16. P.index[e] # 0 /\ Node(P, e) = node /\ Kept(G, P, Events \ {e})
  BY <1>2, <1>12 DEF Done
<1>17. Kept(H, P, Events \ {e})
  <2>1. ASSUME NEW x \in Events \ {e}, H.index[x] # 0
        PROVE  Node(G, x) = Node(H, x)
    <3>1. H.index[x] \in 1 .. l
      BY <1>8, <2>1 DEF Filled
    <3> QED BY <1>4, <1>5, <3>1 DEF Node
  <2> QED BY <1>4, <1>16, <2>1 DEF Kept
<1>18. Inserted(H, P, e, time)
  BY <1>15, <1>16, <1>17 DEF Inserted, node
<1> QED BY <1>6, <1>18

LEMMA KeptTwice ==
  ASSUME NEW H, NEW K, NEW P, NEW E, Kept(H, K, E), Kept(K, P, E)
  PROVE  Kept(H, P, E)
BY DEF Kept

(* The end of the heap has been moved: it is cut off.                      *)
Cut(P, n, e) == Unset([P EXCEPT !.heap = SubSeq(@, 1, n)], e)

LEMMA CutOK ==
  ASSUME NEW n \in Nat, NEW P \in Heap(n + 1), NEW e \in Events,
         Filled(P, n, 0, {e}), Sorted(P, n)
  PROVE  Deleted(P, Cut(P, n, e), e)
<1> DEFINE Q == Cut(P, n, e)
           a == SubSeq(P.heap, 1, n)
           b == [P.index EXCEPT ![e] = 0]
<1>1. P.heap \in [1 .. n + 1 -> Nodes] /\ P.index \in [Events -> Nat]
  BY DEF Heap
<1>2. P.heap \in Seq(Nodes) /\ Len(P.heap) = n + 1
  BY HeapIsSeq
<1>3. /\ a \in Seq(Nodes) /\ Len(a) = n
      /\ \A j \in 1 .. n : a[j] = P.heap[j]
  BY <1>2
<1>4. b \in [Events -> Nat] /\ b[e] = 0 /\ \A x \in Events \ {e} : b[x] = P.index[x]
  BY <1>1
<1>5. Q.heap = a /\ Q.index = b /\ Q \in [heap : Seq(Nodes), index : [Events -> Nat]]
  <2>1. P \in [heap : [1 .. n + 1 -> Nodes], index : [Events -> Nat]]
    BY DEF Heap
  <2> DEFINE R == [P EXCEPT !.heap = a]
  <2> HIDE DEF a
  <2>2. R.heap = a /\ R.index = P.index /\ R \in [heap : Seq(Nodes), index : [Events -> Nat]]
    BY <1>3, <2>1
  <2>3. Q = [R EXCEPT !.index[e] = 0]
    BY DEF Cut, Unset, a
  <2> HIDE DEF R, Q
  <2> QED BY <1>4, <2>2, <2>3
<1> HIDE DEF Q, a, b
<1>6. Len(Q.heap) = n /\ Q.heap \in [1 .. n -> Nodes]
  <2>1. a \in [1 .. Len(a) -> Nodes]
    BY <1>3
  <2> QED BY <1>3, <1>5, <2>1
<1>7. Q \in Heap(n)
  BY <1>5, <1>6 DEF Heap
<1>8. ASSUME NEW x \in Events \ {e}, P.index[x] # 0
      PROVE  P.index[x] \in 1 .. n /\ P.heap[P.index[x]].ev = x
  BY <1>8 DEF Filled
<1>9. Filled(Q, n, 0, {})
  <2>1. ASSUME NEW j \in (1 .. n) \ {0}
        PROVE  Q.index[Q.heap[j].ev] = j
    <3>1. Q.heap[j] = P.heap[j] /\ P.index[P.heap[j].ev] = j /\ P.heap[j].ev # e
      BY <1>3, <1>5, <2>1 DEF Filled
    <3>2. P.heap[j].ev \in Events
      BY <1>1, <2>1 DEF Nodes
    <3> QED BY <1>4, <1>5, <3>1, <3>2
  <2>2. ASSUME NEW x \in Events, Q.index[x] # 0
        PROVE  Q.index[x] \in (1 .. n) \ {0} /\ Q.heap[Q.index[x]].ev = x
    BY <1>3, <1>4, <1>5, <1>8, <2>2
  <2> QED BY <2>1, <2>2 DEF Filled
<1>10. Sorted(Q, n)
  <2>1. \A j \in 2 .. n : j \in 1 .. n /\ PARENT(j) \in 1 .. n
    BY ParentIs
  <2> QED BY <1>3, <1>5, <2>1 DEF Sorted
<1>11. Fine(Q)
  BY <1>3, <1>5, <1>6, <1>7, <1>9, <1>10 DEF Fine
<1>12. Kept(P, Q, Events \ {e})
  BY <1>3, <1>4, <1>5, <1>8 DEF Kept, Node
<1>13. Deleted(P, Q, e)
  BY <1>4, <1>5, <1>11, <1>12 DEF Deleted
<1> QED BY <1>13 DEF Q

LEMMA CutDeletes ==
  ASSUME NEW n \in Nat, NEW H, NEW P \in Heap(n + 1), NEW e \in Events,
         Filled(P, n, 0, {e}), Sorted(P, n), Kept(H, P, Events \ {e})
  PROVE  Deleted(H, Cut(P, n, e), e)
<1>1. Deleted(P, Cut(P, n, e), e)
  BY CutOK
<1> QED BY <1>1, KeptTwice DEF Deleted

(* The last node has found its place in the gap that e has left.           *)
LEMMA DoneDeletes ==
  ASSUME NEW n \in Nat \ {0}, NEW H, Fine(H), Len(H.heap) = n + 1,
         NEW e \in Events, NEW node, node = H.heap[n + 1], node.ev # e,
         NEW G, NEW P, NEW X, X = {e, node.ev},
         Kept(H, G, Events \ X), Done(G, P, n + 1, n, X, node)
  PROVE  Deleted(H, Cut(P, n, e), e)
<1>1. H \in Heap(n + 1) /\ Filled(H, n + 1, 0, {})
  BY DEF Fine
<1>2. node.ev \in Events /\ H.index[node.ev] = n + 1
  BY <1>1 DEF Heap, Nodes, Filled
<1>3. /\ P \in Heap(n + 1) /\ Filled(P, n, 0, {e}) /\ Sorted(P, n)
      /\ P.index[node.ev] \in 1 .. n /\ Node(P, node.ev) = node
      /\ Kept(G, P, Events \ X)
  <2>1. X \ {node.ev} = {e}
    OBVIOUS
  <2> QED BY <2>1 DEF Done
<1>4. Kept(H, P, Events \ X)
  BY <1>3, KeptTwice
<1>5. Kept(H, P, Events \ {e})
  <2>1. Node(H, node.ev) = node
    BY <1>2 DEF Node
  <2>2. P.index[node.ev] # 0 /\ H.index[node.ev] # 0
    BY <1>2, <1>3
  <2> QED BY <1>3, <1>4, <2>1, <2>2 DEF Kept
<1> QED BY <1>3, <1>5, CutDeletes

(* The gap that e leaves among the nodes but the last one.                 *)
Gap(H, n, i, X) ==
  /\ H \in Heap(n + 1) /\ X \in SUBSET Events
  /\ Filled(H, n, i, X) /\ InOrder(Dues(H, n), n, i)

LEMMA GapLeft ==
  ASSUME NEW n \in Nat \ {0}, NEW H, Fine(H), Len(H.heap) = n + 1,
         NEW e \in Events, NEW i \in 1 .. n, H.index[e] = i,
         NEW node, node = H.heap[n + 1], NEW X, X = {e, node.ev},
         min_time \in Int
  PROVE  Gap(H, n, i, X) /\ node \in Nodes /\ node.ev # e
<1>1. H \in Heap(n + 1) /\ Filled(H, n + 1, 0, {}) /\ Sorted(H, n + 1)
  BY DEF Fine
<1>2. node \in Nodes /\ node.ev \in Events /\ H.index[node.ev] = n + 1
  BY <1>1 DEF Heap, Nodes, Filled
<1>3. node.ev # e /\ X \in SUBSET Events
  BY <1>2
<1>4. \A j \in 1 .. n + 1 : H.index[H.heap[j].ev] = j
  BY <1>1 DEF Filled
<1>5. \A x \in Events : H.index[x] # 0 => /\ H.index[x] \in 1 .. n + 1
                                          /\ H.heap[H.index[x]].ev = x
  BY <1>1 DEF Filled
<1>6. Filled(H, n, i, X)
  <2>1. ASSUME NEW j \in (1 .. n) \ {i}
        PROVE  H.index[H.heap[j].ev] = j /\ H.heap[j].ev \notin X
    BY <1>2, <1>4, <2>1
  <2>2. ASSUME NEW x \in Events \ X, H.index[x] # 0
        PROVE  H.index[x] \in (1 .. n) \ {i} /\ H.heap[H.index[x]].ev = x
    <3>1. H.index[x] # i /\ H.index[x] # n + 1
      BY <1>5, <2>2
    <3> QED BY <1>5, <2>2, <3>1
  <2> QED BY <2>1, <2>2 DEF Filled
<1>7. \A j \in 2 .. n : j \in 1 .. n /\ PARENT(j) \in 1 .. n
  BY ParentIs
<1>8. InOrder(Dues(H, n), n, i)
  <2> DEFINE d == Dues(H, n)
  <2>1. d \in [1 .. n -> Int] /\ \A j \in 1 .. n : d[j] = Due(H.heap[j])
    <3>1. n \in 0 .. n + 1 /\ n + 1 \in Nat
      OBVIOUS
    <3> QED BY <1>1, <3>1, DuesType
  <2> HIDE DEF d
  <2>2. \A j \in 2 .. n : d[PARENT(j)] <= d[j]
    <3>1. \A j \in 2 .. n : Due(H.heap[PARENT(j)]) <= Due(H.heap[j])
      BY <1>1 DEF Sorted
    <3> QED BY <1>7, <2>1, <3>1
  <2>3. ASSUME NEW j \in 2 .. n, PARENT(j) = i, i > 1
        PROVE  d[PARENT(i)] <= d[j]
    <3>1. i \in 2 .. n
      BY <2>3
    <3>2. d[PARENT(i)] <= d[i] /\ d[i] <= d[j] /\ PARENT(i) \in 1 .. n /\ j \in 1 .. n
      BY <1>7, <2>2, <2>3, <3>1
    <3> QED BY <2>1, <3>2
  <2>4. InOrder(d, n, i)
    BY <2>2, <2>3 DEF InOrder
  <2> QED BY <2>4 DEF d
<1> QED BY <1>1, <1>2, <1>3, <1>6, <1>8 DEF Gap

(* The parent of the gap has been moved into it: the gap is its place.     *)
LEMMA GapGoesUp ==
  ASSUME NEW n \in Nat \ {0}, NEW H \in Heap(n + 1), NEW i \in 2 .. n,
         NEW X \in SUBSET Events, Filled(H, n, i, X),
         InOrder(Dues(H, n), n, i), Sorted(H, n), min_time \in Int,
         NEW node \in Nodes, Due(node) < Due(H.heap[PARENT(i)]),
         NEW G, G = Place(H, i, H.heap[PARENT(i)])
  PROVE  /\ G \in Heap(n + 1) /\ PARENT(i) \in 1 .. n
         /\ Filled(G, n, PARENT(i), X)
         /\ InOrder(Dues(G, n), n, PARENT(i))
         /\ \A j \in 2 .. n : PARENT(j) = PARENT(i) => Due(node) <= Due(G.heap[j])
         /\ Kept(H, G, Events \ X)
<1> DEFINE k == PARENT(i)
           moved == H.heap[k]
<1>1. \A j \in 2 .. n : j \in 1 .. n /\ PARENT(j) \in 1 .. n /\ PARENT(j) < j
  BY ParentIs
<1>2. k \in 1 .. n /\ k < i /\ i \in 1 .. n + 1 /\ moved \in Nodes
  BY <1>1 DEF Heap
<1> HIDE DEF k, moved
<1>3. /\ G \in Heap(n + 1)
      /\ G.heap = [H.heap EXCEPT ![i] = moved]
      /\ G.index = [H.index EXCEPT ![moved.ev] = i]
  <2>1. n + 1 \in Nat /\ G = Place(H, i, moved)
    BY DEF moved, k
  <2> QED BY <1>2, <2>1, PlaceIs
<1>4. /\ \A j \in 1 .. n : G.heap[j] = IF j = i THEN moved ELSE H.heap[j]
      /\ \A x \in Events : G.index[x] = IF x = moved.ev THEN i ELSE H.index[x]
  BY <1>2, <1>3 DEF Heap
<1>5. /\ \A j \in (1 .. n) \ {i} : H.index[H.heap[j].ev] = j
                                   /\ H.heap[j].ev \in Events \ X
      /\ \A x \in Events \ X : H.index[x] # 0 => /\ H.index[x] \in (1 .. n) \ {i}
                                                 /\ H.heap[H.index[x]].ev = x
  <2>1. \A j \in (1 .. n) \ {i} : H.heap[j].ev \in Events
    BY DEF Heap, Nodes
  <2> QED BY <2>1 DEF Filled
<1>6. H.index[moved.ev] = k /\ moved.ev \in Events \ X
  BY <1>2, <1>5 DEF moved
<1>7. Filled(G, n, k, X)
  <2>1. ASSUME NEW j \in (1 .. n) \ {k}
        PROVE  G.index[G.heap[j].ev] = j /\ G.heap[j].ev \notin X
    <3>1. CASE j = i
      BY <1>4, <1>6, <3>1
    <3>2. CASE j # i
      <4>1. /\ G.heap[j] = H.heap[j] /\ H.index[H.heap[j].ev] = j
            /\ H.heap[j].ev \in Events \ X
        BY <1>4, <1>5, <2>1, <3>2
      <4> QED BY <1>4, <1>6, <2>1, <4>1
    <3> QED BY <3>1, <3>2
  <2>2. ASSUME NEW x \in Events \ X, G.index[x] # 0
        PROVE  G.index[x] \in (1 .. n) \ {k} /\ G.heap[G.index[x]].ev = x
    <3>1. CASE x = moved.ev
      BY <1>2, <1>4, <3>1
    <3>2. CASE x # moved.ev
      <4>1. G.index[x] = H.index[x]
        BY <1>4, <3>2
      <4>2. H.index[x] \in (1 .. n) \ {i} /\ H.heap[H.index[x]].ev = x
        BY <1>5, <2>2, <4>1
      <4>3. H.index[x] # k
        BY <3>2, <4>2 DEF moved
      <4> QED BY <1>4, <4>1, <4>2, <4>3
    <3> QED BY <3>1, <3>2
  <2> QED BY <2>1, <2>2 DEF Filled
<1> DEFINE d == Dues(H, n)
           p == Dues(G, n)
<1>8. /\ d \in [1 .. n -> Int] /\ \A j \in 1 .. n : d[j] = Due(H.heap[j])
      /\ p \in [1 .. n -> Int] /\ \A j \in 1 .. n : p[j] = Due(G.heap[j])
  <2> DEFINE L == n + 1
  <2>1. L \in Nat /\ n \in 0 .. L /\ H \in Heap(L) /\ G \in Heap(L)
    BY <1>3
  <2> HIDE DEF L
  <2>2. d \in [1 .. n -> Int] /\ \A j \in 1 .. n : d[j] = Due(H.heap[j])
    BY <2>1, DuesType
  <2>3. p \in [1 .. n -> Int] /\ \A j \in 1 .. n : p[j] = Due(G.heap[j])
    BY <2>1, DuesType
  <2> QED BY <2>2, <2>3
<1>9. /\ \A j \in 2 .. n : d[PARENT(j)] <= d[j]
      /\ InOrder(d, n, i)
  BY <1>1, <1>8 DEF Sorted
<1> HIDE DEF d, p
<1>10. \A j \in 1 .. n : p[j] = IF j = i THEN d[k] ELSE d[j]
  BY <1>2, <1>4, <1>8 DEF moved
<1>11. PARENT(i) = k
  BY DEF k
<1>12. InOrder(p, n, k)
  <2>1. ASSUME NEW j \in 2 .. n, j # k, PARENT(j) # k
        PROVE  p[PARENT(j)] <= p[j]
    <3>1. j # i /\ j \in 1 .. n /\ PARENT(j) \in 1 .. n
      BY <1>1, <1>11, <2>1
    <3>2. CASE PARENT(j) = i
      <4>1. d[k] <= d[j]
        BY <1>9, <1>11, <3>2 DEF InOrder
      <4> QED BY <1>10, <3>1, <3>2, <4>1
    <3>3. CASE PARENT(j) # i
      BY <1>9, <1>10, <3>1, <3>3
    <3> QED BY <3>2, <3>3
  <2>2. ASSUME NEW j \in 2 .. n, PARENT(j) = k, k > 1
        PROVE  p[PARENT(k)] <= p[j]
    <3>1. k \in 2 .. n
      BY <1>2, <2>2
    <3>2. PARENT(k) \in 1 .. n /\ PARENT(k) < k /\ d[PARENT(k)] <= d[k] /\ j \in 1 .. n
      BY <1>1, <1>9, <3>1
    <3>3. p[PARENT(k)] = d[PARENT(k)]
      BY <1>2, <1>10, <3>2
    <3>4. d[k] <= p[j]
      <4>1. d[k] <= d[j] /\ d[k] \in Int
        BY <1>2, <1>8, <1>9, <2>2
      <4>2. p[j] = d[k] \/ p[j] = d[j]
        BY <1>10, <3>2
      <4> QED BY <4>1, <4>2
    <3> QED BY <1>2, <1>8, <3>2, <3>3, <3>4
  <2> QED BY <2>1, <2>2 DEF InOrder
<1>13. ASSUME NEW j \in 2 .. n, PARENT(j) = k
       PROVE  Due(node) <= Due(G.heap[j])
  <2>1. Due(node) < d[k] /\ Due(node) \in Int
    BY <1>2, <1>8, DueType DEF k
  <2>2. j \in 1 .. n /\ d[k] <= d[j] /\ d[k] <= d[k]
    BY <1>1, <1>2, <1>8, <1>9, <1>13
  <2>3. d[k] <= p[j] /\ p[j] = Due(G.heap[j])
    BY <1>8, <1>10, <2>2
  <2> QED BY <1>2, <1>8, <2>1, <2>2, <2>3
<1>14. Kept(H, G, Events \ X)
  <2>1. ASSUME NEW x \in Events \ X
        PROVE  /\ G.index[x] = 0 <=> H.index[x] = 0
               /\ H.index[x] # 0 => Node(G, x) = Node(H, x)
    <3>1. CASE x = moved.ev
      BY <1>2, <1>4, <1>6, <3>1 DEF Node, moved
    <3>2. CASE x # moved.ev
      <4>1. G.index[x] = H.index[x]
        BY <1>4, <3>2
      <4>2. H.index[x] # 0 => H.index[x] \in (1 .. n) \ {i}
        BY <1>5
      <4> QED BY <1>4, <4>1, <4>2 DEF Node
    <3> QED BY <3>1, <3>2
  <2> QED BY <2>1 DEF Kept
<1> QED BY <1>2, <1>3, <1>7, <1>11, <1>12, <1>13, <1>14 DEF p

LEMMA DeleteOK ==
  ASSUME NEW H, Fine(H), min_time \in Int,
         NEW e \in Events, H.index[e] # 0
  PROVE  Deleted(H, tmevtb_delete(H, e), e)
<1> DEFINE last == Len(H.heap)
           n == last - 1
           end == H.heap[last]
           i == H.index[e]
           k == PARENT(i)
           G == Place(H, i, H.heap[k])
           up == i > 1 /\ EVTTIM_LT(end.time, H.heap[k].time)
           r == IF up THEN tmevt_up(G, k, end.time)
                ELSE tmevt_down(H, i, end.time, last - 1)
           P == Place(r.h, r.at, end)
           D == tmevtb_delete(H, e)
           X == {e, end.ev}
<1>1. /\ last \in Nat /\ H \in Heap(last) /\ H.heap \in Seq(Nodes)
      /\ Filled(H, last, 0, {}) /\ Sorted(H, last)
  BY DEF Fine
<1>2. i \in 1 .. last /\ H.heap[i].ev = e
  BY <1>1 DEF Filled
<1>3. last \in Nat \ {0} /\ n \in Nat /\ n + 1 = last /\ end \in Nodes
      /\ i \in Nat \ {0}
  <2>1. last \in Nat \ {0}
    BY <1>1, <1>2
  <2>2. last \in 1 .. last
    BY <2>1
  <2>3. end \in Nodes
    BY <1>1, <2>2 DEF Heap
  <2> QED BY <1>2, <2>1, <2>3
<1>4. /\ last = 1 => D = Unset([H EXCEPT !.heap = <<>>], e)
      /\ last # 1 => D = Cut(P, n, e)
  <2>1. Cut(P, n, e) = Unset(Fill(H, r, end), e)
    BY DEF Cut, Fill
  <2>2. D = Unset(IF last = 1 THEN [H EXCEPT !.heap = <<>>] ELSE Fill(H, r, end), e)
    BY DEF tmevtb_delete
  <2> HIDE DEF D, P, r, last
  <2> QED BY <2>1, <2>2
<1>5. CASE last = 1
  <2>1. SubSeq(H.heap, 1, 0) = <<>>
    BY <1>1
  <2>2. D = Cut(H, 0, e)
    <3> HIDE DEF D
    <3> QED BY <1>4, <1>5, <2>1 DEF Cut
  <2>3. Filled(H, 0, 0, {e})
    <3>1. \A x \in Events \ {e} : H.index[x] = 0
      <4>1. ASSUME NEW x \in Events \ {e}, H.index[x] # 0 PROVE FALSE
        <5>1. H.index[x] \in 1 .. 1 /\ H.heap[H.index[x]].ev = x
          BY <1>1, <1>5, <4>1 DEF Filled
        <5> QED BY <1>2, <1>5, <5>1
      <4> QED BY <4>1
    <3> QED BY <3>1 DEF Filled
  <2>4. Sorted(H, 0) /\ Kept(H, H, Events \ {e})
    BY DEF Sorted, Kept
  <2>5. H \in Heap(0 + 1)
    BY <1>1, <1>5
  <2>6. Deleted(H, Cut(H, 0, e), e)
    <3> DEFINE z == 0
    <3>1. z \in Nat /\ H \in Heap(z + 1) /\ Filled(H, z, 0, {e}) /\ Sorted(H, z)
      BY <2>3, <2>4, <2>5
    <3> HIDE DEF z
    <3>2. Deleted(H, Cut(H, z, e), e)
      BY <2>4, <3>1, CutDeletes
    <3> QED BY <3>2 DEF z
  <2> QED BY <2>2, <2>6
<1>6. CASE last # 1 /\ i = last
  <2>1. /\ e = end.ev
        /\ ~ up
    <3>1. e = end.ev
      BY <1>2, <1>6
    <3>2. i \in 2 .. last
      <4> HIDE DEF i, last, n, end
      <4>1. last >= 2 /\ i \in Nat
        BY <1>3, <1>6
      <4> QED BY <1>1, <1>6, <4>1
    <3>3. Due(H.heap[k]) <= Due(end)
      <4>1. Due(H.heap[PARENT(i)]) <= Due(H.heap[i])
        <5> HIDE DEF i, last
        <5> QED BY <1>1, <3>2 DEF Sorted
      <4> QED BY <1>6, <4>1
    <3>4. k \in 1 .. last
      <4>1. PARENT(i) \in 1 .. i - 1
        <5> HIDE DEF i, last
        <5> QED BY <1>1, <3>2, ParentIs
      <4> QED BY <1>3, <1>6, <4>1
    <3>5. H.heap[k] \in Nodes
      BY <1>1, <3>4 DEF Heap
    <3>6. Due(H.heap[k]) \in Int /\ Due(end) \in Int
      BY <1>3, <3>5, DueType
    <3>7. EVTTIM_LT(end.time, H.heap[k].time) <=> Due(end) < Due(H.heap[k])
      BY DEF EVTTIM_LT, Due
    <3> QED BY <3>1, <3>3, <3>6, <3>7
  <2>2. r = [at |-> i, h |-> H]
    <3>1. LCHILD(i) > n
      BY <1>2, <1>3, <1>6, ChildIs
    <3>2. tmevt_down(H, i, end.time, n) = [at |-> i, h |-> H]
      <4> HIDE DEF n, i, end
      <4> QED BY <1>3, <3>1, DownUnfold DEF DownStops
    <3> QED BY <2>1, <3>2
  <2>3. P = Place(H, last, end)
    <3> HIDE DEF r
    <3> QED BY <1>6, <2>2
  <2>4. P.heap = [H.heap EXCEPT ![last] = end] /\ P \in Heap(last)
        /\ P.index = [H.index EXCEPT ![end.ev] = last]
    <3>1. last \in Nat /\ last \in 1 .. last
      BY <1>3
    <3> HIDE DEF P, end, last
    <3> QED BY <1>1, <1>3, <2>3, <3>1, PlaceIs
  <2> HIDE DEF P
  <2>5. P.heap = H.heap /\ P.index = H.index
    <3>1. H.heap \in [1 .. last -> Nodes] /\ H.index \in [Events -> Nat]
      BY <1>1 DEF Heap
    <3>2. [H.heap EXCEPT ![last] = H.heap[last]] = H.heap
      BY <3>1
    <3>3. [H.index EXCEPT ![e] = H.index[e]] = H.index
      BY <3>1
    <3> QED BY <1>6, <2>1, <2>4, <3>2, <3>3
  <2>6. Filled(P, n, 0, {e})
    <3>1. ASSUME NEW j \in (1 .. n) \ {0}
          PROVE  P.index[P.heap[j].ev] = j /\ P.heap[j].ev \notin {e}
      <4>1. j \in (1 .. last) \ {0} /\ j # last
        BY <1>3, <3>1
      <4>2. H.index[H.heap[j].ev] = j
        BY <1>1, <4>1 DEF Filled
      <4> QED BY <1>6, <2>5, <4>1, <4>2
    <3>2. ASSUME NEW x \in Events \ {e}, P.index[x] # 0
          PROVE  P.index[x] \in (1 .. n) \ {0} /\ P.heap[P.index[x]].ev = x
      <4>1. H.index[x] \in (1 .. last) \ {0} /\ H.heap[H.index[x]].ev = x
        BY <1>1, <2>5, <3>2 DEF Filled
      <4>2. H.index[x] # last
        BY <1>2, <1>6, <3>2, <4>1
      <4> QED BY <1>3, <2>5, <4>1, <4>2
    <3> HIDE DEF n
    <3> QED BY <3>1, <3>2 DEF Filled
  <2>7. Sorted(P, n)
    <3>1. \A j \in 2 .. n : j \in 2 .. last
      BY <1>3
    <3> QED BY <1>1, <2>5, <3>1 DEF Sorted
  <2>8. Kept(H, P, Events \ {e})
    BY <2>5 DEF Kept, Node
  <2>9. Deleted(H, Cut(P, n, e), e)
    <3>1. P \in Heap(n + 1)
      BY <1>3, <2>4
    <3> HIDE DEF n
    <3> QED BY <1>3, <2>6, <2>7, <2>8, <3>1, CutDeletes
  <2> QED BY <1>4, <1>6, <2>9
<1>7. CASE last # 1 /\ i # last
  <2>1. n \in Nat \ {0} /\ i \in 1 .. n /\ Len(H.heap) = n + 1
        /\ end = H.heap[n + 1]
    BY <1>2, <1>3, <1>7
  <2> DEFINE m == n
             node == end
             Y == X
  <2>2. /\ m \in Nat \ {0} /\ i \in 1 .. m /\ Len(H.heap) = m + 1
        /\ node = H.heap[m + 1] /\ Y = {e, node.ev} /\ H.index[e] = i
    BY <2>1
  <2> HIDE DEF m, node, Y, i
  <2>3. /\ node \in Nodes /\ node.ev # e /\ Y \in SUBSET Events
        /\ H \in Heap(m + 1)
        /\ Filled(H, m, i, Y) /\ InOrder(Dues(H, m), m, i)
    <3>1. Gap(H, m, i, Y) /\ node \in Nodes /\ node.ev # e
      BY <2>2, GapLeft
    <3> QED BY <3>1 DEF Gap
  <2>4. m + 1 \in Nat /\ m \in 1 .. m + 1 /\ node.ev \in Y
    BY <2>2
  <2>5. Sorted(H, m)
    <3>1. \A j \in 2 .. m : j \in 2 .. last
      BY <1>3 DEF m
    <3> QED BY <1>1, <3>1 DEF Sorted
  <2>6. up <=> i > 1 /\ Due(node) < Due(H.heap[k])
    BY DEF EVTTIM_LT, Due, node
  <2>7. i > 1 => /\ k \in 1 .. m /\ i \in 2 .. m
                 /\ Due(H.heap[k]) \in Int /\ Due(node) \in Int
    <3>1. SUFFICES ASSUME i > 1
                   PROVE  /\ k \in 1 .. m /\ i \in 2 .. m
                          /\ Due(H.heap[k]) \in Int /\ Due(node) \in Int
      OBVIOUS
    <3>2. i \in 2 .. m /\ i \in Nat /\ i >= 2
      BY <2>2, <3>1
    <3>3. k \in 1 .. m
      <4>1. PARENT(i) \in 1 .. i - 1
        BY <3>2, ParentIs
      <4> QED BY <2>2, <3>2, <4>1
    <3>4. H.heap[k] \in Nodes
      <4>1. k \in 1 .. m + 1
        BY <2>2, <3>3
      <4> HIDE DEF k
      <4> QED BY <2>3, <4>1 DEF Heap
    <3>5. Due(H.heap[k]) \in Int
      <4> HIDE DEF k
      <4> QED BY <3>4, DueType
    <3>6. Due(node) \in Int
      BY <2>3, DueType
    <3> QED BY <3>2, <3>3, <3>5, <3>6
  <2>8. \E Q : Done(Q, P, m + 1, m, Y, node) /\ Kept(H, Q, Events \ Y)
    <3>1. CASE up
      <4>1. r = tmevt_up(G, k, node.time) /\ P = Place(r.h, r.at, node)
        BY <3>1 DEF node
      <4>2. i \in 2 .. m /\ Due(node) < Due(H.heap[PARENT(i)])
            /\ G = Place(H, i, H.heap[PARENT(i)])
        BY <2>6, <2>7, <3>1
      <4> HIDE DEF G, r, P
      <4>3. /\ G \in Heap(m + 1) /\ PARENT(i) \in 1 .. m
            /\ Filled(G, m, PARENT(i), Y)
            /\ InOrder(Dues(G, m), m, PARENT(i))
            /\ \A j \in 2 .. m : PARENT(j) = PARENT(i) => Due(node) <= Due(G.heap[j])
            /\ Kept(H, G, Events \ Y)
        BY <2>2, <2>3, <2>5, <4>2, GapGoesUp
      <4> HIDE DEF k
      <4>4. Done(G, Place(r.h, r.at, node), m + 1, m, Y, node)
        <5> DEFINE L == m + 1
        <5>1. L \in Nat /\ m \in 1 .. L /\ G \in Heap(L)
          BY <2>4, <4>3
        <5> HIDE DEF L
        <5>2. k = PARENT(i)
          BY DEF k
        <5>3. Done(G, Place(r.h, r.at, node), L, m, Y, node)
          BY <2>3, <2>4, <4>1, <4>3, <5>1, <5>2, UpDone
        <5> QED BY <5>3 DEF L
      <4> QED BY <4>1, <4>3, <4>4
    <3>2. CASE ~ up
      <4>1. r = tmevt_down(H, i, node.time, m) /\ P = Place(r.h, r.at, node)
        BY <3>2 DEF node, m
      <4>2. i = 1 \/ Due(H.heap[PARENT(i)]) <= Due(node)
        BY <2>2, <2>6, <2>7, <3>2
      <4> HIDE DEF r, P
      <4>3. Done(H, Place(r.h, r.at, node), m + 1, m, Y, node)
        <5> DEFINE L == m + 1
        <5>1. L \in Nat /\ m \in 1 .. L /\ H \in Heap(L)
          BY <2>3, <2>4
        <5> HIDE DEF L
        <5>2. Done(H, Place(r.h, r.at, node), L, m, Y, node)
          BY <2>2, <2>3, <2>4, <4>1, <4>2, <5>1, DownDone
        <5> QED BY <5>2 DEF L
      <4>4. Kept(H, H, Events \ Y)
        BY DEF Kept
      <4> QED BY <4>1, <4>3, <4>4
    <3> QED BY <3>1, <3>2
  <2>9. Deleted(H, Cut(P, m, e), e)
    <3> HIDE DEF P
    <3> QED BY <2>2, <2>3, <2>8, DoneDeletes
  <2> QED BY <1>4, <1>7, <2>9 DEF m
<1> QED BY <1>5, <1>6, <1>7

(* The first node is the earliest one.                                     *)
LEMMA TopEarliest ==
  ASSUME NEW H, Fine(H), min_time \in Int, NEW j \in 1 .. Len(H.heap)
  PROVE  Due(H.heap[1]) <= Due(H.heap[j])
<1> DEFINE L == Len(H.heap)
           d(l) == Due(H.heap[l])
           A == {m \in Nat : \A l \in 1 .. L : l <= m => d(1) <= d(l)}
<1>1. L \in Nat /\ H \in Heap(L) /\ Sorted(H, L) /\ j \in 1 .. L
  BY DEF Fine
<1> HIDE DEF L
<1>2. \A l \in 1 .. L : d(l) \in Int
  <2>1. \A l \in 1 .. L : H.heap[l] \in Nodes
    BY <1>1 DEF Heap
  <2> QED BY <2>1, DueType
<1>3. \A l \in 2 .. L : d(PARENT(l)) <= d(l) /\ PARENT(l) \in 1 .. l - 1
  BY <1>1, ParentIs DEF Sorted
<1> HIDE DEF d
<1>4. 0 \in A
  OBVIOUS
<1>5. ASSUME NEW m \in Nat, m \in A PROVE m + 1 \in A
  <2> SUFFICES ASSUME NEW l \in 1 .. L, l <= m + 1 PROVE d(1) <= d(l)
    OBVIOUS
  <2>1. CASE l = 1
    BY <1>1, <1>2, <2>1
  <2>2. CASE l # 1
    <3>1. PARENT(l) \in 1 .. L /\ PARENT(l) <= m /\ d(PARENT(l)) <= d(l)
      BY <1>1, <1>3, <2>2
    <3>2. d(1) <= d(PARENT(l)) /\ 1 \in 1 .. L
      BY <1>1, <1>5, <3>1
    <3> QED BY <1>2, <3>1, <3>2
  <2> QED BY <2>1, <2>2
<1>6. Nat \subseteq A
  <2> HIDE DEF A
  <2> QED BY <1>4, <1>5, SetInduction
<1>7. L \in A
  BY <1>1, <1>6
<1>8. d(1) <= d(j)
  BY <1>1, <1>7
<1> QED BY <1>8 DEF d

(* tmevtb_delete_top deletes the event of the first node.                  *)
LEMMA DeleteTopOK ==
  ASSUME NEW H, Fine(H), min_time \in Int, H.heap # <<>>
  PROVE  /\ H.heap[1] \in Nodes /\ H.heap[1].ev \in Events
         /\ H.index[H.heap[1].ev] = 1
         /\ Deleted(H, tmevtb_delete_top(H), H.heap[1].ev)
<1> DEFINE e == H.heap[1].ev
<1>1. Len(H.heap) \in Nat \ {0} /\ H \in Heap(Len(H.heap)) /\ H.heap \in Seq(Nodes)
      /\ Filled(H, Len(H.heap), 0, {})
  BY DEF Fine
<1>2. 1 \in 1 .. Len(H.heap)
  BY <1>1
<1>3. H.heap[1] \in Nodes /\ e \in Events /\ H.index[e] = 1
  <2>1. H.heap[1] \in Nodes
    BY <1>1, <1>2
  <2> QED BY <1>1, <1>2, <2>1 DEF Filled, Nodes
<1>4. tmevtb_delete_top(H) = tmevtb_delete(H, e)
  BY <1>3 DEF tmevtb_delete_top, tmevtb_delete
<1> HIDE DEF e
<1>5. Deleted(H, tmevtb_delete(H, e), e)
  BY <1>3, DeleteOK
<1> QED BY <1>3, <1>4, <1>5 DEF e

-----------------------------------------------------------------------------
(* The clocks, seen from min_time.                                         *)

Tic == TIC_NUME \div TIC_DENO
Gone == Wrap(current_time - min_time)
Coming == Wrap(next_time - min_time)
Ahead == Coming - Gone
LastSub == (next_subtime - TIC_NUME) % TIC_DENO

ClockTypeOK ==
  /\ current_time \in Times /\ min_time \in Times /\ next_time \in Times
  /\ next_subtime \in 0 .. TIC_DENO - 1
  /\ ticking \in BOOLEAN

(* min_time is current_time, or in a tick at most one tick before it; the  *)
(* coming tick is TIC_NUME units after the last one.                       *)
ClockOK ==
  /\ Gone <= Tic + 1
  /\ ~ticking => current_time = min_time
  /\ Ahead \in {Tic, Tic + 1}
  /\ Ahead * TIC_DENO + next_subtime = TIC_NUME + LastSub

LEMMA TicType ==
  /\ Tic \in Nat /\ TIC_NUME \in Nat /\ TIC_DENO \in Nat \ {0}
  /\ TIC_NUME % TIC_DENO \in 0 .. TIC_DENO - 1
  /\ TIC_NUME = Tic * TIC_DENO + (TIC_NUME % TIC_DENO)
  /\ EVTTIM_MOD \in Nat \ {0} /\ TMAX_RELTIM \in Nat
  /\ EVTTIM_MOD > TMAX_RELTIM + 2 * (Tic + 1) + 1
<1>1. TIC_NUME \in Nat \ {0} /\ TIC_DENO \in Nat \ {0}
  BY TimeEventAssumption
<1> DEFINE d == TIC_NUME \div TIC_DENO
           r == TIC_NUME % TIC_DENO
<1>2. d \in Int /\ r \in 0 .. TIC_DENO - 1 /\ TIC_NUME = TIC_DENO * d + r
  BY <1>1
<1>3. d \in Nat
  <2>1. SUFFICES ASSUME d <= -1 PROVE FALSE
    BY <1>2
  <2> HIDE DEF d, r
  <2>2. TIC_DENO * d <= TIC_DENO * (-1)
    BY <1>1, <1>2, <2>1
  <2> QED BY <1>1, <1>2, <2>2
<1>4. EVTTIM_MOD \in Nat /\ TMAX_RELTIM \in Nat
      /\ EVTTIM_MOD > TMAX_RELTIM + 2 * (d + 1) + 1
  BY TimeEventAssumption
<1> HIDE DEF d, r
<1>5. TIC_NUME = d * TIC_DENO + r /\ EVTTIM_MOD # 0
  BY <1>1, <1>2, <1>3, <1>4
<1> QED BY <1>1, <1>2, <1>3, <1>4, <1>5 DEF Tic, d, r

LEMMA ClockType ==
  ASSUME ClockTypeOK
  PROVE  /\ Gone \in Times /\ Coming \in Times /\ LastSub \in 0 .. TIC_DENO - 1
         /\ Gone \in Int /\ Coming \in Int /\ Ahead \in Int /\ LastSub \in Int
         /\ current_time \in Int /\ min_time \in Int /\ next_time \in Int
         /\ next_subtime \in Int
<1>1. /\ current_time \in Int /\ min_time \in Int /\ next_time \in Int
      /\ next_subtime \in Int
  BY TicType DEF ClockTypeOK, Times
<1> DEFINE a == current_time - min_time
           b == next_time - min_time
           c == next_subtime - TIC_NUME
<1>2. a \in Int /\ b \in Int /\ c \in Int
  BY <1>1, TicType
<1> HIDE DEF a, b, c
<1>3. Wrap(a) \in Times /\ Wrap(b) \in Times
  BY <1>2, WrapEx
<1>4. c % TIC_DENO \in 0 .. TIC_DENO - 1
  BY <1>2, TicType, ModEx
<1>5. /\ Wrap(a) \in Int /\ Wrap(b) \in Int /\ Wrap(b) - Wrap(a) \in Int
      /\ c % TIC_DENO \in Int
  BY <1>3, <1>4, TicType DEF Times
<1> QED BY <1>1, <1>3, <1>4, <1>5 DEF Gone, Coming, Ahead, LastSub, a, b, c

LEMMA WrapZero ==
  Wrap(0) = 0 /\ 0 \in Times
<1>1. 0 \in Times
  BY TicType DEF Times
<1> QED BY <1>1, WrapSmall

LEMMA ClockInit ==
  ASSUME Init
  PROVE  ClockTypeOK /\ ClockOK
<1> DEFINE r == TIC_NUME % TIC_DENO
           x == r - TIC_NUME
           k == -Tic
<1>1. /\ current_time = 0 /\ min_time = 0 /\ ticking = FALSE
      /\ next_time = Tic /\ next_subtime = r
  BY DEF Init, Tic
<1>2. Tic \in Times /\ Tic \in Int
  BY TicType DEF Times
<1>3. ClockTypeOK
  BY <1>1, <1>2, WrapZero, TicType DEF ClockTypeOK
<1>4. Gone = 0 /\ Coming = Tic
  <2>1. current_time - min_time = 0 /\ next_time - min_time = Tic
    BY <1>1, <1>2
  <2> QED BY <1>2, <2>1, WrapZero, WrapSmall DEF Gone, Coming
<1>5. r \in 0 .. TIC_DENO - 1 /\ TIC_NUME = Tic * TIC_DENO + r
  BY TicType
<1> HIDE DEF r
<1>6. x \in Int /\ k \in Int /\ x - k * TIC_DENO = 0
  BY <1>2, <1>5, TicType
<1>7. x % TIC_DENO = 0
  <2> HIDE DEF x, k
  <2> QED BY <1>6, TicType, ModIs
<1>8. LastSub = 0
  BY <1>1, <1>7 DEF LastSub
<1>9. Ahead = Tic
  BY <1>2, <1>4 DEF Ahead
<1>10. ClockOK
  BY <1>1, <1>2, <1>4, <1>5, <1>8, <1>9, TicType DEF ClockOK
<1> QED BY <1>3, <1>10

(* Before its loop, signal_time moves the clocks by one tick.              *)
LEMMA ClockBegin ==
  ASSUME ClockTypeOK, ClockOK, signal_time_begin
  PROVE  /\ ClockTypeOK' /\ ClockOK'
         /\ min_time' = min_time /\ Gone = 0 /\ Gone' = Ahead
         /\ LastSub' = next_subtime
<1> DEFINE r == TIC_NUME % TIC_DENO
           sub == next_subtime + r
           a == IF sub >= TIC_DENO THEN Tic + 1 ELSE Tic
           new == IF sub >= TIC_DENO THEN sub - TIC_DENO ELSE sub
<1>1. /\ ~ticking /\ ticking' = TRUE /\ current_time' = next_time
      /\ next_subtime' = new /\ min_time' = min_time
      /\ next_time' = Wrap(IF sub >= TIC_DENO
                           THEN next_time + Tic + 1 ELSE next_time + Tic)
  BY DEF signal_time_begin, Tic
<1>2. next_subtime \in 0 .. TIC_DENO - 1 /\ next_subtime \in Int
      /\ next_time \in Int /\ min_time \in Int /\ next_time \in Times
      /\ min_time \in Times
  BY ClockType DEF ClockTypeOK
<1>3. r \in 0 .. TIC_DENO - 1 /\ TIC_NUME = Tic * TIC_DENO + r
      /\ Tic \in Nat /\ TIC_DENO \in Nat \ {0} /\ TIC_NUME \in Nat
  BY TicType
<1> HIDE DEF r
<1>4. /\ a \in {Tic, Tic + 1} /\ a \in Nat
      /\ new \in 0 .. TIC_DENO - 1 /\ new \in Int
      /\ a * TIC_DENO + new = TIC_NUME + next_subtime
  <2>1. CASE sub >= TIC_DENO
    <3>1. a = Tic + 1 /\ new = sub - TIC_DENO
      BY <2>1
    <3>2. (Tic + 1) * TIC_DENO = Tic * TIC_DENO + TIC_DENO
      BY <1>3
    <3>3. new \in 0 .. TIC_DENO - 1 /\ new \in Int
      BY <1>2, <1>3, <2>1, <3>1
    <3> QED BY <1>2, <1>3, <3>1, <3>2, <3>3
  <2>2. CASE ~(sub >= TIC_DENO)
    BY <1>2, <1>3, <2>2
  <2> QED BY <2>1, <2>2
<1>5. next_time' = Wrap(next_time + a)
  BY <1>1, <1>2, <1>3
<1> HIDE DEF a, new
<1>6. Gone = 0
  <2>1. current_time - min_time = 0
    BY <1>1, <1>2 DEF ClockOK
  <2> QED BY <2>1, WrapZero DEF Gone
<1>7. Coming = Ahead /\ Ahead \in {Tic, Tic + 1}
  BY <1>6, ClockType DEF Ahead, ClockOK
<1>8. Gone' = Ahead
  BY <1>1, <1>7 DEF Gone, Coming
<1>9. Coming' = Ahead + a
  <2>1. Wrap(next_time - min_time) + a \in Times
    BY <1>3, <1>4, <1>7, TicType DEF Coming, Times
  <2>2. next_time \in Int /\ min_time \in Int /\ a \in Int
    BY <1>2, <1>4
  <2>3. Wrap(Wrap(next_time + a) - min_time) = Wrap(next_time - min_time) + a
    BY <2>1, <2>2, WrapLater
  <2> QED BY <1>1, <1>5, <1>7, <2>3 DEF Coming
<1>10. Ahead' = a
  BY <1>3, <1>4, <1>7, <1>8, <1>9 DEF Ahead
<1>11. LastSub' = next_subtime
  <2> DEFINE x == new - TIC_NUME
             k == -a
  <2>1. x \in Int /\ k \in Int /\ x - k * TIC_DENO = next_subtime
    <3>1. k * TIC_DENO = -(a * TIC_DENO) /\ a * TIC_DENO \in Int
      BY <1>3, <1>4
    <3> QED BY <1>2, <1>3, <1>4, <3>1
  <2>2. x % TIC_DENO = next_subtime
    <3> HIDE DEF x, k
    <3> QED BY <1>2, <1>3, <2>1, ModIs
  <2> QED BY <1>1, <2>2 DEF LastSub
<1>12. ClockTypeOK'
  <2>1. next_time + a \in Int
    BY <1>2, <1>4
  <2>2. Wrap(next_time + a) \in Times
    BY <2>1, WrapEx
  <2> QED BY <1>1, <1>2, <1>4, <1>5, <2>2 DEF ClockTypeOK
<1>13. ClockOK'
  BY <1>1, <1>3, <1>4, <1>7, <1>8, <1>10, <1>11 DEF ClockOK
<1> QED BY <1>1, <1>6, <1>8, <1>11, <1>12, <1>13

(* After the loop, min_time catches up.                                    *)
LEMMA ClockEnd ==
  ASSUME ClockTypeOK, ClockOK, signal_time_end
  PROVE  /\ ClockTypeOK' /\ ClockOK'
         /\ min_time' = current_time /\ Gone' = 0 /\ LastSub' = LastSub
<1>1. /\ ticking' = FALSE /\ min_time' = current_time
      /\ current_time' = current_time /\ next_time' = next_time
      /\ next_subtime' = next_subtime
  BY DEF signal_time_end
<1>2. Gone' = 0
  <2>1. current_time - current_time = 0
    BY ClockType
  <2> QED BY <1>1, <2>1, WrapZero DEF Gone
<1>3. Ahead' = Ahead
  <2>1. Wrap(current_time - min_time) <= Wrap(next_time - min_time)
    BY ClockType, TicType DEF ClockOK, Ahead, Gone, Coming
  <2>2. Wrap(next_time - current_time)
          = Wrap(next_time - min_time) - Wrap(current_time - min_time)
    BY <2>1, ClockType, WrapNearer
  <2>3. Coming' = Ahead
    BY <1>1, <2>2 DEF Ahead, Coming, Gone
  <2> QED BY <1>2, <2>3, ClockType DEF Ahead
<1>4. LastSub' = LastSub
  BY <1>1 DEF LastSub
<1>5. ClockTypeOK'
  BY <1>1 DEF ClockTypeOK
<1>6. ClockOK'
  BY <1>1, <1>2, <1>3, <1>4, TicType DEF ClockOK
<1> QED BY <1>1, <1>2, <1>4, <1>5, <1>6

(* An event set for r after the base time is due r after the coming tick,  *)
(* or a millisecond later when the tick does not end at one.               *)
LEMMA BaseDue ==
  ASSUME ClockTypeOK, ClockOK, NEW r \in RelTimes
  PROVE  LET up == IF next_subtime > 0 THEN 1 ELSE 0
         IN /\ base_time \in Times
            /\ Wrap(base_time - min_time) = Coming + up
            /\ Wrap(base_time + r) \in Times
            /\ Wrap(Wrap(base_time + r) - min_time) = Coming + up + r
<1> DEFINE up == IF next_subtime > 0 THEN 1 ELSE 0
<1>1. r \in Nat /\ r <= TMAX_RELTIM /\ up \in {0, 1}
  BY TicType DEF RelTimes
<1>2. base_time = Wrap(next_time + up)
  BY DEF base_time
<1> HIDE DEF up
<1>3. next_time \in Int /\ min_time \in Int /\ Coming \in Times
      /\ Coming \in Int /\ Coming <= 2 * (Tic + 1)
  BY ClockType, TicType DEF ClockOK, Ahead
<1>4. Coming + up \in Times /\ (Coming + up) + r \in Times
  BY <1>1, <1>3, TicType DEF Times
<1>5. base_time \in Times /\ base_time \in Int
  <2>1. next_time + up \in Int
    BY <1>1, <1>3
  <2>2. base_time \in Times
    BY <1>2, <2>1, WrapEx
  <2> QED BY <2>2, TicType DEF Times
<1>6. Wrap(base_time - min_time) = Coming + up
  <2>1. Wrap(next_time - min_time) + up \in Times /\ up \in Int
    BY <1>1, <1>4 DEF Coming
  <2>2. Wrap(Wrap(next_time + up) - min_time) = Wrap(next_time - min_time) + up
    BY <1>3, <2>1, WrapLater
  <2> QED BY <1>2, <2>2 DEF Coming
<1>7. Wrap(Wrap(base_time + r) - min_time) = (Coming + up) + r
  <2>1. Wrap(base_time - min_time) + r \in Times
    BY <1>4, <1>6
  <2>2. base_time \in Int /\ min_time \in Int /\ r \in Int
    BY <1>1, <1>3, <1>5
  <2>3. Wrap(Wrap(base_time + r) - min_time) = Wrap(base_time - min_time) + r
    BY <2>1, <2>2, WrapLater
  <2> QED BY <1>6, <2>3
<1>8. Wrap(base_time + r) \in Times
  <2>1. base_time + r \in Int
    BY <1>1, <1>5
  <2> QED BY <2>1, WrapEx
<1> QED BY <1>5, <1>6, <1>7, <1>8 DEF up

-----------------------------------------------------------------------------
(* The inductive invariant.                                                *)

TimeInv == Fine(h) /\ ClockTypeOK /\ ClockOK

LEMMA InvMeans ==
  ASSUME TimeInv
  PROVE  TypeOK /\ HeapOK
<1> DEFINE L == Len(h.heap)
<1>1. /\ L \in Nat /\ h \in Heap(L) /\ h.heap \in Seq(Nodes)
      /\ Filled(h, L, 0, {}) /\ Sorted(h, L) /\ ClockTypeOK
  BY DEF TimeInv, Fine
<1> HIDE DEF L
<1>2. h.index \in [Events -> Nat]
  BY <1>1 DEF Heap
<1>3. TypeOK
  BY <1>1, <1>2 DEF TypeOK, ClockTypeOK, Nodes, Times
<1>4. \A i \in 2 .. L : EVTTIM_LE(h.heap[PARENT(i)].time, h.heap[i].time)
  BY <1>1 DEF Sorted, Due, EVTTIM_LE
<1>5. \A i \in 1 .. L : h.index[h.heap[i].ev] = i
  BY <1>1 DEF Filled
<1>6. \A e \in Events : IsSet(e) => h.index[e] <= L /\ h.heap[h.index[e]].ev = e
  BY <1>1, <1>2 DEF Filled, IsSet
<1>7. HeapOK
  BY <1>4, <1>5, <1>6 DEF HeapOK, L
<1> QED BY <1>3, <1>7

LEMMA EmptyFine ==
  ASSUME NEW H, H = [heap |-> <<>>, index |-> [e \in Events |-> 0]]
  PROVE  Fine(H) /\ \A e \in Events : H.index[e] = 0
<1>1. /\ H.heap = <<>> /\ Len(H.heap) = 0 /\ H.heap \in Seq(Nodes)
      /\ H.heap \in [1 .. 0 -> Nodes]
  OBVIOUS
<1>2. H.index \in [Events -> Nat] /\ \A e \in Events : H.index[e] = 0
  OBVIOUS
<1>3. H \in [heap : [1 .. 0 -> Nodes], index : [Events -> Nat]]
  BY <1>1, <1>2
<1>4. H \in Heap(0)
  BY <1>3 DEF Heap
<1>5. Filled(H, 0, 0, {}) /\ Sorted(H, 0)
  BY <1>2 DEF Filled, Sorted
<1> QED BY <1>1, <1>2, <1>4, <1>5 DEF Fine

(* initialize_cyclic starts one handler after the other.                   *)
LEMMA StartedFine ==
  ASSUME Init
  PROVE  Fine(h)
<1> DEFINE N == Len(TA_STA)
           Empty == [heap |-> <<>>, index |-> [e \in Events |-> 0]]
           Step(g, i) == IF i = 0 THEN Empty
                         ELSE tmevtb_insert(g[i - 1], TA_STA[i], cycphs[TA_STA[i]])
           F(g) == [i \in 0 .. N |-> Step(g, i)]
           Good(m, g) == \A i \in 0 .. m : g[i] = Step(g, i)
           A == {m \in Nat : m <= N => \E g : Good(m, g)}
           f == CHOOSE x : x = F(x)
           B == {m \in Nat : m <= N =>
                   /\ Fine(f[m])
                   /\ \A j \in 1 .. N : j > m => f[m].index[TA_STA[j]] = 0}
<1>1. /\ N \in Nat /\ \A j \in 1 .. N : TA_STA[j] \in Cyclic
      /\ \A j, k \in 1 .. N : TA_STA[j] = TA_STA[k] => j = k
  BY TimeEventAssumption DEF IsInjective
<1>2. h = f[N]
  BY DEF Init
<1>3. min_time \in Int
  BY DEF Init
<1> HIDE DEF N
<1>4. 0 \in A
  <2>1. Good(0, [i \in {0} |-> Empty])
    OBVIOUS
  <2> HIDE DEF Good
  <2> QED BY <2>1
<1>5. ASSUME NEW m \in Nat, m \in A, m + 1 <= N
      PROVE  \E g : Good(m + 1, g)
  <2>1. PICK g : Good(m, g)
    <3>1. m <= N
      BY <1>1, <1>5
    <3> HIDE DEF Good
    <3> QED BY <1>5, <3>1
  <2> DEFINE e == [j \in 0 .. m + 1 |-> IF j = m + 1 THEN Step(g, j) ELSE g[j]]
  <2>2. \A j \in 0 .. m + 1 : Step(e, j) = Step(g, j)
    <3>1. \A j \in 0 .. m + 1 : j = 0 \/ j - 1 \in 0 .. m
      OBVIOUS
    <3>2. \A j \in 0 .. m : e[j] = g[j]
      OBVIOUS
    <3> HIDE DEF e
    <3> QED BY <3>1, <3>2
  <2> HIDE DEF Step
  <2>3. \A j \in 0 .. m + 1 : e[j] = Step(g, j)
    <3>1. \A j \in 0 .. m + 1 : j = m + 1 \/ j \in 0 .. m
      OBVIOUS
    <3>2. \A j \in 0 .. m : g[j] = Step(g, j)
      BY <2>1
    <3> QED BY <3>1, <3>2
  <2> HIDE DEF e
  <2>4. Good(m + 1, e)
    BY <2>2, <2>3
  <2> HIDE DEF Good
  <2> QED BY <2>4
<1>6. Nat \subseteq A
  <2>1. \A m \in Nat : m \in A => m + 1 \in A
    <3> HIDE DEF Good
    <3> QED BY <1>5
  <2> HIDE DEF A
  <2> QED BY <1>4, <2>1, SetInduction
<1>7. PICK g : Good(N, g)
  <2>1. N \in A
    BY <1>1, <1>6
  <2> HIDE DEF Good
  <2> QED BY <1>1, <2>1
<1>8. f = F(f)
  <2> DEFINE e == [i \in 0 .. N |-> g[i]]
  <2>1. \A i \in 0 .. N : Step(e, i) = Step(g, i)
    <3>1. \A j \in 0 .. N : j = 0 \/ j - 1 \in 0 .. N
      BY <1>1
    <3>2. \A j \in 0 .. N : e[j] = g[j]
      OBVIOUS
    <3> HIDE DEF e
    <3> QED BY <3>1, <3>2
  <2>2. e = F(e)
    <3> HIDE DEF Step
    <3> QED BY <1>7, <2>1
  <2> HIDE DEF e, F
  <2> QED BY <2>2
<1>9. \A i \in 0 .. N : f[i] = Step(f, i)
  <2> HIDE DEF f, Step
  <2> QED BY <1>8
<1> HIDE DEF f
<1>10. 0 \in B
  <2>1. f[0] = Empty
    BY <1>1, <1>9
  <2>2. Fine(f[0]) /\ \A e \in Events : f[0].index[e] = 0
    BY <2>1, EmptyFine
  <2>3. \A j \in 1 .. N : TA_STA[j] \in Events
    BY <1>1 DEF Events
  <2> QED BY <2>2, <2>3
<1>11. ASSUME NEW m \in Nat, m \in B, m + 1 <= N
       PROVE  /\ Fine(f[m + 1])
              /\ \A j \in 1 .. N : j > m + 1 => f[m + 1].index[TA_STA[j]] = 0
  <2> DEFINE e == TA_STA[m + 1]
             H == f[m]
             K == f[m + 1]
             t == cycphs[e]
  <2>1. /\ Fine(H) /\ H.index[e] = 0
        /\ \A j \in 1 .. N : j > m => H.index[TA_STA[j]] = 0
    BY <1>1, <1>11
  <2>2. e \in Cyclic /\ e \in Events
    BY <1>1, <1>11 DEF Events
  <2>3. t \in Times
    <3> HIDE DEF e
    <3>1. t \in RelTimes
      BY <2>2, TimeEventAssumption
    <3> QED BY <3>1, TicType DEF RelTimes, Times
  <2>4. K = tmevtb_insert(H, e, t)
    <3>1. m + 1 \in 0 .. N /\ m + 1 # 0 /\ (m + 1) - 1 = m
      BY <1>1, <1>11
    <3> QED BY <1>9, <3>1
  <2>5. \A j \in 1 .. N : j > m + 1 => TA_STA[j] \in Events \ {e}
    BY <1>1, <1>11 DEF Events
  <2> HIDE DEF e, t, H, K
  <2>6. Inserted(H, K, e, t)
    <3>1. Inserted(H, tmevtb_insert(H, e, t), e, t)
      BY <1>3, <2>1, <2>2, <2>3, InsertOK
    <3> QED BY <2>4, <3>1
  <2>7. Fine(K) /\ \A x \in Events \ {e} : K.index[x] = 0 <=> H.index[x] = 0
    BY <2>6 DEF Inserted, Kept
  <2>8. \A j \in 1 .. N : j > m + 1 => K.index[TA_STA[j]] = 0
    <3>1. \A j \in 1 .. N : j > m + 1 => j > m
      BY <1>1
    <3> QED BY <2>1, <2>5, <2>7, <3>1
  <2> QED BY <2>7, <2>8 DEF K
<1>12. Nat \subseteq B
  <2>1. \A m \in Nat : m \in B => m + 1 \in B
    BY <1>11
  <2> HIDE DEF B
  <2> QED BY <1>10, <2>1, SetInduction
<1>13. N \in B
  BY <1>1, <1>12
<1>14. Fine(f[N])
  BY <1>1, <1>13
<1> QED BY <1>2, <1>14

(* What a user of the heap does to it.                                     *)
SetAfter(e, r) == Inserted(h, h', e, Wrap(base_time + r))

LEMMA UsersDo ==
  ASSUME TimeInv, Users
  PROVE  /\ clocks' = clocks /\ ticking' = ticking
         /\ \E e \in Events : \/ \E r \in RelTimes : SetAfter(e, r)
                              \/ IsSet(e) /\ Deleted(h, h', e)
<1>1. Fine(h) /\ min_time \in Int
  BY ClockType DEF TimeInv
<1>2. \A r \in RelTimes : Wrap(base_time + r) \in Times
  BY BaseDue DEF TimeInv
<1>3. OneShot \subseteq Events /\ Cyclic \subseteq Events
  BY DEF Events
<1>4. ASSUME NEW e \in Events, NEW r \in RelTimes, Reset(e, Wrap(base_time + r))
      PROVE  /\ clocks' = clocks /\ ticking' = ticking
             /\ SetAfter(e, r)
  <2> DEFINE t == Wrap(base_time + r)
             D == tmevtb_delete(h, e)
  <2>1. clocks' = clocks /\ ticking' = ticking
    BY <1>4 DEF Reset
  <2>2. t \in Times
    BY <1>2
  <2>3. h' = tmevtb_insert(IF IsSet(e) THEN D ELSE h, e, t)
    BY <1>4 DEF Reset
  <2> HIDE DEF t
  <2>4. CASE IsSet(e)
    <3>1. Deleted(h, D, e)
      BY <1>1, <2>4, DeleteOK DEF IsSet
    <3> HIDE DEF D
    <3>2. Fine(D) /\ D.index[e] = 0 /\ Kept(h, D, Events \ {e})
      BY <3>1 DEF Deleted
    <3>3. Inserted(D, h', e, t)
      <4>1. Inserted(D, tmevtb_insert(D, e, t), e, t)
        BY <1>1, <2>2, <3>2, InsertOK
      <4> QED BY <2>3, <2>4, <4>1
    <3>4. Kept(h, h', Events \ {e})
      <4>1. Kept(D, h', Events \ {e})
        BY <3>3 DEF Inserted
      <4> QED BY <3>2, <4>1, KeptTwice
    <3>5. Inserted(h, h', e, t)
      BY <3>3, <3>4 DEF Inserted
    <3> QED BY <2>1, <3>5 DEF SetAfter, t
  <2>5. CASE ~IsSet(e)
    <3>1. Inserted(h, tmevtb_insert(h, e, t), e, t)
      BY <1>1, <2>2, <2>5, InsertOK DEF IsSet
    <3>2. Inserted(h, h', e, t)
      BY <2>3, <2>5, <3>1
    <3> QED BY <2>1, <3>2 DEF SetAfter, t
  <2> QED BY <2>4, <2>5
<1>5. ASSUME NEW e \in OneShot, NEW r \in RelTimes, tmevtb_enqueue(e, r)
      PROVE  /\ clocks' = clocks /\ ticking' = ticking
             /\ SetAfter(e, r)
  <2>1. Inserted(h, tmevtb_insert(h, e, Wrap(base_time + r)), e, Wrap(base_time + r))
    <3>1. h.index[e] = 0 /\ Wrap(base_time + r) \in Times /\ e \in Events
      BY <1>2, <1>3, <1>5 DEF tmevtb_enqueue, IsSet
    <3> QED BY <1>1, <3>1, InsertOK
  <2> QED BY <1>5, <2>1 DEF tmevtb_enqueue, SetAfter
<1>6. CASE \E e \in OneShot, r \in RelTimes : tmevtb_enqueue(e, r) \/ sta_alm(e, r)
  <2>1. PICK e \in OneShot, r \in RelTimes : tmevtb_enqueue(e, r) \/ sta_alm(e, r)
    BY <1>6
  <2>2. clocks' = clocks /\ ticking' = ticking /\ SetAfter(e, r)
    BY <1>3, <1>4, <1>5, <2>1 DEF sta_alm
  <2> QED BY <1>3, <2>2
<1>7. CASE \E e \in Events : tmevtb_dequeue(e)
  <2>1. PICK e \in Events : tmevtb_dequeue(e)
    BY <1>7
  <2>2. Deleted(h, tmevtb_delete(h, e), e)
    BY <1>1, <2>1, DeleteOK DEF tmevtb_dequeue, IsSet
  <2> QED BY <2>1, <2>2 DEF tmevtb_dequeue
<1>8. CASE \E e \in Cyclic : sta_cyc(e)
  <2>1. PICK e \in Cyclic : sta_cyc(e)
    BY <1>8
  <2>2. cycphs[e] \in RelTimes /\ e \in Events
    BY <1>3, TimeEventAssumption
  <2>3. clocks' = clocks /\ ticking' = ticking /\ SetAfter(e, cycphs[e])
    BY <1>4, <2>1, <2>2 DEF sta_cyc
  <2> QED BY <2>2, <2>3
<1> QED BY <1>6, <1>7, <1>8 DEF Users

(* What an iteration of the loop of signal_time does to it: the event e,   *)
(* which is due and the earliest, is over or set c later.                  *)
SetAgain(e, c) ==
  LET time == Wrap(Node(h, e).time + c)
  IN /\ Inserted(h, h', e, time)
     /\ Wrap(time - min_time) = Due(Node(h, e)) + c

LEMMA NodeSet ==
  ASSUME TimeInv, NEW e \in Events, IsSet(e)
  PROVE  /\ h.index[e] \in 1 .. Len(h.heap)
         /\ Node(h, e) \in Nodes /\ Node(h, e).ev = e
         /\ Due(Node(h, e)) \in Times /\ Due(Node(h, e)) \in Int
<1>1. /\ Len(h.heap) \in Nat /\ h \in Heap(Len(h.heap))
      /\ Filled(h, Len(h.heap), 0, {}) /\ min_time \in Int
  BY ClockType DEF TimeInv, Fine
<1>2. h.index[e] \in 1 .. Len(h.heap) /\ h.heap[h.index[e]].ev = e
  BY <1>1 DEF Filled, IsSet
<1>3. h.heap[h.index[e]] \in Nodes
  BY <1>1, <1>2 DEF Heap
<1> QED BY <1>1, <1>2, <1>3, DueType DEF Node

LEMMA EventDoes ==
  ASSUME TimeInv, signal_time_event
  PROVE  /\ clocks' = clocks /\ ticking' = ticking /\ ticking
         /\ \E e \in Events :
              /\ IsSet(e) /\ Due(Node(h, e)) <= Gone
              /\ \A x \in Events :
                   IsSet(x) => Due(Node(h, e)) <= Due(Node(h, x))
              /\ \/ Deleted(h, h', e)
                 \/ \E c \in RelTimes \ {0} : SetAgain(e, c)
<1> DEFINE top == h.heap[1]
           e == top.ev
           D == tmevtb_delete_top(h)
<1>1. /\ Fine(h) /\ min_time \in Int /\ current_time \in Int
      /\ Gone \in Int /\ Gone <= Tic + 1
  BY ClockType DEF TimeInv, ClockOK
<1>2. /\ clocks' = clocks /\ ticking' = ticking /\ ticking
      /\ h.heap # <<>> /\ EVTTIM_LE(top.time, current_time)
      /\ h' = IF e \in Cyclic
              THEN tmevtb_insert(D, e, Wrap(top.time + cyctim[e])) ELSE D
  BY DEF signal_time_event, TopDue
<1>3. top \in Nodes /\ e \in Events /\ h.index[e] = 1 /\ Deleted(h, D, e)
  BY <1>1, <1>2, DeleteTopOK
<1>4. IsSet(e) /\ Node(h, e) = top
  BY <1>3 DEF IsSet, Node
<1>5. Due(top) <= Gone
  BY <1>2 DEF EVTTIM_LE, Due, Gone
<1>6. \A x \in Events : IsSet(x) => Due(top) <= Due(Node(h, x))
  <2> SUFFICES ASSUME NEW x \in Events, IsSet(x)
               PROVE  Due(h.heap[1]) <= Due(Node(h, x))
    OBVIOUS
  <2> DEFINE j == h.index[x]
  <2>1. j \in 1 .. Len(h.heap)
    BY NodeSet
  <2> HIDE DEF j
  <2>2. Due(h.heap[1]) <= Due(h.heap[j])
    BY <1>1, <2>1, TopEarliest
  <2> QED BY <2>2 DEF j, Node
<1> HIDE DEF top, e, D
<1>7. CASE e \in Cyclic
  <2> DEFINE c == cyctim[e]
             time == Wrap(top.time + c)
  <2>1. c \in RelTimes \ {0}
    BY <1>7, TimeEventAssumption
  <2> HIDE DEF c
  <2>2. c \in Int /\ c > 0 /\ c <= TMAX_RELTIM
    BY <2>1, TicType DEF RelTimes
  <2>3. top.time \in Times /\ top.time \in Int
    BY <1>3, TicType DEF Nodes, Times
  <2>4. Due(top) \in Times /\ Due(top) + c \in Times
    <3>1. Due(top) \in Times /\ Due(top) \in Int
      BY <1>1, <1>3, DueType
    <3> QED BY <1>1, <1>5, <2>2, <3>1, TicType DEF Times
  <2>5. Wrap(time - min_time) = Due(top) + c
    <3>1. Wrap(top.time - min_time) + c \in Times
      BY <2>4 DEF Due
    <3>2. Wrap(Wrap(top.time + c) - min_time) = Wrap(top.time - min_time) + c
      BY <1>1, <2>2, <2>3, <3>1, WrapLater
    <3> QED BY <3>2 DEF Due
  <2>6. time \in Times
    <3>1. top.time + c \in Int
      BY <2>2, <2>3
    <3> QED BY <3>1, WrapEx
  <2>7. h' = tmevtb_insert(D, e, time)
    BY <1>2, <1>7 DEF c, e
  <2> HIDE DEF time
  <2>8. Fine(D) /\ D.index[e] = 0 /\ Kept(h, D, Events \ {e})
    BY <1>3 DEF Deleted
  <2>9. Inserted(D, h', e, time)
    <3>1. Inserted(D, tmevtb_insert(D, e, time), e, time)
      BY <1>1, <1>3, <2>6, <2>8, InsertOK
    <3> QED BY <2>7, <3>1
  <2>10. Kept(h, h', Events \ {e})
    <3>1. Kept(D, h', Events \ {e})
      BY <2>9 DEF Inserted
    <3> QED BY <2>8, <3>1, KeptTwice
  <2>11. Inserted(h, h', e, time)
    BY <2>9, <2>10 DEF Inserted
  <2>12. SetAgain(e, c)
    BY <1>4, <2>5, <2>11 DEF SetAgain, time
  <2> QED BY <1>2, <1>3, <1>4, <1>5, <1>6, <2>1, <2>12
<1>8. CASE e \notin Cyclic
  <2>1. h' = D
    BY <1>2, <1>8 DEF e
  <2>2. Deleted(h, h', e)
    BY <1>3, <2>1
  <2> QED BY <1>2, <1>3, <1>4, <1>5, <1>6, <2>2
<1> QED BY <1>7, <1>8

(* Nothing is due: then every event is later than the tick.                *)
LEMMA NoneDue ==
  ASSUME TimeInv, ~TopDue, NEW j \in 1 .. Len(h.heap)
  PROVE  Gone < Due(h.heap[j])
<1>1. /\ Fine(h) /\ min_time \in Int /\ current_time \in Int /\ Gone \in Int
  BY ClockType DEF TimeInv
<1>2. Len(h.heap) \in Nat /\ h \in Heap(Len(h.heap))
  BY <1>1 DEF Fine
<1>3. h.heap # <<>> /\ 1 \in 1 .. Len(h.heap)
  BY <1>2
<1>4. h.heap[1] \in Nodes /\ h.heap[j] \in Nodes
  BY <1>2, <1>3 DEF Heap
<1>5. Due(h.heap[1]) \in Int /\ Due(h.heap[j]) \in Int
  BY <1>1, <1>4, DueType
<1>6. Gone < Due(h.heap[1])
  BY <1>1, <1>3, <1>5 DEF TopDue, EVTTIM_LE, Gone, Due
<1>7. Due(h.heap[1]) <= Due(h.heap[j])
  BY <1>1, TopEarliest
<1> QED BY <1>1, <1>5, <1>6, <1>7

(* Seen from the new min_time, every event is nearer by as much.           *)
LEMMA EndNearer ==
  ASSUME TimeInv, signal_time_end, NEW j \in 1 .. Len(h.heap)
  PROVE  Wrap(h.heap[j].time - min_time') = Due(h.heap[j]) - Gone
<1>1. /\ Len(h.heap) \in Nat /\ h \in Heap(Len(h.heap))
      /\ min_time \in Int /\ current_time \in Int /\ Gone \in Int
      /\ min_time' = current_time /\ ~TopDue
  BY ClockType DEF TimeInv, Fine, signal_time_end
<1>2. h.heap[j] \in Nodes
  BY <1>1 DEF Heap
<1>3. h.heap[j].time \in Int
  BY <1>2, TicType DEF Nodes, Times
<1>4. Due(h.heap[j]) \in Int
  BY <1>1, <1>2, DueType
<1>5. Gone <= Due(h.heap[j])
  BY <1>1, <1>4, NoneDue
<1> DEFINE t == h.heap[j].time
<1> HIDE DEF t
<1>6. Wrap(current_time - min_time) <= Wrap(t - min_time)
  BY <1>5 DEF Gone, Due, t
<1>7. Wrap(t - current_time) = Wrap(t - min_time) - Wrap(current_time - min_time)
  BY <1>1, <1>3, <1>6, WrapNearer DEF t
<1> QED BY <1>1, <1>7 DEF Gone, Due, t

LEMMA FineStays ==
  ASSUME Fine(h'), min_time' = min_time
  PROVE  Fine(h)'
BY DEF Fine, Filled, Sorted, Due, Wrap, Heap, Nodes, Times, PARENT, Events

LEMMA ClockStays ==
  ASSUME clocks' = clocks, ticking' = ticking
  PROVE  /\ ClockTypeOK => ClockTypeOK'
         /\ ClockOK => ClockOK'
         /\ Gone' = Gone /\ LastSub' = LastSub /\ min_time' = min_time
BY DEF clocks, ClockTypeOK, ClockOK, Gone, Coming, Ahead, LastSub, Wrap, Tic, Times

LEMMA TimeStep ==
  ASSUME TimeInv, [Next]_vars
  PROVE  TimeInv'
<1>1. CASE Users
  <2>1. clocks' = clocks /\ ticking' = ticking /\ Fine(h')
    BY <1>1, UsersDo DEF SetAfter, Inserted, Deleted
  <2> QED BY <2>1, FineStays, ClockStays DEF TimeInv
<1>2. CASE signal_time_begin
  <2>1. h' = h /\ ClockTypeOK' /\ ClockOK' /\ min_time' = min_time
    BY <1>2, ClockBegin DEF TimeInv, signal_time_begin
  <2>2. Fine(h')
    BY <2>1 DEF TimeInv
  <2> QED BY <2>1, <2>2, FineStays DEF TimeInv
<1>3. CASE signal_time_event
  <2>1. clocks' = clocks /\ ticking' = ticking /\ Fine(h')
    BY <1>3, EventDoes DEF SetAgain, Inserted, Deleted
  <2> QED BY <2>1, FineStays, ClockStays DEF TimeInv
<1>4. CASE signal_time_end
  <2> DEFINE L == Len(h.heap)
  <2>1. h' = h /\ ClockTypeOK' /\ ClockOK'
    BY <1>4, ClockEnd DEF TimeInv, signal_time_end
  <2>2. /\ L \in Nat /\ h \in Heap(L) /\ h.heap \in Seq(Nodes)
        /\ Filled(h, L, 0, {}) /\ Sorted(h, L)
        /\ min_time \in Int /\ Gone \in Int
    BY ClockType DEF TimeInv, Fine
  <2>3. \A j \in 1 .. L :
          /\ Wrap(h.heap[j].time - min_time') = Due(h.heap[j]) - Gone
          /\ Due(h.heap[j]) \in Int
    <3>1. \A j \in 1 .. L : h.heap[j] \in Nodes
      BY <2>2 DEF Heap
    <3>2. \A j \in 1 .. L : Due(h.heap[j]) \in Int
      BY <2>2, <3>1, DueType
    <3>3. \A j \in 1 .. L :
            Wrap(h.heap[j].time - min_time') = Due(h.heap[j]) - Gone
      BY <1>4, EndNearer
    <3> QED BY <3>2, <3>3
  <2> HIDE DEF L
  <2>4. \A j \in 2 .. L : Wrap(h.heap[PARENT(j)].time - min_time')
                            <= Wrap(h.heap[j].time - min_time')
    <3> SUFFICES ASSUME NEW j \in 2 .. L
                 PROVE  Wrap(h.heap[PARENT(j)].time - min_time')
                          <= Wrap(h.heap[j].time - min_time')
      OBVIOUS
    <3> DEFINE p == PARENT(j)
    <3>1. p \in 1 .. j - 1
      BY <2>2, ParentIs
    <3> HIDE DEF p
    <3>2. p \in 1 .. L /\ j \in 1 .. L
      BY <2>2, <3>1
    <3>3. Due(h.heap[p]) <= Due(h.heap[j])
      BY <2>2 DEF Sorted, p
    <3>4. Wrap(h.heap[p].time - min_time') <= Wrap(h.heap[j].time - min_time')
      BY <2>2, <2>3, <3>2, <3>3
    <3> QED BY <3>4 DEF p
  <2>5. Sorted(h, L)'
    BY <2>1, <2>4 DEF Sorted, Due, L
  <2>6. Fine(h)'
    BY <2>1, <2>2, <2>5 DEF Fine, L, Filled, Heap, Nodes, Times
  <2> QED BY <2>1, <2>6 DEF TimeInv
<1>5. CASE UNCHANGED vars
  <2>1. h' = h /\ clocks' = clocks /\ ticking' = ticking
    BY <1>5 DEF vars
  <2>2. Fine(h')
    BY <2>1 DEF TimeInv
  <2> QED BY <2>1, <2>2, FineStays, ClockStays DEF TimeInv
<1> QED BY <1>1, <1>2, <1>3, <1>4, <1>5 DEF Next, Tick

(* The heap and the clocks are always as they should be.                   *)
THEOREM TimeInvHolds == Spec => []TimeInv
<1>1. Init => TimeInv
  BY StartedFine, ClockInit DEF TimeInv
<1>2. TimeInv /\ [Next]_vars => TimeInv'
  BY TimeStep
<1> QED BY <1>1, <1>2, PTL DEF Spec

(* Every variable has its type, the index of a block among them.           *)
THEOREM TimeEventTypeOK == Spec => []TypeOK
<1>1. TimeInv => TypeOK
  BY InvMeans
<1> QED BY <1>1, TimeInvHolds, PTL

(* The heap is one and each block knows its node, whatever was deleted     *)
(* from its middle and wherever the times wrapped around.                  *)
THEOREM TimeEventHeapOK == Spec => []HeapOK
<1>1. TimeInv => HeapOK
  BY InvMeans
<1> QED BY <1>1, TimeInvHolds, PTL

-----------------------------------------------------------------------------
(* The time left, in exact time.                                           *)

LEMMA LeftIs ==
  ASSUME TimeInv, NEW e \in Events, IsSet(e)
  PROVE  /\ TimeLeft(h.heap[h.index[e]])
              = (Due(Node(h, e)) - Gone) * TIC_DENO - LastSub
         /\ TimeLeft(h.heap[h.index[e]]) \in Int
<1>1. TimeLeft(h.heap[h.index[e]])
        = (Due(Node(h, e)) - Gone) * TIC_DENO - LastSub
  BY DEF TimeLeft, Due, Node, Gone, LastSub
<1>2. Due(Node(h, e)) \in Int /\ Gone \in Int /\ LastSub \in Int
      /\ TIC_DENO \in Int
  BY NodeSet, ClockType, TicType DEF TimeInv
<1> DEFINE d == Due(Node(h, e)) - Gone
<1>3. d \in Int
  BY <1>2
<1> HIDE DEF d
<1>4. d * TIC_DENO - LastSub \in Int
  BY <1>2, <1>3
<1> QED BY <1>1, <1>4 DEF d

LEMMA LefttimTold ==
  ASSUME TimeInv, NEW e \in Events, IsSet(e)
  PROVE  LET exact == TimeLeft(h.heap[h.index[e]]) - TIC_NUME
             told == tmevt_lefttim(e) * TIC_DENO
         IN exact > 0 => told <= exact /\ exact < told + TIC_DENO
<1> DEFINE node == h.heap[h.index[e]]
           exact == TimeLeft(node) - TIC_NUME
           told == tmevt_lefttim(e)
           up == IF next_subtime > 0 THEN 1 ELSE 0
           due == Wrap(node.time - min_time)
           d == due - Coming
<1>1. /\ Gone \in Int /\ Coming \in Int /\ LastSub \in Int /\ Ahead \in Int
      /\ next_time \in Int /\ min_time \in Int
      /\ next_subtime \in 0 .. TIC_DENO - 1 /\ next_subtime \in Int
      /\ Ahead * TIC_DENO + next_subtime = TIC_NUME + LastSub
      /\ Ahead = Coming - Gone
  BY ClockType DEF TimeInv, ClockTypeOK, ClockOK, Ahead
<1>2. TIC_DENO \in Nat \ {0} /\ TIC_NUME \in Nat
  BY TicType
<1>3. /\ node \in Nodes /\ due \in Times /\ due \in Int
      /\ TimeLeft(node) = (due - Gone) * TIC_DENO - LastSub
  BY NodeSet, LeftIs DEF Node, Due
<1>4. node.time \in Int
  BY <1>3, TicType DEF Nodes, Times
<1>5. told = IF due <= Coming THEN 0 ELSE Wrap(node.time - base_time)
  BY DEF tmevt_lefttim, EVTTIM_LE, Coming
<1>6. base_time \in Int /\ Wrap(base_time - min_time) = Coming + up
  <2>1. 0 \in RelTimes
    BY TicType DEF RelTimes
  <2>2. base_time \in Times /\ Wrap(base_time - min_time) = Coming + up
    BY <2>1, BaseDue DEF TimeInv
  <2> QED BY <2>2, TicType DEF Times
<1>7. up \in {0, 1} /\ next_subtime <= up * TIC_DENO
      /\ up * TIC_DENO - next_subtime < TIC_DENO
  <2>1. CASE next_subtime > 0
    BY <1>1, <1>2, <2>1
  <2>2. CASE ~(next_subtime > 0)
    <3>1. next_subtime = 0 /\ up = 0
      BY <1>1, <1>2, <2>2
    <3> QED BY <1>2, <3>1
  <2> QED BY <2>1, <2>2
<1> HIDE DEF node, told, due, up
<1>8. exact = d * TIC_DENO - next_subtime /\ d \in Int
  <2> DEFINE x == due - Gone
  <2>1. x \in Int /\ d \in Int /\ x = d + Ahead
    BY <1>1, <1>3
  <2>2. exact = x * TIC_DENO - LastSub - TIC_NUME
    BY <1>1, <1>2, <1>3
  <2> HIDE DEF x, d
  <2>3. x * TIC_DENO = d * TIC_DENO + Ahead * TIC_DENO
        /\ d * TIC_DENO \in Int /\ Ahead * TIC_DENO \in Int
    BY <1>1, <1>2, <2>1
  <2> QED BY <1>1, <1>2, <2>1, <2>2, <2>3
<1> HIDE DEF exact
<1>9. SUFFICES ASSUME exact > 0
               PROVE  told * TIC_DENO <= exact /\ exact < told * TIC_DENO + TIC_DENO
  BY DEF exact, told, node
<1>10. d > 0
  <2> HIDE DEF d
  <2>1. SUFFICES ASSUME d <= 0 PROVE FALSE
    BY <1>8
  <2>2. d * TIC_DENO <= 0 /\ d * TIC_DENO \in Int
    BY <1>2, <1>8, <2>1
  <2> QED BY <1>1, <1>2, <1>8, <1>9, <2>2
<1>11. told = d - up
  <2>1. ~(due <= Coming) /\ Coming + up <= due
    BY <1>1, <1>3, <1>7, <1>10
  <2>2. Wrap(base_time - min_time) <= Wrap(node.time - min_time)
    BY <1>6, <2>1 DEF due
  <2>3. Wrap(node.time - base_time)
          = Wrap(node.time - min_time) - Wrap(base_time - min_time)
    BY <1>1, <1>4, <1>6, <2>2, WrapNearer
  <2>4. told = due - (Coming + up)
    BY <1>5, <1>6, <2>1, <2>3 DEF due
  <2> QED BY <1>1, <1>3, <1>7, <2>4
<1> HIDE DEF d
<1>12. told * TIC_DENO = d * TIC_DENO - up * TIC_DENO
       /\ d * TIC_DENO \in Int /\ up * TIC_DENO \in Int
  BY <1>2, <1>7, <1>8, <1>11
<1> QED BY <1>1, <1>2, <1>7, <1>8, <1>12

(* What ref_cyc and ref_alm tell of the time left is never more than what  *)
(* is left from the coming tick on, nor less by a millisecond.             *)
THEOREM TimeEventLefttimOK == Spec => []LefttimOK
<1>1. TimeInv => LefttimOK
  BY LefttimTold DEF LefttimOK
<1> QED BY <1>1, TimeInvHolds, PTL

-----------------------------------------------------------------------------
(* The heap is a queue of timers.                                          *)

SetEvents == {x \in Events : IsSet(x)}
Left == [e \in SetEvents |-> TimeLeft(h.heap[h.index[e]])]

LEMMA LeftType ==
  ASSUME TimeInv
  PROVE  /\ Left \in [SetEvents -> Int] /\ DOMAIN Left = SetEvents
         /\ \A e \in SetEvents :
              Left[e] = (Due(Node(h, e)) - Gone) * TIC_DENO - LastSub
<1>1. \A e \in SetEvents :
        /\ TimeLeft(h.heap[h.index[e]])
             = (Due(Node(h, e)) - Gone) * TIC_DENO - LastSub
        /\ TimeLeft(h.heap[h.index[e]]) \in Int
  BY LeftIs DEF SetEvents
<1> QED BY <1>1 DEF Left

(* The other events are set as before, and as long.                        *)
LEMMA OthersStay ==
  ASSUME clocks' = clocks, NEW e \in Events, Kept(h, h', Events \ {e})
  PROVE  /\ \A x \in Events \ {e} : x \in SetEvents' <=> x \in SetEvents
         /\ \A x \in SetEvents \ {e} : Left'[x] = Left[x]
<1>1. \A x \in Events \ {e} :
        /\ h'.index[x] = 0 <=> h.index[x] = 0
        /\ h.index[x] # 0 => h'.heap[h'.index[x]] = h.heap[h.index[x]]
  BY DEF Kept, Node
<1>2. \A x \in Events \ {e} : x \in SetEvents' <=> x \in SetEvents
  BY <1>1 DEF SetEvents, IsSet
<1>3. ASSUME NEW x \in SetEvents \ {e} PROVE Left'[x] = Left[x]
  <2>1. /\ x \in SetEvents' /\ x \in SetEvents
        /\ h'.heap[h'.index[x]] = h.heap[h.index[x]]
    BY <1>1, <1>2, <1>3 DEF SetEvents, IsSet
  <2>2. Left'[x] = TimeLeft(h.heap[h.index[x]])'
    BY <2>1 DEF Left
  <2>3. Left[x] = TimeLeft(h.heap[h.index[x]])
    BY <2>1 DEF Left
  <2> QED BY <2>1, <2>2, <2>3 DEF TimeLeft, Wrap, clocks
<1> QED BY <1>2, <1>3

Others(e) == [f \in DOMAIN Left \ {e} |-> Left[f]]

LEMMA LeftDeleted ==
  ASSUME TimeInv, clocks' = clocks,
         NEW e \in Events, IsSet(e), Deleted(h, h', e)
  PROVE  e \in DOMAIN Left /\ Left' = Others(e)
<1>1. e \in SetEvents /\ e \notin SetEvents'
  BY DEF SetEvents, IsSet, Deleted
<1>2. /\ \A x \in Events \ {e} : x \in SetEvents' <=> x \in SetEvents
      /\ \A x \in SetEvents \ {e} : Left'[x] = Left[x]
  BY OthersStay DEF Deleted
<1>3. SetEvents' = SetEvents \ {e}
  <2>1. SetEvents \subseteq Events /\ SetEvents' \subseteq Events
    BY DEF SetEvents, Events
  <2> QED BY <1>1, <1>2, <2>1
<1>4. Left' = [x \in SetEvents' |-> Left'[x]]
  BY DEF Left
<1>5. DOMAIN Left = SetEvents
  BY LeftType
<1> QED BY <1>1, <1>2, <1>3, <1>4, <1>5 DEF Others

LEMMA LeftInserted ==
  ASSUME TimeInv, clocks' = clocks, ticking' = ticking,
         NEW e \in Events, NEW time, Inserted(h, h', e, time)
  PROVE  /\ SetEvents' = SetEvents \cup {e}
         /\ Left' = [x \in SetEvents \cup {e} |->
                       IF x = e
                       THEN (Wrap(time - min_time) - Gone) * TIC_DENO - LastSub
                       ELSE Left[x]]
<1>1. e \in SetEvents' /\ h'.heap[h'.index[e]] = [time |-> time, ev |-> e]
  BY DEF SetEvents, IsSet, Inserted, Node, Events
<1>2. /\ \A x \in Events \ {e} : x \in SetEvents' <=> x \in SetEvents
      /\ \A x \in SetEvents \ {e} : Left'[x] = Left[x]
  BY OthersStay DEF Inserted
<1>3. SetEvents' = SetEvents \cup {e}
  <2>1. SetEvents \subseteq Events /\ SetEvents' \subseteq Events
    BY DEF SetEvents, Events
  <2> QED BY <1>1, <1>2, <2>1
<1>4. Left'[e] = (Wrap(time - min_time) - Gone) * TIC_DENO - LastSub
  <2>1. Left'[e] = TimeLeft(h.heap[h.index[e]])'
    BY <1>1 DEF Left
  <2> QED BY <1>1, <2>1 DEF TimeLeft, Wrap, clocks, Gone, LastSub
<1>5. Left' = [x \in SetEvents' |-> Left'[x]]
  BY DEF Left
<1> QED BY <1>2, <1>3, <1>4, <1>5

(* The actions of TimerQueue with Left for left.                           *)
LSet(e) ==
  \E r \in RelTimes, late \in 0 .. TIC_DENO - 1 :
    Left' = [f \in DOMAIN Left \cup {e} |->
               IF f = e THEN TIC_NUME + r * TIC_DENO + late ELSE Left[f]]
LCancel(e) == e \in DOMAIN Left /\ Left' = Others(e)
LBegin ==
  /\ ~ticking /\ ticking' = TRUE
  /\ Left' = [e \in DOMAIN Left |-> Left[e] - TIC_NUME]
LHappen(e) ==
  /\ ticking
  /\ e \in DOMAIN Left
  /\ Left[e] <= 0
  /\ \A f \in DOMAIN Left : Left[e] <= Left[f]
  /\ \/ Left' = Others(e)
     \/ \E c \in RelTimes \ {0} : Left' = [Left EXCEPT ![e] = @ + c * TIC_DENO]
  /\ UNCHANGED ticking
LEnd ==
  /\ ticking /\ ticking' = FALSE
  /\ \A e \in DOMAIN Left : Left[e] > 0
  /\ Left' = Left

LEMMA LIsQueue ==
  ASSUME NEW e \in Events
  PROVE  /\ LSet(e) => Queue!Set(e)
         /\ LCancel(e) => Queue!Cancel(e)
         /\ LHappen(e) => Queue!Happen(e)
<1>1. LSet(e) => Queue!Set(e)
  BY DEF LSet, Others, Left, SetEvents, Queue!Set, Queue!Remove
<1>2. LCancel(e) => Queue!Cancel(e)
  BY DEF LCancel, Others, Left, SetEvents, Queue!Cancel, Queue!Remove
<1>3. LHappen(e) => Queue!Happen(e)
  BY DEF LHappen, Others, Left, SetEvents, Queue!Happen, Queue!Remove
<1> QED BY <1>1, <1>2, <1>3

LEMMA TicksAreQueue ==
  (LBegin => Queue!BeginTick) /\ (LEnd => Queue!EndTick)
<1>1. LBegin => Queue!BeginTick
  BY DEF LBegin, Left, SetEvents, Queue!BeginTick
<1>2. LEnd => Queue!EndTick
  BY DEF LEnd, Left, SetEvents, Queue!EndTick
<1> QED BY <1>1, <1>2

(* base_time rounds up: late by what is missing to the next millisecond.   *)
LEMMA SetRefined ==
  ASSUME TimeInv, clocks' = clocks, ticking' = ticking,
         NEW e \in Events, NEW r \in RelTimes, SetAfter(e, r)
  PROVE  LSet(e)
<1> DEFINE time == Wrap(base_time + r)
           up == IF next_subtime > 0 THEN 1 ELSE 0
           late == up * TIC_DENO - next_subtime
           x == (Coming + up + r) - Gone
<1>1. /\ Gone \in Int /\ Coming \in Int /\ LastSub \in Int /\ Ahead \in Int
      /\ next_subtime \in 0 .. TIC_DENO - 1 /\ next_subtime \in Int
      /\ Ahead * TIC_DENO + next_subtime = TIC_NUME + LastSub
      /\ Ahead = Coming - Gone
  BY ClockType DEF TimeInv, ClockTypeOK, ClockOK, Ahead
<1>2. TIC_DENO \in Nat \ {0} /\ TIC_NUME \in Nat /\ r \in Nat
  BY TicType DEF RelTimes
<1>3. Wrap(time - min_time) = Coming + up + r
  BY BaseDue DEF TimeInv
<1>4. up \in {0, 1} /\ late \in 0 .. TIC_DENO - 1
  <2>1. CASE next_subtime > 0
    BY <1>1, <1>2, <2>1
  <2>2. CASE ~(next_subtime > 0)
    <3>1. next_subtime = 0 /\ up = 0
      BY <1>1, <1>2, <2>2
    <3>2. late = 0
      BY <1>2, <3>1
    <3> QED BY <1>2, <3>1, <3>2
  <2> QED BY <2>1, <2>2
<1> HIDE DEF up
<1>5. x * TIC_DENO - LastSub = TIC_NUME + r * TIC_DENO + late
  <2>1. x = Ahead + up + r /\ x \in Int
    BY <1>1, <1>2, <1>4
  <2> HIDE DEF x
  <2>2. x * TIC_DENO = Ahead * TIC_DENO + up * TIC_DENO + r * TIC_DENO
    BY <1>1, <1>2, <1>4, <2>1
  <2>3. /\ Ahead * TIC_DENO \in Int /\ up * TIC_DENO \in Int
        /\ r * TIC_DENO \in Int
    BY <1>1, <1>2, <1>4
  <2>4. late \in Int /\ late = up * TIC_DENO - next_subtime
    BY <1>1, <2>3
  <2> HIDE DEF late
  <2> QED BY <1>1, <1>2, <2>2, <2>3, <2>4
<1>6. Left' = [y \in SetEvents \cup {e} |->
                 IF y = e THEN x * TIC_DENO - LastSub ELSE Left[y]]
  <2>1. Inserted(h, h', e, time)
    BY DEF SetAfter
  <2> HIDE DEF time
  <2>2. Left' = [y \in SetEvents \cup {e} |->
                   IF y = e
                   THEN (Wrap(time - min_time) - Gone) * TIC_DENO - LastSub
                   ELSE Left[y]]
    BY <2>1, LeftInserted
  <2> QED BY <1>3, <2>2
<1> HIDE DEF x, late
<1> DEFINE v == TIC_NUME + r * TIC_DENO + late
<1>7. Left' = [f \in DOMAIN Left \cup {e} |-> IF f = e THEN v ELSE Left[f]]
  <2>1. DOMAIN Left = SetEvents
    BY LeftType
  <2> HIDE DEF v
  <2>2. x * TIC_DENO - LastSub = v
    BY <1>5 DEF v
  <2> QED BY <1>6, <2>1, <2>2
<1> QED BY <1>4, <1>7 DEF LSet

LEMMA HappenRefined ==
  ASSUME TimeInv, signal_time_event
  PROVE  \E e \in Events : LHappen(e)
<1>1. /\ clocks' = clocks /\ ticking' = ticking /\ ticking
  BY EventDoes
<1>2. PICK e \in Events :
        /\ IsSet(e) /\ Due(Node(h, e)) <= Gone
        /\ \A x \in Events : IsSet(x) => Due(Node(h, e)) <= Due(Node(h, x))
        /\ \/ Deleted(h, h', e)
           \/ \E c \in RelTimes \ {0} : SetAgain(e, c)
  BY EventDoes
<1>3. /\ DOMAIN Left = SetEvents /\ Left \in [SetEvents -> Int]
      /\ \A x \in SetEvents :
           Left[x] = (Due(Node(h, x)) - Gone) * TIC_DENO - LastSub
  BY LeftType
<1>4. /\ Gone \in Int /\ LastSub \in 0 .. TIC_DENO - 1 /\ LastSub \in Int
      /\ TIC_DENO \in Nat \ {0}
  BY ClockType, TicType DEF TimeInv
<1>5. \A x \in SetEvents : Due(Node(h, x)) \in Int /\ x \in Events /\ IsSet(x)
  BY NodeSet DEF SetEvents
<1>6. e \in SetEvents
  BY <1>2 DEF SetEvents
<1>7. Left[e] <= 0
  <2> DEFINE d == Due(Node(h, e)) - Gone
  <2>1. d \in Int /\ d <= 0 /\ Left[e] = d * TIC_DENO - LastSub
    BY <1>2, <1>3, <1>4, <1>5, <1>6
  <2> HIDE DEF d
  <2>2. d * TIC_DENO <= 0 /\ d * TIC_DENO \in Int
    BY <1>4, <2>1
  <2> QED BY <1>4, <2>1, <2>2
<1>8. \A f \in SetEvents : Left[e] <= Left[f]
  <2> SUFFICES ASSUME NEW f \in SetEvents PROVE Left[e] <= Left[f]
    OBVIOUS
  <2> DEFINE d == Due(Node(h, e)) - Gone
             k == Due(Node(h, f)) - Gone
  <2>1. d \in Int /\ k \in Int /\ d <= k
    BY <1>2, <1>4, <1>5, <1>6
  <2>2. Left[e] = d * TIC_DENO - LastSub /\ Left[f] = k * TIC_DENO - LastSub
    BY <1>3, <1>6
  <2> HIDE DEF d, k
  <2>3. d * TIC_DENO <= k * TIC_DENO /\ d * TIC_DENO \in Int /\ k * TIC_DENO \in Int
    BY <1>4, <2>1
  <2> QED BY <1>4, <2>2, <2>3
<1>9. CASE Deleted(h, h', e)
  <2>1. Left' = Others(e)
    BY <1>1, <1>2, <1>9, LeftDeleted
  <2> QED BY <1>1, <1>3, <1>6, <1>7, <1>8, <2>1 DEF LHappen
<1>10. CASE \E c \in RelTimes \ {0} : SetAgain(e, c)
  <2>1. PICK c \in RelTimes \ {0} : SetAgain(e, c)
    BY <1>10
  <2> DEFINE time == Wrap(Node(h, e).time + c)
             d == Due(Node(h, e)) - Gone
             x == (Due(Node(h, e)) + c) - Gone
  <2>2. Inserted(h, h', e, time) /\ Wrap(time - min_time) = Due(Node(h, e)) + c
    BY <2>1 DEF SetAgain
  <2> HIDE DEF time
  <2>3. Left' = [y \in SetEvents \cup {e} |->
                   IF y = e
                   THEN (Wrap(time - min_time) - Gone) * TIC_DENO - LastSub
                   ELSE Left[y]]
    BY <1>1, <2>2, LeftInserted
  <2>4. Left' = [y \in SetEvents |->
                   IF y = e THEN x * TIC_DENO - LastSub ELSE Left[y]]
    <3>1. SetEvents \cup {e} = SetEvents
      BY <1>6
    <3> QED BY <2>2, <2>3, <3>1
  <2>5. x * TIC_DENO - LastSub = Left[e] + c * TIC_DENO
    <3>1. c \in Int /\ d \in Int /\ x = d + c /\ x \in Int
          /\ Left[e] = d * TIC_DENO - LastSub
      BY <1>3, <1>4, <1>5, <1>6, TicType DEF RelTimes
    <3> HIDE DEF x, d
    <3>2. x * TIC_DENO = d * TIC_DENO + c * TIC_DENO
          /\ d * TIC_DENO \in Int /\ c * TIC_DENO \in Int
      BY <1>4, <3>1
    <3> QED BY <1>4, <3>1, <3>2
  <2>6. Left' = [Left EXCEPT ![e] = @ + c * TIC_DENO]
    <3> HIDE DEF x
    <3> QED BY <1>3, <1>6, <2>4, <2>5
  <2> QED BY <1>1, <1>3, <1>6, <1>7, <1>8, <2>6 DEF LHappen
<1> QED BY <1>2, <1>9, <1>10

LEMMA BeginRefined ==
  ASSUME TimeInv, signal_time_begin
  PROVE  LBegin
<1>1. /\ ~ticking /\ ticking' = TRUE /\ h' = h
      /\ min_time' = min_time /\ Gone = 0 /\ Gone' = Ahead
      /\ LastSub' = next_subtime /\ TimeInv'
  BY ClockBegin, TimeStep DEF TimeInv, Next, Tick, signal_time_begin
<1>2. SetEvents' = SetEvents
  BY <1>1 DEF SetEvents, IsSet
<1>3. /\ DOMAIN Left = SetEvents
      /\ \A x \in SetEvents :
           Left[x] = (Due(Node(h, x)) - Gone) * TIC_DENO - LastSub
  BY LeftType
<1>4. /\ LastSub \in Int /\ Ahead \in Int /\ next_subtime \in Int
      /\ Ahead * TIC_DENO + next_subtime = TIC_NUME + LastSub
      /\ TIC_DENO \in Nat \ {0} /\ TIC_NUME \in Nat
  BY ClockType, TicType DEF TimeInv, ClockOK
<1>5. ASSUME NEW x \in SetEvents PROVE Left'[x] = Left[x] - TIC_NUME
  <2>1. Left'[x] = TimeLeft(h.heap[h.index[x]])'
    BY <1>2 DEF Left
  <2> DEFINE d == Due(Node(h, x))
             y == d - Ahead
  <2>2. TimeLeft(h.heap[h.index[x]])' = y * TIC_DENO - next_subtime
    <3>1. Due(Node(h, x))' = d
      BY <1>1 DEF Due, Node, Wrap
    <3>2. TimeLeft(h.heap[h.index[x]])'
            = (Due(Node(h, x))' - Gone') * TIC_DENO - LastSub'
      BY DEF TimeLeft, Due, Node, Gone, LastSub, Wrap
    <3> QED BY <1>1, <3>1, <3>2
  <2>3. d \in Int /\ y \in Int
    BY <1>4, NodeSet DEF SetEvents
  <2>4. Left[x] = d * TIC_DENO - LastSub
    BY <1>1, <1>3, <2>3
  <2> HIDE DEF d
  <2>5. y * TIC_DENO = d * TIC_DENO - Ahead * TIC_DENO
        /\ d * TIC_DENO \in Int /\ Ahead * TIC_DENO \in Int
    BY <1>4, <2>3
  <2> HIDE DEF y
  <2> QED BY <1>4, <2>1, <2>2, <2>4, <2>5
<1>6. Left' = [x \in SetEvents' |-> Left'[x]]
  BY DEF Left
<1> QED BY <1>1, <1>2, <1>3, <1>5, <1>6 DEF LBegin

LEMMA EndRefined ==
  ASSUME TimeInv, signal_time_end
  PROVE  LEnd
<1>1. /\ ticking /\ ticking' = FALSE /\ h' = h /\ ~TopDue
      /\ Gone' = 0 /\ LastSub' = LastSub
  BY ClockEnd DEF TimeInv, signal_time_end
<1>2. SetEvents' = SetEvents
  BY <1>1 DEF SetEvents, IsSet
<1>3. /\ DOMAIN Left = SetEvents
      /\ \A x \in SetEvents :
           Left[x] = (Due(Node(h, x)) - Gone) * TIC_DENO - LastSub
  BY LeftType
<1>4. /\ LastSub \in 0 .. TIC_DENO - 1 /\ LastSub \in Int /\ Gone \in Int
      /\ TIC_DENO \in Nat \ {0}
  BY ClockType, TicType DEF TimeInv
<1>5. ASSUME NEW x \in SetEvents
      PROVE  Left[x] > 0 /\ Left'[x] = Left[x]
  <2> DEFINE j == h.index[x]
             d == Due(Node(h, x)) - Gone
  <2>1. j \in 1 .. Len(h.heap) /\ Due(Node(h, x)) \in Int
    BY NodeSet DEF SetEvents
  <2>2. Gone < Due(h.heap[j])
    <3> HIDE DEF j
    <3> QED BY <1>1, <2>1, NoneDue
  <2>3. d \in Int /\ d >= 1 /\ Left[x] = d * TIC_DENO - LastSub
    BY <1>3, <1>4, <2>1, <2>2 DEF Node
  <2>4. Wrap(h.heap[j].time - min_time') = d
    <3> HIDE DEF j
    <3>1. Wrap(h.heap[j].time - min_time') = Due(h.heap[j]) - Gone
      BY <2>1, EndNearer
    <3> QED BY <3>1 DEF j, Node
  <2>5. Left'[x] = (Wrap(h.heap[j].time - min_time') - Gone') * TIC_DENO - LastSub'
    <3>1. Left'[x] = TimeLeft(h.heap[h.index[x]])'
      BY <1>2 DEF Left
    <3>2. TimeLeft(h.heap[h.index[x]])'
            = (Wrap(h'.heap[h'.index[x]].time - min_time') - Gone') * TIC_DENO - LastSub'
      BY DEF TimeLeft, Gone, LastSub, Wrap
    <3> QED BY <1>1, <3>1, <3>2
  <2> HIDE DEF d, j
  <2>6. Left'[x] = d * TIC_DENO - LastSub
    BY <1>1, <2>3, <2>4, <2>5
  <2>7. d * TIC_DENO >= TIC_DENO /\ d * TIC_DENO \in Int
    BY <1>4, <2>3
  <2> QED BY <1>4, <2>3, <2>6, <2>7
<1>6. Left' = [x \in SetEvents' |-> Left'[x]]
  BY DEF Left
<1>7. Left = [x \in SetEvents |-> Left[x]]
  BY DEF Left
<1>8. Left' = Left
  BY <1>2, <1>5, <1>6, <1>7
<1> QED BY <1>1, <1>3, <1>5, <1>8 DEF LEnd

LEMMA QueueStep ==
  ASSUME TimeInv, [Next]_vars
  PROVE  [Queue!Next]_Queue!vars
<1>1. CASE Users
  <2>1. /\ clocks' = clocks /\ ticking' = ticking
        /\ \E e \in Events : \/ \E r \in RelTimes : SetAfter(e, r)
                             \/ IsSet(e) /\ Deleted(h, h', e)
    BY <1>1, UsersDo
  <2>2. PICK e \in Events : \/ \E r \in RelTimes : SetAfter(e, r)
                            \/ IsSet(e) /\ Deleted(h, h', e)
    BY <2>1
  <2>3. LSet(e) \/ LCancel(e)
    BY <2>1, <2>2, SetRefined, LeftDeleted DEF LCancel
  <2>4. Queue!Set(e) \/ Queue!Cancel(e)
    BY <2>3, LIsQueue
  <2>5. Queue!User
    BY <2>1, <2>4 DEF Queue!User
  <2> QED BY <2>5 DEF Queue!Next
<1>2. CASE signal_time_begin
  BY <1>2, BeginRefined, TicksAreQueue DEF Queue!Next
<1>3. CASE signal_time_event
  <2>1. PICK e \in Events : LHappen(e)
    BY <1>3, HappenRefined
  <2>2. Queue!Happen(e)
    BY <2>1, LIsQueue
  <2> QED BY <2>2 DEF Queue!Next
<1>4. CASE signal_time_end
  BY <1>4, EndRefined, TicksAreQueue DEF Queue!Next
<1>5. CASE UNCHANGED vars
  BY <1>5 DEF vars, clocks, Queue!vars, TimeLeft, IsSet, Wrap
<1> QED BY <1>1, <1>2, <1>3, <1>4, <1>5 DEF Next, Tick

(* The heap with its wrapping times, its base time rounded up and its tick *)
(* in fractions of a millisecond is TimerQueue: no time event happens      *)
(* early, each happens in the first tick in which it may, in the order in  *)
(* which they are due, and a cyclic one does not drift.                    *)
THEOREM TimeEventKeepsTime == Spec => KeepsTime
<1>1. Init => Queue!Init
  <2> SUFFICES ASSUME Init PROVE Queue!Init
    OBVIOUS
  <2>1. TimeInv
    BY StartedFine, ClockInit DEF TimeInv
  <2>2. Left \in [SetEvents -> Int] /\ SetEvents \in SUBSET Events
    BY <2>1, LeftType DEF SetEvents
  <2>3. ticking = FALSE
    BY DEF Init
  <2>4. \E S \in SUBSET Events : Left \in [S -> Int]
    BY <2>2
  <2> QED BY <2>3, <2>4 DEF Queue!Init, Left, SetEvents
<1>2. TimeInv /\ [Next]_vars => [Queue!Next]_Queue!vars
  BY QueueStep
<1> QED BY <1>1, <1>2, TimeInvHolds, PTL DEF Spec, KeepsTime, Queue!Spec
=============================================================================
