--------------------------- MODULE PortScanProofs ---------------------------
(***************************************************************************)
(* Proofs about PortScan for every number of threads, every command line   *)
(* and every state of the targets: the pool of threads calls a port open   *)
(* only when it is, and both lists stay lists, although nothing of a push  *)
(* is under a lock; and one thread alone loses no result.                  *)
(***************************************************************************)
EXTENDS PortScan, SequenceTheorems, FiniteSetTheorems, WellFoundedInduction, TLAPS

ListNames == {"result", "version"}

(* A thread works on a record that is in the heap: from the allocation, or *)
(* the hit of the search, to the end of the push.                          *)
AtNode == {"link", "update", "conclude", "write"}
InPush == AtNode \cup {"search", "new"}

(* The shape of the state: what is a function, a sequence, a record.       *)
Locals ==
  /\ pc = [t \in Threads |-> pc[t]] /\ job = [t \in Threads |-> job[t]]
  /\ hand = [t \in Threads |-> hand[t]] /\ node = [t \in Threads |-> node[t]]
  /\ read = [t \in Threads |-> read[t]] /\ round \in [Threads -> ScanTypes]
Own(s) == {s[i] : i \in DOMAIN s}
Nodes ==
  /\ top \in [ListNames -> Nat]
  /\ heap \in Seq(Own(heap))
  /\ \A n \in DOMAIN heap :
       /\ heap[n] = [list |-> heap[n].list, ip |-> heap[n].ip, portno |-> heap[n].portno,
                     vals |-> heap[n].vals, conclusion |-> heap[n].conclusion,
                     next |-> heap[n].next]
       /\ heap[n].vals = [s \in ScanTypes |-> heap[n].vals[s]]
Shape == Locals /\ Nodes

(* Both lists are lists: a link leads to an older node of the same list.   *)
Linked ==
  /\ \A l \in ListNames : top[l] \in 0 .. Len(heap) /\ (top[l] # 0 => heap[top[l]].list = l)
  /\ \A n \in DOMAIN heap :
       /\ heap[n].list \in ListNames
       /\ heap[n].next \in 0 .. n - 1
       /\ heap[n].next # 0 => heap[heap[n].next].list = heap[n].list

(* Nobody works on a list before the scan or after it.                     *)
Resting == /\ main # "scan" => \A t \in Threads : pc[t] \in {"get", "exit"}
           /\ \A t \in Threads \ Workers : pc[t] = "get"

(* The node of a thread is one for the record it has in its hands.         *)
For(h, n, r) == /\ n \in DOMAIN h
                /\ h[n].list = r.list /\ h[n].ip = r.ip
                /\ r.list = "result" => h[n].portno = r.portno
Mine == \A t \in Threads :
          /\ pc[t] \in InPush => hand[t].list \in ListNames
          /\ pc[t] \in AtNode => For(heap, node[t], hand[t])

ListInv == Shape /\ Linked /\ Resting /\ Mine

(* The results a push is made with; NONE for a packet without the flags.   *)
Results == (0 .. 4) \cup {NONE}

(* Nothing is in a record that was not pushed: the results in hand, in the *)
(* slots of a node, in its conclusion and on the way to it have been told  *)
(* of the address and port of the record.                                  *)
ToldIn(S, ip, port, val) == \E r \in S : r.ip = ip /\ r.portno = port /\ r.val = val

Handed ==
  \A t \in Threads : pc[t] \in InPush =>
    /\ pc[t] \in {"conclude", "write"} => hand[t].list = "result"
    /\ hand[t].list = "result" =>
         hand[t].val \in Results /\ ToldIn(said, hand[t].ip, hand[t].portno, hand[t].val)
KeptAt(h, S, n) ==
  h[n].list = "result" =>
    /\ \A s \in ScanTypes : \/ h[n].vals[s] = NONE
                            \/ h[n].vals[s] \in Nat /\ ToldIn(S, h[n].ip, h[n].portno, h[n].vals[s])
    /\ h[n].conclusion \in Nat
    /\ h[n].conclusion # Unknown => ToldIn(S, h[n].ip, h[n].portno, h[n].conclusion)
Kept == \A n \in DOMAIN heap : KeptAt(heap, said, n)
Drawn ==
  \A t \in Threads : pc[t] = "write" =>
    read[t] \in Nat /\ (read[t] # Unknown => ToldIn(said, hand[t].ip, hand[t].portno, read[t]))

ToldInv == Handed /\ Kept /\ Drawn

(* What says that a port is open says so of an open port: the packets on   *)
(* their way, and what has been told.                                      *)
IsOpen(ip, port) == Truth(ip, port) = "open"
Packets == \A p \in net : (p.proto = "tcp" /\ p.says = "synack") \/ p.proto = "udp" =>
                            IsOpen(p.ip, p.portno)
True(r)  == r.val = R_OPEN => IsOpen(r.ip, r.portno)

OpenInv == mode = "threaded" => Packets /\ \A r \in said : True(r)

-----------------------------------------------------------------------------
(* The walk along a list                                                   *)

LEMMA LeastExists ==
  ASSUME NEW T \in SUBSET Nat, T # {} PROVE \E x \in T : \A y \in T : x <= y
<1>1. PICK m \in T : \A y \in T : <<y, m>> \notin OpToRel(<, Nat)
  BY WFMin, NatLessThanWellFounded, Zenon
<1>2. \A y \in T : ~(y < m)
  BY <1>1, Zenon DEF OpToRel
<1>3. m \in Nat /\ \A y \in T : y \in Nat
  OBVIOUS
<1>4. \A y \in T : m <= y
  BY <1>2, <1>3
<1> QED BY <1>4

LEMMA MinIn ==
  ASSUME NEW T \in SUBSET Nat, T # {} PROVE Min(T) \in T /\ \A y \in T : Min(T) <= y
<1>1. \E x \in T : \A y \in T : x <= y
  BY LeastExists
<1> QED BY <1>1 DEF Min

(* The walk of k steps, from the walk of one step less.                    *)
Longer(k, w) ==
  [m \in 0 .. Len(heap) |-> IF k = 0 \/ m = 0 THEN <<>> ELSE <<m>> \o w[heap[m].next]]

(* The recursion has a solution, so that Walk is one.                      *)
LEMMA WalkStep ==
  ASSUME Len(heap) \in Nat
  PROVE  \A k \in 0 .. Len(heap) : Walk[k] = Longer(k, Walk[k - 1])
<1> DEFINE L == Len(heap)
           Sol(g, K) == g = [k \in 0 .. K |-> Longer(k, g[k - 1])]
           T == {K \in 0 .. L : ~\E g : Sol(g, K)}
<1>a. \A v, w : Longer(0, v) = Longer(0, w)
  BY DEF Longer
<1> HIDE DEF L
<1>l. L \in Nat
  BY DEF L
<1>1. T = {}
  <2> SUFFICES ASSUME T # {} PROVE FALSE
    OBVIOUS
  <2>1. T \in SUBSET Nat
    BY <1>l
  <2> HIDE DEF T
  <2>2. PICK K \in T : \A y \in T : K <= y
    BY <2>1, LeastExists
  <2>3. K \in 0 .. L /\ ~\E g : Sol(g, K)
    BY <2>2 DEF T
  <2>4. CASE K = 0
    <3> DEFINE g == [k \in 0 .. 0 |-> Longer(0, 0)]
    <3>1. Sol(g, 0)
      <4>1. \A k \in 0 .. 0 : Longer(k, g[k - 1]) = Longer(0, 0)
        BY <1>a
      <4> HIDE DEF Longer
      <4> QED BY <4>1
    <3> HIDE DEF Sol
    <3> QED BY <2>3, <2>4, <3>1
  <2>5. CASE K # 0
    <3>1. K - 1 \in 0 .. L /\ ~(K <= K - 1) /\ K \in Nat
      BY <1>l, <2>3, <2>5
    <3>2. K - 1 \notin T
      BY <2>2, <3>1
    <3>3. \E g : Sol(g, K - 1)
      BY <3>1, <3>2 DEF T
    <3> HIDE DEF Sol
    <3>4. PICK g : Sol(g, K - 1)
      BY <3>3
    <3>5. g = [k \in 0 .. K - 1 |-> Longer(k, g[k - 1])]
      BY <3>4 DEF Sol
    <3> DEFINE h == [k \in 0 .. K |-> IF k = K THEN Longer(K, g[K - 1]) ELSE g[k]]
    <3>6. ASSUME NEW k \in 0 .. K PROVE h[k] = Longer(k, h[k - 1])
      <4>1. CASE k = K
        <5>1. K - 1 \in 0 .. K /\ K - 1 # K
          BY <3>1
        <5>2. h[K - 1] = g[K - 1]
          BY <5>1
        <5>3. h[K] = Longer(K, g[K - 1])
          BY <3>1
        <5> QED BY <4>1, <5>2, <5>3
      <4>2. CASE k # K
        <5>1. k \in 0 .. K - 1
          BY <3>1, <4>2
        <5>2. h[k] = g[k]
          BY <4>2
        <5>3. g[k] = Longer(k, g[k - 1])
          <6> HIDE DEF h
          <6> QED BY <3>5, <5>1
        <5>4. CASE k = 0
          <6> HIDE DEF h
          <6> QED BY <1>a, <5>2, <5>3, <5>4
        <5>5. CASE k # 0
          <6>1. k - 1 \in 0 .. K /\ k - 1 # K
            BY <3>1, <5>1, <5>5
          <6>2. h[k - 1] = g[k - 1]
            BY <6>1
          <6> HIDE DEF h
          <6> QED BY <5>2, <5>3, <6>2
        <5> QED BY <5>4, <5>5
      <4> QED BY <4>1, <4>2
    <3>7. h = [k \in 0 .. K |-> h[k]]
      OBVIOUS
    <3> HIDE DEF h
    <3>8. Sol(h, K)
      BY <3>6, <3>7 DEF Sol
    <3> QED BY <2>3, <3>8
  <2> QED BY <2>4, <2>5
<1>2. \E g : Sol(g, L)
  <2>1. L \in 0 .. L /\ L \notin T
    BY <1>1, <1>l
  <2> QED BY <2>1 DEF T
<1>3. Walk = CHOOSE g : g = [k \in 0 .. L |-> Longer(k, g[k - 1])]
  BY DEF Walk, Longer, L
<1>4. Walk = [k \in 0 .. L |-> Longer(k, Walk[k - 1])]
  BY <1>2, <1>3 DEF Sol
<1> HIDE DEF Sol, T
<1>5. \A k \in 0 .. L : Walk[k] = Longer(k, Walk[k - 1])
  BY <1>4
<1> QED BY <1>5 DEF L


(* The nodes of a list.                                                    *)
ListOf(l) == {n \in 1 .. Len(heap) : heap[n].list = l}

LEMMA HeapSize ==
  ASSUME Shape PROVE Len(heap) \in Nat /\ DOMAIN heap = 1 .. Len(heap)
BY DEF Shape, Nodes

(* However many steps it takes, the walk stays in its list.                *)
LEMMA WalkStays ==
  ASSUME Shape, Linked, NEW l
  PROVE  \A k, m \in 0 .. Len(heap) : (m # 0 => heap[m].list = l) => Walk[k][m] \in Seq(ListOf(l))
<1> DEFINE L == Len(heap)
           S == ListOf(l)
           Good(k) == \A m \in 0 .. L : (m # 0 => heap[m].list = l) => Walk[k][m] \in Seq(S)
           T == {k \in 0 .. L : ~Good(k)}
<1>1. L \in Nat /\ DOMAIN heap = 1 .. L
  BY HeapSize
<1>2. \A m \in 1 .. L : heap[m].list = l => m \in S
  BY DEF ListOf
<1>3. \A m \in 1 .. L : heap[m].next \in 0 .. L /\ (heap[m].next # 0 => heap[heap[m].next].list = heap[m].list)
  <2> TAKE m \in 1 .. L
  <2>1. heap[m].next \in 0 .. m - 1 /\ (heap[m].next # 0 => heap[heap[m].next].list = heap[m].list)
    BY <1>1 DEF Linked
  <2> QED BY <2>1, <1>1
<1>4. \A k \in 0 .. L : Walk[k] = Longer(k, Walk[k - 1])
  BY <1>1, WalkStep
<1>5. \A k, m \in 0 .. L : Walk[k][m] = IF k = 0 \/ m = 0 THEN <<>> ELSE <<m>> \o Walk[k - 1][heap[m].next]
  BY <1>4 DEF Longer
<1> HIDE DEF L, S
<1>6. T = {}
  <2> SUFFICES ASSUME T # {} PROVE FALSE
    OBVIOUS
  <2>1. T \in SUBSET Nat
    BY <1>1
  <2> HIDE DEF T
  <2>2. PICK k \in T : \A y \in T : k <= y
    BY <2>1, LeastExists
  <2>3. k \in 0 .. L /\ ~Good(k)
    BY <2>2 DEF T
  <2>4. PICK m \in 0 .. L : (m # 0 => heap[m].list = l) /\ Walk[k][m] \notin Seq(S)
    BY <2>3
  <2>5. <<>> \in Seq(S)
    BY EmptySeq
  <2>6. k # 0 /\ m # 0
    BY <1>5, <2>3, <2>4, <2>5
  <2>7. m \in 1 .. L /\ m \in S
    BY <1>1, <1>2, <2>4, <2>6
  <2>8. k - 1 \in 0 .. L /\ ~(k <= k - 1)
    BY <1>1, <2>3, <2>6
  <2>9. Good(k - 1)
    BY <2>2, <2>8 DEF T
  <2>10. heap[m].next \in 0 .. L /\ (heap[m].next # 0 => heap[heap[m].next].list = l)
    BY <1>3, <2>4, <2>6, <2>7
  <2>11. Walk[k - 1][heap[m].next] \in Seq(S)
    BY <2>9, <2>10
  <2> DEFINE w == Walk[k - 1][heap[m].next]
  <2>12. Walk[k][m] = <<m>> \o w
    BY <1>5, <2>3, <2>4, <2>6
  <2> HIDE DEF w
  <2>13. <<m>> \in Seq(S) /\ w \in Seq(S)
    BY <2>7, <2>11 DEF w
  <2>14. <<m>> \o w \in Seq(S)
    BY <2>13, ConcatProperties
  <2> QED BY <2>4, <2>12, <2>14
<1>7. \A k \in 0 .. L : Good(k)
  BY <1>6
<1> QED BY <1>7 DEF L, S

(* From a node on, as many steps as there are nodes before it are enough   *)
(* to come to the end.                                                     *)
LEMMA WalkEnds ==
  ASSUME Shape, Linked
  PROVE  \A k \in 0 .. Len(heap), m \in 1 .. Len(heap) : m <= k =>
           LET w == Walk[k][m] IN w # <<>> /\ heap[w[Len(w)]].next = 0
<1> DEFINE L == Len(heap)
           Fine(w) == w # <<>> /\ heap[w[Len(w)]].next = 0
           Good(k) == \A m \in 1 .. L : m <= k => Fine(Walk[k][m])
           T == {k \in 0 .. L : ~Good(k)}
<1>1. L \in Nat /\ DOMAIN heap = 1 .. L
  BY HeapSize
<1>3. \A m \in 1 .. L : heap[m].next \in 0 .. m - 1
  BY <1>1 DEF Linked
<1>4. \A k \in 0 .. L : Walk[k] = Longer(k, Walk[k - 1])
  BY <1>1, WalkStep
<1>5. \A k, m \in 0 .. L : Walk[k][m] = IF k = 0 \/ m = 0 THEN <<>> ELSE <<m>> \o Walk[k - 1][heap[m].next]
  BY <1>4 DEF Longer
<1>6. \A k, m \in 0 .. L : Walk[k][m] \in Seq(1 .. L)
  <2> TAKE k, m \in 0 .. L
  <2>1. CASE m = 0
    BY <1>5, <2>1, EmptySeq
  <2>2. CASE m # 0
    <3>1. Walk[k][m] \in Seq(ListOf(heap[m].list))
      BY <2>2, WalkStays
    <3>2. ListOf(heap[m].list) \subseteq 1 .. L
      BY DEF ListOf
    <3> QED BY <3>1, <3>2, SeqMonotonic
  <2> QED BY <2>1, <2>2
<1> HIDE DEF L, Fine
<1>7. T = {}
  <2> SUFFICES ASSUME T # {} PROVE FALSE
    OBVIOUS
  <2>1. T \in SUBSET Nat
    BY <1>1
  <2> HIDE DEF T
  <2>2. PICK k \in T : \A y \in T : k <= y
    BY <2>1, LeastExists
  <2>3. k \in 0 .. L /\ ~Good(k)
    BY <2>2 DEF T
  <2>4. PICK m \in 1 .. L : m <= k /\ ~Fine(Walk[k][m])
    BY <2>3
  <2>5. k # 0 /\ m # 0 /\ m \in 0 .. L /\ k - 1 \in 0 .. L /\ ~(k <= k - 1)
    BY <1>1, <2>3, <2>4
  <2>6. Good(k - 1)
    BY <2>2, <2>5 DEF T
  <2> DEFINE x == heap[m].next
             w == Walk[k - 1][x]
  <2>7. x \in 0 .. m - 1
    BY <1>3
  <2>8. Walk[k][m] = <<m>> \o w
    BY <1>5, <2>3, <2>5
  <2> HIDE DEF x
  <2>9. x \in 0 .. L /\ x <= k - 1
    BY <1>1, <2>3, <2>4, <2>7
  <2>10. w \in Seq(1 .. L)
    BY <1>6, <2>5, <2>9
  <2>11. CASE x = 0
    <3>1. w = <<>>
      BY <1>1, <1>5, <2>5, <2>9, <2>11
    <3>2. Walk[k][m] = <<m>>
      BY <2>8, <3>1, <2>4, ConcatEmptySeq
    <3>3. Fine(<<m>>)
      BY <2>11 DEF Fine, x
    <3> QED BY <2>4, <3>2, <3>3
  <2>12. CASE x # 0
    <3>1. x \in 1 .. L
      BY <1>1, <2>9, <2>12
    <3>2. Fine(w)
      BY <2>6, <2>9, <3>1
    <3> HIDE DEF w
    <3>3. w # <<>> /\ heap[w[Len(w)]].next = 0
      BY <3>2 DEF Fine
    <3> DEFINE v == <<m>> \o w
    <3>4. <<m>> \in Seq(1 .. L) /\ Len(<<m>>) = 1
      OBVIOUS
    <3>5. /\ v \in Seq(1 .. L) /\ Len(v) = Len(<<m>>) + Len(w)
          /\ \A i \in 1 .. Len(<<m>>) + Len(w) : v[i] = IF i <= Len(<<m>>) THEN <<m>>[i] ELSE w[i - Len(<<m>>)]
      BY <2>10, <3>4, ConcatProperties
    <3> HIDE DEF v
    <3>6. Len(w) \in Nat /\ Len(w) # 0
      BY <2>10, <3>3, EmptySeq
    <3>7. Len(v) = Len(w) + 1 /\ v[Len(v)] = w[Len(w)]
      BY <3>4, <3>5, <3>6
    <3>8. v # <<>>
      BY <3>5, <3>6, <3>7
    <3>9. Fine(v)
      BY <3>3, <3>7, <3>8 DEF Fine
    <3> QED BY <2>4, <2>8, <3>9 DEF v
  <2> QED BY <2>11, <2>12
<1>8. \A k \in 0 .. L : Good(k)
  BY <1>7
<1> QED BY <1>8 DEF L, Fine


(* The walk from the top of a list stays in it and comes to its end.       *)
LEMMA WalksEnd == ListInv => ListsLinked
<1> SUFFICES ASSUME ListInv, NEW l \in {"result", "version"}
             PROVE  /\ \A i \in DOMAIN Chain(top[l]) : heap[Chain(top[l])[i]].list = l
                    /\ Chain(top[l]) # <<>> => heap[Last(Chain(top[l]))].next = 0
  BY DEF ListsLinked
<1>1. Shape /\ Linked
  BY DEF ListInv
<1>2. Len(heap) \in Nat /\ top[l] \in 0 .. Len(heap) /\ (top[l] # 0 => heap[top[l]].list = l)
  BY <1>1, HeapSize DEF Linked, ListNames
<1> DEFINE c == Chain(top[l])
<1>3. c = Walk[Len(heap)][top[l]]
  BY DEF Chain
<1>4. c \in Seq(ListOf(l))
  BY <1>1, <1>2, <1>3, WalkStays
<1>5. top[l] = 0 => c = <<>>
  <2> HAVE top[l] = 0
  <2>1. Walk[Len(heap)] = Longer(Len(heap), Walk[Len(heap) - 1])
    BY <1>2, WalkStep
  <2>2. 0 \in 0 .. Len(heap)
    BY <1>2
  <2>3. Walk[Len(heap)][0] = <<>>
    BY <2>1, <2>2 DEF Longer
  <2> QED BY <1>3, <2>3
<1>6. c # <<>> => heap[c[Len(c)]].next = 0
  <2> HAVE c # <<>>
  <2>1. top[l] \in 1 .. Len(heap) /\ top[l] <= Len(heap)
    BY <1>2, <1>5
  <2> QED BY <1>1, <1>2, <1>3, <2>1, WalkEnds
<1> HIDE DEF c
<1>7. \A i \in DOMAIN c : heap[c[i]].list = l
  BY <1>4 DEF ListOf
<1>8. c # <<>> => heap[Last(c)].next = 0
  BY <1>6 DEF Last
<1> QED BY <1>7, <1>8 DEF c

-----------------------------------------------------------------------------
(* Both lists stay lists                                                   *)

LEMMA OwnRange ==
  ASSUME NEW S, NEW s \in Seq(S) PROVE s \in Seq(Own(s))
<1> DEFINE R == {s[i] : i \in DOMAIN s}
<1>1. Len(s) \in Nat /\ DOMAIN s = 1 .. Len(s) /\ s = [i \in 1 .. Len(s) |-> s[i]]
  OBVIOUS
<1>2. s \in [1 .. Len(s) -> R]
  BY <1>1
<1> HIDE DEF R
<1>3. s \in Seq(R)
  BY <1>1, <1>2, SeqDef
<1> QED BY <1>3 DEF R, Own

(* The same nodes, in the same place of the same lists.                    *)
SameNodes ==
  /\ Nodes'
  /\ Len(heap') = Len(heap) /\ DOMAIN heap' = DOMAIN heap
  /\ \A k \in DOMAIN heap :
       /\ heap'[k].list = heap[k].list /\ heap'[k].ip = heap[k].ip
       /\ heap'[k].portno = heap[k].portno /\ heap'[k].next = heap[k].next

Written(h, n, s, v) == [h EXCEPT ![n].vals[s] = v]

LEMMA ValWritten ==
  ASSUME Shape, NEW n \in DOMAIN heap, NEW s, NEW v, heap' = Written(heap, n, s, v), top' = top
  PROVE  /\ SameNodes
         /\ \A k \in DOMAIN heap :
              /\ heap'[k].conclusion = heap[k].conclusion
              /\ \A x \in ScanTypes :
                   heap'[k].vals[x] = heap[k].vals[x] \/ (k = n /\ x = s /\ heap'[k].vals[x] = v)
         /\ s \in ScanTypes => heap'[n].vals[s] = v
<1> DEFINE r == heap[n]
           new == [r EXCEPT !.vals = [r.vals EXCEPT ![s] = v]]
           S == Own(heap)
<1>0. heap \in Seq(S)
  BY DEF Shape, Nodes
<1>1. heap' = [heap EXCEPT ![n] = new]
  BY DEF Written
<1>2. r = [list |-> r.list, ip |-> r.ip, portno |-> r.portno, vals |-> r.vals,
           conclusion |-> r.conclusion, next |-> r.next]
      /\ r.vals = [x \in ScanTypes |-> r.vals[x]]
  BY DEF Shape, Nodes
<1> DEFINE vs == [r.vals EXCEPT ![s] = v]
<1>3. /\ vs = [x \in ScanTypes |-> vs[x]]
      /\ \A x \in ScanTypes : vs[x] = r.vals[x] \/ (x = s /\ vs[x] = v)
      /\ s \in ScanTypes => vs[s] = v
  <2> HIDE DEF r
  <2> QED BY <1>2
<1>4. new = [r EXCEPT !.vals = vs]
  OBVIOUS
<1> HIDE DEF new, r, vs
<1>5. /\ new.list = r.list /\ new.ip = r.ip /\ new.portno = r.portno /\ new.next = r.next
      /\ new.conclusion = r.conclusion /\ new.vals = vs
      /\ new = [list |-> new.list, ip |-> new.ip, portno |-> new.portno, vals |-> new.vals,
                conclusion |-> new.conclusion, next |-> new.next]
  BY <1>2, <1>4
<1> HIDE DEF S
<1>6. heap' \in Seq(S \cup {new}) /\ Len(heap') = Len(heap) /\ DOMAIN heap' = DOMAIN heap
  <2>1. heap \in Seq(S \cup {new})
    BY <1>0, SeqMonotonic
  <2> QED BY <1>1, <2>1
<1>7. heap' \in Seq(Own(heap'))
  BY <1>6, OwnRange
<1>8. heap'[n] = new /\ \A k \in DOMAIN heap : k # n => heap'[k] = heap[k]
  BY <1>0, <1>1
<1>9. \A k \in DOMAIN heap :
        /\ heap[k] = [list |-> heap[k].list, ip |-> heap[k].ip, portno |-> heap[k].portno,
                     vals |-> heap[k].vals, conclusion |-> heap[k].conclusion,
                     next |-> heap[k].next]
        /\ heap[k].vals = [x \in ScanTypes |-> heap[k].vals[x]]
  BY DEF Shape, Nodes
<1>10. Nodes'
  <2>1. ASSUME NEW k \in DOMAIN heap'
        PROVE  /\ heap'[k] = [list |-> heap'[k].list, ip |-> heap'[k].ip, portno |-> heap'[k].portno,
                     vals |-> heap'[k].vals, conclusion |-> heap'[k].conclusion,
                     next |-> heap'[k].next]
               /\ heap'[k].vals = [x \in ScanTypes |-> heap'[k].vals[x]]
    <3>1. CASE k = n
      BY <3>1, <1>3, <1>5, <1>8
    <3>2. CASE k # n
      <4>1. heap'[k] = heap[k] /\ k \in DOMAIN heap
        BY <1>6, <1>8, <3>2
      <4> QED BY <4>1, <1>9
    <3> QED BY <3>1, <3>2
  <2>2. top' \in [ListNames -> Nat]
    BY DEF Shape, Nodes
  <2> QED BY <1>7, <2>1, <2>2 DEF Nodes
<1>11. ASSUME NEW k \in DOMAIN heap
       PROVE  /\ heap'[k].list = heap[k].list /\ heap'[k].ip = heap[k].ip
              /\ heap'[k].portno = heap[k].portno /\ heap'[k].next = heap[k].next
              /\ heap'[k].conclusion = heap[k].conclusion
              /\ \A x \in ScanTypes :
                   heap'[k].vals[x] = heap[k].vals[x] \/ (k = n /\ x = s /\ heap'[k].vals[x] = v)
  <2>1. CASE k = n
    BY <2>1, <1>3, <1>5, <1>8 DEF r
  <2>2. CASE k # n
    BY <2>2, <1>8
  <2> QED BY <2>1, <2>2
<1>12. s \in ScanTypes => heap'[n].vals[s] = v
  BY <1>3, <1>5, <1>8
<1> QED BY <1>6, <1>10, <1>11, <1>12 DEF SameNodes

LEMMA ConclusionWritten ==
  ASSUME Shape, NEW n \in DOMAIN heap, NEW v, heap' = [heap EXCEPT ![n].conclusion = v], top' = top
  PROVE  /\ SameNodes
         /\ \A k \in DOMAIN heap :
              /\ heap'[k].vals = heap[k].vals
              /\ heap'[k].conclusion = heap[k].conclusion \/ (k = n /\ heap'[k].conclusion = v)
         /\ heap'[n].conclusion = v
<1> DEFINE r == heap[n]
           new == [r EXCEPT !.conclusion = v]
           S == Own(heap)
<1>0. heap \in Seq(S)
  BY DEF Shape, Nodes
<1>1. heap' = [heap EXCEPT ![n] = new]
  OBVIOUS
<1>2. r = [list |-> r.list, ip |-> r.ip, portno |-> r.portno, vals |-> r.vals,
           conclusion |-> r.conclusion, next |-> r.next]
      /\ r.vals = [x \in ScanTypes |-> r.vals[x]]
  BY DEF Shape, Nodes
<1> HIDE DEF r
<1>5. /\ new.list = r.list /\ new.ip = r.ip /\ new.portno = r.portno /\ new.next = r.next
      /\ new.conclusion = v /\ new.vals = r.vals
      /\ new = [list |-> new.list, ip |-> new.ip, portno |-> new.portno, vals |-> new.vals,
                conclusion |-> new.conclusion, next |-> new.next]
  BY <1>2
<1> HIDE DEF S, new
<1>6. heap' \in Seq(S \cup {new}) /\ Len(heap') = Len(heap) /\ DOMAIN heap' = DOMAIN heap
  <2>1. heap \in Seq(S \cup {new})
    BY <1>0, SeqMonotonic
  <2> QED BY <1>1, <2>1
<1>7. heap' \in Seq(Own(heap'))
  BY <1>6, OwnRange
<1>8. heap'[n] = new /\ \A k \in DOMAIN heap : k # n => heap'[k] = heap[k]
  BY <1>0, <1>1
<1>9. \A k \in DOMAIN heap :
        /\ heap[k] = [list |-> heap[k].list, ip |-> heap[k].ip, portno |-> heap[k].portno,
                     vals |-> heap[k].vals, conclusion |-> heap[k].conclusion,
                     next |-> heap[k].next]
        /\ heap[k].vals = [x \in ScanTypes |-> heap[k].vals[x]]
  BY DEF Shape, Nodes
<1>10. Nodes'
  <2>1. ASSUME NEW k \in DOMAIN heap'
        PROVE  /\ heap'[k] = [list |-> heap'[k].list, ip |-> heap'[k].ip, portno |-> heap'[k].portno,
                     vals |-> heap'[k].vals, conclusion |-> heap'[k].conclusion,
                     next |-> heap'[k].next]
               /\ heap'[k].vals = [x \in ScanTypes |-> heap'[k].vals[x]]
    <3>1. CASE k = n
      BY <3>1, <1>2, <1>5, <1>8
    <3>2. CASE k # n
      <4>1. heap'[k] = heap[k] /\ k \in DOMAIN heap
        BY <1>6, <1>8, <3>2
      <4> QED BY <4>1, <1>9
    <3> QED BY <3>1, <3>2
  <2>2. top' \in [ListNames -> Nat]
    BY DEF Shape, Nodes
  <2> QED BY <1>7, <2>1, <2>2 DEF Nodes
<1>11. ASSUME NEW k \in DOMAIN heap
       PROVE  /\ heap'[k].list = heap[k].list /\ heap'[k].ip = heap[k].ip
              /\ heap'[k].portno = heap[k].portno /\ heap'[k].next = heap[k].next
              /\ heap'[k].vals = heap[k].vals
              /\ heap'[k].conclusion = heap[k].conclusion \/ (k = n /\ heap'[k].conclusion = v)
  <2>1. CASE k = n
    BY <2>1, <1>5, <1>8 DEF r
  <2>2. CASE k # n
    BY <2>2, <1>8
  <2> QED BY <2>1, <2>2
<1>12. heap'[n].conclusion = v
  BY <1>5, <1>8
<1> QED BY <1>6, <1>10, <1>11, <1>12 DEF SameNodes


(* A step of thread t leaves the locals of the others alone.               *)
Turn(t) ==
  /\ Locals'
  /\ \A u \in Threads : u # t =>
       /\ pc'[u] = pc[u] /\ hand'[u] = hand[u] /\ node'[u] = node[u]
       /\ read'[u] = read[u] /\ round'[u] = round[u]

LEMMA FinishedTurn ==
  ASSUME Locals, NEW t \in Threads, Finished(t), UNCHANGED <<read, round>>
  PROVE  Turn(t) /\ pc'[t] = "get"
BY DEF Finished, Goto, Locals, Turn

LEMMA GotoTurn ==
  ASSUME Locals, NEW t \in Threads, NEW l, Goto(t, l),
         job' = job \/ (\E j : job' = [job EXCEPT ![t] = j]),
         hand' = hand \/ (\E r : hand' = [hand EXCEPT ![t] = r]),
         node' = node \/ (\E n : node' = [node EXCEPT ![t] = n]),
         read' = read \/ (\E v : read' = [read EXCEPT ![t] = v]),
         round' = round \/ (\E k \in ScanTypes : round' = [round EXCEPT ![t] = k])
  PROVE  Turn(t) /\ pc'[t] = l
<1>1. job' = [u \in Threads |-> job'[u]]
  BY DEF Locals
<1>2. hand' = [u \in Threads |-> hand'[u]] /\ \A u \in Threads : u # t => hand'[u] = hand[u]
  BY DEF Locals
<1>3. node' = [u \in Threads |-> node'[u]] /\ \A u \in Threads : u # t => node'[u] = node[u]
  BY DEF Locals
<1>4. read' = [u \in Threads |-> read'[u]] /\ \A u \in Threads : u # t => read'[u] = read[u]
  BY DEF Locals
<1>5. pc' = [u \in Threads |-> pc'[u]] /\ pc'[t] = l /\ \A u \in Threads : u # t => pc'[u] = pc[u]
  BY DEF Locals, Goto
<1>6. round' \in [Threads -> ScanTypes] /\ \A u \in Threads : u # t => round'[u] = round[u]
  BY DEF Locals
<1> QED BY <1>1, <1>2, <1>3, <1>4, <1>5, <1>6 DEF Turn, Locals

(* The next round, or the end of the loop.                                 *)
LEMMA RoundTurn ==
  ASSUME Locals, NEW t \in Threads, NextRound(t), UNCHANGED <<job, hand, node>>,
         read' = read \/ (\E v : read' = [read EXCEPT ![t] = v])
  PROVE  /\ Turn(t)
         /\ \/ round[t] = UDP_SCAN /\ pc'[t] = "version"
            \/ round[t] # UDP_SCAN /\ round'[t] = round[t] + 1 /\ pc'[t] = "conclude"
<1>1. round \in [Threads -> ScanTypes] /\ round[t] \in ScanTypes
  BY DEF Locals
<1>2. CASE round[t] = UDP_SCAN
  <2>1. round' = [round EXCEPT ![t] = 0] /\ Goto(t, "version") /\ 0 \in ScanTypes
    BY <1>2 DEF NextRound, ScanTypes
  <2> QED BY <1>2, <2>1, GotoTurn
<1>3. CASE round[t] # UDP_SCAN
  <2>1. round' = [round EXCEPT ![t] = round[t] + 1] /\ Goto(t, "conclude")
    BY <1>3 DEF NextRound
  <2>2. round[t] + 1 \in ScanTypes
    BY <1>1, <1>3 DEF ScanTypes, UDP_SCAN
  <2>3. Turn(t) /\ pc'[t] = "conclude"
    BY <2>1, <2>2, GotoTurn
  <2>4. round'[t] = round[t] + 1
    BY <1>1, <2>1
  <2> QED BY <1>3, <2>3, <2>4
<1> QED BY <1>2, <1>3

(* A result is handed over: the thread goes on to search its list.         *)
LEMMA SayTurn ==
  ASSUME Locals, NEW t \in Threads, NEW port, NEW val, Say(t, port, val), UNCHANGED <<job, node, round, read>>
  PROVE  /\ Turn(t) /\ pc'[t] = "search"
         /\ hand'[t] = Record("result", job[t].ip, port, job[t].scan_type, val)
<1> DEFINE r == Record("result", job[t].ip, port, job[t].scan_type, val)
<1>1. hand' = [hand EXCEPT ![t] = r] /\ Goto(t, "search")
  BY DEF Say
<1> HIDE DEF r
<1>2. Turn(t) /\ pc'[t] = "search"
  BY <1>1, GotoTurn
<1>3. hand'[t] = r
  BY <1>1 DEF Locals
<1> QED BY <1>2, <1>3 DEF r

(* What a thread does between two pushes.                                  *)
Probing(t) ==
  \/ get_next_job(t) \/ SendProbe(t) \/ Receive(t) \/ Disturb(t) \/ VersionCheck(t) \/ version_detection(t)

(* It touches neither list, and goes on to a push with a record.           *)
ProbeEffect(t) ==
  /\ Turn(t)
  /\ pc'[t] \notin AtNode \cup {"new"}
  /\ pc'[t] = "search" => hand'[t].list \in ListNames

LEMMA GivesUpEffect ==
  ASSUME Locals, NEW t \in Threads, GiveUpOrRetry(t), UNCHANGED <<job, node, round, read>>
  PROVE  ProbeEffect(t)
<1>1. CASE Say(t, job[t].portno, TimeoutVerdict(job[t].scan_type))
  <2> DEFINE port == job[t].portno
             v == TimeoutVerdict(job[t].scan_type)
  <2>1. Say(t, port, v)
    BY <1>1
  <2> HIDE DEF port, v
  <2>2. /\ Turn(t) /\ pc'[t] = "search"
        /\ hand'[t] = Record("result", job[t].ip, port, job[t].scan_type, v)
    BY <2>1, SayTurn
  <2> QED BY <2>2 DEF ProbeEffect, Record, ListNames, AtNode
<1>2. CASE Goto(t, "send") /\ UNCHANGED hand
  <2>1. Turn(t) /\ pc'[t] = "send"
    BY <1>2, GotoTurn
  <2> QED BY <2>1 DEF ProbeEffect, AtNode
<1> QED BY <1>1, <1>2 DEF GiveUpOrRetry

LEMMA PacketEffect ==
  ASSUME Locals, NEW t \in Threads, NEW p, got_packet(t, p), UNCHANGED <<job, node, round, read>>
  PROVE  ProbeEffect(t)
<1>1. ASSUME NEW port, NEW v, Say(t, port, v) PROVE ProbeEffect(t)
  <2>2. /\ Turn(t) /\ pc'[t] = "search"
        /\ hand'[t] = Record("result", job[t].ip, port, job[t].scan_type, v)
    BY <1>1, SayTurn
  <2> QED BY <2>2 DEF ProbeEffect, Record, ListNames, AtNode
<1>2. CASE Goto(t, "version") /\ UNCHANGED hand
  <2>1. Turn(t) /\ pc'[t] = "version"
    BY <1>2, GotoTurn
  <2> QED BY <2>1 DEF ProbeEffect, AtNode
<1> QED BY <1>1, <1>2 DEF got_packet

LEMMA ProbingEffect ==
  ASSUME Locals, NEW t \in Threads, Probing(t)
  PROVE  ProbeEffect(t) /\ UNCHANGED <<heap, top, mode, main>>
<1>0. UNCHANGED <<heap, top, mode, main>>
  BY DEF Probing, get_next_job, SendProbe, Receive, Disturb, VersionCheck, version_detection, GotPacket,
     PollTimeout, DispatchPacket, DispatchBreak, DispatchNothing, StrayPacket, PollError, GotUseless, DispatchForeign, Polling,
     config, lists
<1> SUFFICES ProbeEffect(t)
  BY <1>0
<1>1. ASSUME NEW l, Goto(t, l), l \in {"send", "exit", "poll", "version", "detect"},
             UNCHANGED <<hand, node, round, read>>, job' = job \/ (\E j : job' = [job EXCEPT ![t] = j])
      PROVE  ProbeEffect(t)
  <2>1. Turn(t) /\ pc'[t] = l
    BY <1>1, GotoTurn
  <2> QED BY <1>1, <2>1 DEF ProbeEffect, AtNode
<1>2. CASE get_next_job(t)
  BY <1>1, <1>2 DEF get_next_job
<1>3. CASE SendProbe(t)
  BY <1>1, <1>3 DEF SendProbe
<1>4. CASE GotPacket(t) \/ GotUseless(t) \/ DispatchPacket(t) \/ DispatchForeign(t)
  BY <1>4, PacketEffect DEF GotPacket, GotUseless, DispatchPacket, DispatchForeign, Polling
<1>5. CASE PollTimeout(t) \/ DispatchBreak(t) \/ PollError(t)
  BY <1>5, GivesUpEffect DEF PollTimeout, DispatchBreak, PollError, Polling
<1>6. CASE StrayPacket(t)
  <2>1. CASE GiveUpOrRetry(t)
    BY <1>6, <2>1, GivesUpEffect DEF StrayPacket, Polling
  <2>2. CASE UNCHANGED <<pc, hand>>
    BY <1>6, <2>2 DEF StrayPacket, Polling, ProbeEffect, Turn, Locals, AtNode
  <2> QED BY <1>6, <2>1, <2>2 DEF StrayPacket
<1>7. ASSUME Finished(t), UNCHANGED <<read, round>> PROVE ProbeEffect(t)
  <2>1. Turn(t) /\ pc'[t] = "get"
    BY <1>7, FinishedTurn
  <2> QED BY <2>1 DEF ProbeEffect, AtNode
<1>8. CASE VersionCheck(t)
  BY <1>1, <1>7, <1>8 DEF VersionCheck
<1>9. CASE version_detection(t)
  <2>1. CASE Finished(t)
    BY <1>7, <1>9, <2>1 DEF version_detection
  <2>2. ASSUME NEW v, hand' = [hand EXCEPT ![t] = Record("version", job[t].ip, job[t].portno, Service(job[t].portno) - 1, v)],
               Goto(t, "search"), UNCHANGED <<job, node, round, read>>
        PROVE  ProbeEffect(t)
    <3> DEFINE r == Record("version", job[t].ip, job[t].portno, Service(job[t].portno) - 1, v)
    <3>1. hand' = [hand EXCEPT ![t] = r]
      BY <2>2
    <3>2. r.list \in ListNames
      BY DEF Record, ListNames
    <3> HIDE DEF r
    <3>3. Turn(t) /\ pc'[t] = "search"
      BY <2>2, <3>1, GotoTurn
    <3>4. hand'[t] = r
      BY <3>1 DEF Locals
    <3> QED BY <3>2, <3>3, <3>4 DEF ProbeEffect, AtNode
  <2> QED BY <1>9, <2>1, <2>2 DEF version_detection
<1>10. CASE DispatchNothing(t)
  BY <1>1, <1>10 DEF DispatchNothing, Polling
<1> QED
  BY <1>2, <1>3, <1>4, <1>5, <1>6, <1>8, <1>9, <1>10 DEF Probing, Receive, Disturb


LEMMA WorkersAreThreads == Workers \subseteq Threads
BY ThreadsAssumption DEF Workers

(* One thread's step keeps the lists when it keeps the nodes and what they *)
(* are for, and leaves the thread with a node for its record.              *)
LEMMA TurnLists ==
  ASSUME ListInv, NEW t \in Workers, main = "scan", UNCHANGED <<mode, main>>, Turn(t), Nodes', Linked',
         \A n, r : For(heap, n, r) => For(heap', n, r),
         pc'[t] \in InPush => hand'[t].list \in ListNames,
         pc'[t] \in AtNode => For(heap', node'[t], hand'[t])
  PROVE  ListInv'
<1>0. t \in Threads /\ Workers' = Workers
  BY WorkersAreThreads DEF Workers
<1>1. Shape'
  BY DEF Shape, Turn
<1>2. Resting'
  BY <1>0 DEF ListInv, Resting, Turn
<1>3. ASSUME NEW u \in Threads
      PROVE  /\ pc'[u] \in InPush => hand'[u].list \in ListNames
             /\ pc'[u] \in AtNode => For(heap', node'[u], hand'[u])
  <2>1. CASE u = t
    BY <2>1
  <2>2. CASE u # t
    <3>1. pc'[u] = pc[u] /\ hand'[u] = hand[u] /\ node'[u] = node[u]
      BY <2>2 DEF Turn
    <3>2. /\ pc[u] \in InPush => hand[u].list \in ListNames
          /\ pc[u] \in AtNode => For(heap, node[u], hand[u])
      BY DEF ListInv, Mine
    <3> QED BY <3>1, <3>2
  <2> QED BY <2>1, <2>2
<1>4. Mine'
  BY <1>3 DEF Mine
<1> QED BY <1>1, <1>2, <1>4 DEF ListInv

LEMMA SameNodesKept ==
  ASSUME Shape, Linked, SameNodes, top' = top
  PROVE  Nodes' /\ Linked' /\ \A n, r : For(heap, n, r) => For(heap', n, r)
<1>1. \A n, r : For(heap, n, r) => For(heap', n, r)
  BY DEF SameNodes, For
<1>2. Len(heap) \in Nat /\ DOMAIN heap = 1 .. Len(heap) /\ Len(heap') = Len(heap) /\ DOMAIN heap' = DOMAIN heap
  BY HeapSize DEF SameNodes
<1>3. \A l \in ListNames : top'[l] \in 0 .. Len(heap') /\ (top'[l] # 0 => heap'[top'[l]].list = l)
  <2> TAKE l \in ListNames
  <2>1. top[l] \in 0 .. Len(heap) /\ (top[l] # 0 => heap[top[l]].list = l)
    BY DEF Linked
  <2>2. top[l] # 0 => top[l] \in DOMAIN heap
    BY <1>2, <2>1
  <2> QED BY <1>2, <2>1, <2>2 DEF SameNodes
<1>4. ASSUME NEW n \in DOMAIN heap'
      PROVE  /\ heap'[n].list \in ListNames
             /\ heap'[n].next \in 0 .. n - 1
             /\ heap'[n].next # 0 => heap'[heap'[n].next].list = heap'[n].list
  <2>0. n \in DOMAIN heap
    BY <1>2
  <2>1. /\ heap[n].list \in ListNames /\ heap[n].next \in 0 .. n - 1
        /\ heap[n].next # 0 => heap[heap[n].next].list = heap[n].list
    BY <2>0 DEF Linked
  <2>2. heap[n].next # 0 => heap[n].next \in DOMAIN heap
    BY <1>2, <2>0, <2>1
  <2>3. heap'[n].list = heap[n].list /\ heap'[n].next = heap[n].next
    BY <2>0 DEF SameNodes
  <2> QED BY <2>1, <2>2, <2>3 DEF SameNodes
<1>5. Linked'
  BY <1>3, <1>4 DEF Linked
<1> QED BY <1>1, <1>5 DEF SameNodes

LEMMA QuietNodes ==
  ASSUME Shape, Linked, UNCHANGED <<heap, top>>
  PROVE  Nodes' /\ Linked' /\ \A n, r : For(heap, n, r) => For(heap', n, r)
<1>1. Nodes'
  BY DEF Shape, Nodes
<1>2. Linked'
  BY DEF Linked
<1> QED BY <1>1, <1>2

(* The node a search ends with is one for the record.                      *)
LEMMA SearchFinds ==
  ASSUME Shape, Linked, NEW t \in Threads, hand[t].list \in ListNames, PushSearch(t)
  PROVE  /\ Turn(t) /\ pc'[t] \in {"new", "update"} /\ UNCHANGED <<hand, heap, top, round, read>>
         /\ pc'[t] = "update" => For(heap, node'[t], hand[t])
         /\ pc'[t] = "new" => \A i \in DOMAIN Chain(top[hand[t].list]) :
                                ~Same(Chain(top[hand[t].list])[i], hand[t])
<1> DEFINE l == hand[t].list
           c == Chain(top[l])
           hits == {i \in DOMAIN c : Same(c[i], hand[t])}
<1>0. UNCHANGED <<job, hand, round, read, heap, top>> /\ Locals
  BY DEF PushSearch, Shape
<1>1. c \in Seq(ListOf(l))
  <2>1. Len(heap) \in Nat /\ top[l] \in 0 .. Len(heap) /\ (top[l] # 0 => heap[top[l]].list = l)
    BY HeapSize DEF Linked
  <2> QED BY <2>1, WalkStays DEF Chain
<1>2. \/ hits = {} /\ Goto(t, "new") /\ UNCHANGED node
      \/ hits # {} /\ node' = [node EXCEPT ![t] = c[Min(hits)]] /\ Goto(t, "update")
  BY DEF PushSearch
<1>3. hits \in SUBSET Nat
  <2> HIDE DEF c
  <2> QED BY <1>1
<1> HIDE DEF c
<1>4. CASE hits = {} /\ Goto(t, "new") /\ UNCHANGED node
  <2>1. Turn(t) /\ pc'[t] = "new"
    BY <1>0, <1>4, GotoTurn
  <2>2. \A i \in DOMAIN c : ~Same(c[i], hand[t])
    BY <1>4
  <2> QED BY <1>0, <2>1, <2>2 DEF c, l
<1>5. CASE hits # {} /\ node' = [node EXCEPT ![t] = c[Min(hits)]] /\ Goto(t, "update")
  <2> DEFINE n == c[Min(hits)]
  <2>1. Min(hits) \in hits
    BY <1>3, <1>5, MinIn
  <2>2. Min(hits) \in DOMAIN c /\ Same(n, hand[t])
    BY <2>1
  <2>3. n \in ListOf(l)
    <3> HIDE DEF hits
    <3> QED BY <1>1, <2>2
  <2>4. node' = [node EXCEPT ![t] = n]
    BY <1>5
  <2> HIDE DEF n, hits
  <2>5. Turn(t) /\ pc'[t] = "update"
    BY <1>0, <1>5, <2>4, GotoTurn
  <2>6. node'[t] = n
    BY <1>0, <2>4 DEF Locals
  <2>7. For(heap, n, hand[t])
    BY <2>2, <2>3, HeapSize DEF For, Same, ListOf
  <2> QED BY <1>0, <2>5, <2>6, <2>7
<1> QED BY <1>2, <1>4, <1>5

(* A new node is the last one and points to the top of its list.           *)
LEMMA NewNode ==
  ASSUME Shape, Linked, NEW t \in Threads, hand[t].list \in ListNames, PushNew(t)
  PROVE  /\ Turn(t) /\ pc'[t] = "link" /\ UNCHANGED <<hand, top, round, read>>
         /\ Nodes' /\ Linked' /\ For(heap', node'[t], hand[t])
         /\ DOMAIN heap \subseteq DOMAIN heap' /\ \A n \in DOMAIN heap : heap'[n] = heap[n]
         /\ \A n \in DOMAIN heap' \ DOMAIN heap :
              heap'[n].conclusion = Unknown /\ heap'[n].list = hand[t].list
              /\ \A s \in ScanTypes : heap'[n].vals[s] = Empty(hand[t].list)
              /\ n = node'[t]
         /\ node'[t] = Len(heap') /\ Len(heap') = Len(heap) + 1 /\ heap'[node'[t]].next = top[hand[t].list]
<1> DEFINE r == hand[t]
           new == [list |-> r.list, ip |-> r.ip, portno |-> r.portno,
                   vals |-> [s \in ScanTypes |-> Empty(r.list)],
                   conclusion |-> Unknown, next |-> top[r.list]]
           L == Len(heap)
<1>0. /\ heap' = Append(heap, new) /\ node' = [node EXCEPT ![t] = Len(heap')] /\ Goto(t, "link")
      /\ UNCHANGED <<job, hand, round, read, top>> /\ Locals
  BY DEF PushNew, Shape
<1>1. L \in Nat /\ DOMAIN heap = 1 .. L /\ heap \in Seq(Own(heap))
  BY HeapSize DEF Shape, Nodes
<1>2. /\ new.list = r.list /\ new.ip = r.ip /\ new.portno = r.portno /\ new.next = top[r.list]
      /\ new.vals = [s \in ScanTypes |-> Empty(r.list)] /\ new.conclusion = Unknown
      /\ new = [list |-> new.list, ip |-> new.ip, portno |-> new.portno, vals |-> new.vals,
                conclusion |-> new.conclusion, next |-> new.next]
  OBVIOUS
<1>3. top[r.list] \in 0 .. L /\ (top[r.list] # 0 => heap[top[r.list]].list = r.list)
  BY DEF Linked
<1> HIDE DEF new, r, L
<1>4. heap \in Seq(Own(heap) \cup {new})
  BY <1>1, SeqMonotonic
<1>5. /\ heap' \in Seq(Own(heap) \cup {new}) /\ Len(heap') = L + 1 /\ DOMAIN heap' = 1 .. L + 1
      /\ heap'[L + 1] = new /\ \A n \in 1 .. L : heap'[n] = heap[n]
  BY <1>0, <1>1, <1>4, AppendProperties DEF L
<1>6. heap' \in Seq(Own(heap'))
  BY <1>5, OwnRange
<1>7. \A n \in 1 .. L + 1 : n \in 1 .. L \/ n = L + 1
  BY <1>1
<1>8. Nodes'
  <2>1. ASSUME NEW k \in DOMAIN heap'
        PROVE  /\ heap'[k] = [list |-> heap'[k].list, ip |-> heap'[k].ip, portno |-> heap'[k].portno,
                     vals |-> heap'[k].vals, conclusion |-> heap'[k].conclusion,
                     next |-> heap'[k].next]
               /\ heap'[k].vals = [x \in ScanTypes |-> heap'[k].vals[x]]
    <3>1. CASE k = L + 1
      BY <3>1, <1>2, <1>5
    <3>2. CASE k \in 1 .. L
      <4>1. heap'[k] = heap[k] /\ k \in DOMAIN heap
        BY <1>1, <1>5, <3>2
      <4>2. /\ heap[k] = [list |-> heap[k].list, ip |-> heap[k].ip, portno |-> heap[k].portno,
                     vals |-> heap[k].vals, conclusion |-> heap[k].conclusion,
                     next |-> heap[k].next]
            /\ heap[k].vals = [x \in ScanTypes |-> heap[k].vals[x]]
        BY <4>1 DEF Shape, Nodes
      <4> QED BY <4>1, <4>2
    <3> QED BY <3>1, <3>2, <1>5, <1>7
  <2>2. top' \in [ListNames -> Nat]
    BY <1>0 DEF Shape, Nodes
  <2> QED BY <1>6, <2>1, <2>2 DEF Nodes
<1>9. \A l \in ListNames : top'[l] \in 0 .. Len(heap') /\ (top'[l] # 0 => heap'[top'[l]].list = l)
  <2> TAKE l \in ListNames
  <2>1. top[l] \in 0 .. L /\ (top[l] # 0 => heap[top[l]].list = l)
    BY DEF Linked, L
  <2>2. top[l] # 0 => top[l] \in 1 .. L
    BY <1>1, <2>1
  <2>3. top[l] \in 0 .. L + 1
    BY <1>1, <2>1
  <2> QED BY <1>0, <1>5, <2>1, <2>2, <2>3
<1>10. ASSUME NEW n \in DOMAIN heap'
       PROVE  /\ heap'[n].list \in ListNames
              /\ heap'[n].next \in 0 .. n - 1
              /\ heap'[n].next # 0 => heap'[heap'[n].next].list = heap'[n].list
  <2>1. CASE n = L + 1
    <3>1. heap'[n].list = r.list /\ heap'[n].next = top[r.list] /\ r.list \in ListNames
      BY <1>2, <1>5, <2>1 DEF r
    <3>2. top[r.list] # 0 => top[r.list] \in 1 .. L
      BY <1>1, <1>3
    <3>3. n - 1 = L
      BY <1>1, <2>1
    <3> QED BY <1>3, <1>5, <3>1, <3>2, <3>3
  <2>2. CASE n \in 1 .. L
    <3>1. /\ heap[n].list \in ListNames /\ heap[n].next \in 0 .. n - 1
          /\ heap[n].next # 0 => heap[heap[n].next].list = heap[n].list
      BY <1>1, <2>2 DEF Linked
    <3>2. heap'[n] = heap[n]
      BY <1>5, <2>2
    <3>3. heap[n].next # 0 => heap[n].next \in 1 .. L
      BY <1>1, <2>2, <3>1
    <3> QED BY <1>5, <3>1, <3>2, <3>3
  <2> QED BY <2>1, <2>2, <1>5, <1>7
<1>11. Linked'
  BY <1>9, <1>10 DEF Linked
<1>12. Turn(t) /\ pc'[t] = "link"
  BY <1>0, GotoTurn
<1>13. node'[t] = L + 1
  BY <1>0, <1>5 DEF Locals
<1>14. For(heap', node'[t], r)
  <2>1. L + 1 \in DOMAIN heap'
    BY <1>1, <1>5
  <2> QED BY <1>2, <1>5, <1>13, <2>1 DEF For
<1>15. DOMAIN heap \subseteq DOMAIN heap' /\ \A n \in DOMAIN heap : heap'[n] = heap[n]
  <2>1. 1 .. L \subseteq 1 .. L + 1
    BY <1>1
  <2> QED BY <1>1, <1>5, <2>1
<1>16. ASSUME NEW n \in DOMAIN heap' \ DOMAIN heap
       PROVE  /\ heap'[n].conclusion = Unknown /\ heap'[n].list = r.list /\ n = node'[t]
              /\ \A s \in ScanTypes : heap'[n].vals[s] = Empty(r.list)
  <2>1. n = L + 1
    BY <1>1, <1>5, <1>7
  <2> QED BY <1>2, <1>5, <1>13, <2>1
<1>17. node'[t] = Len(heap') /\ Len(heap') = Len(heap) + 1 /\ heap'[node'[t]].next = top[r.list]
  BY <1>2, <1>5, <1>13 DEF L
<1> QED BY <1>0, <1>8, <1>11, <1>12, <1>14, <1>15, <1>16, <1>17 DEF r


(* The node becomes the top of its list.                                   *)
LEMMA LinkedNode ==
  ASSUME Shape, Linked, NEW t \in Threads, For(heap, node[t], hand[t]), hand[t].list \in ListNames, PushLink(t)
  PROVE  /\ Turn(t) /\ pc'[t] = "update" /\ UNCHANGED <<hand, node, heap, round, read>> /\ Nodes' /\ Linked'
<1> DEFINE l == hand[t].list
           n == node[t]
<1>0. /\ top' = [top EXCEPT ![l] = n] /\ Goto(t, "update") /\ UNCHANGED <<job, hand, node, round, read, heap>> /\ Locals
  BY DEF PushLink, Shape
<1>1. Len(heap) \in Nat /\ DOMAIN heap = 1 .. Len(heap) /\ n \in DOMAIN heap /\ heap[n].list = l /\ l \in ListNames
  BY HeapSize DEF For
<1>2. top \in [ListNames -> Nat]
  BY DEF Shape, Nodes
<1> HIDE DEF l, n
<1>3. n \in Nat /\ n \in 0 .. Len(heap)
  BY <1>1
<1>4. top' \in [ListNames -> Nat] /\ top'[l] = n /\ \A x \in ListNames : x # l => top'[x] = top[x]
  BY <1>0, <1>1, <1>2, <1>3
<1>5. Nodes'
  BY <1>0, <1>4 DEF Shape, Nodes
<1>6. \A x \in ListNames : top'[x] \in 0 .. Len(heap) /\ (top'[x] # 0 => heap[top'[x]].list = x)
  <2> TAKE x \in ListNames
  <2>1. CASE x = l
    BY <1>1, <1>3, <1>4, <2>1
  <2>2. CASE x # l
    BY <1>4, <2>2 DEF Linked
  <2> QED BY <2>1, <2>2
<1>7. Linked'
  BY <1>0, <1>6 DEF Linked
<1> QED BY <1>0, <1>5, <1>7, GotoTurn

(* A result is written to the node of the record, and so is its conclusion. *)
LEMMA UpdatedNode ==
  ASSUME Shape, Linked, NEW t \in Threads, For(heap, node[t], hand[t]), PushUpdate(t)
  PROVE  /\ Turn(t) /\ pc'[t] \in {"conclude", "get"} /\ SameNodes /\ UNCHANGED <<top, round, read>>
         /\ pc'[t] = "conclude" => UNCHANGED <<hand, node>> /\ hand[t].list = "result"
         /\ \A k \in DOMAIN heap :
              /\ heap'[k].conclusion = heap[k].conclusion
              /\ \A x \in ScanTypes :
                   heap'[k].vals[x] = heap[k].vals[x] \/ (k = node[t] /\ heap'[k].vals[x] = hand[t].val)
         /\ hand[t].slot \in ScanTypes => heap'[node[t]].vals[hand[t].slot] = hand[t].val
<1>0. Locals /\ UNCHANGED <<top, round, read>>
  BY DEF PushUpdate, Shape
<1>1. node[t] \in DOMAIN heap
  BY DEF For
<1>2. heap' = [heap EXCEPT ![node[t]].vals[hand[t].slot] = hand[t].val]
  BY DEF PushUpdate
<1>3. /\ SameNodes
      /\ \A k \in DOMAIN heap :
              /\ heap'[k].conclusion = heap[k].conclusion
              /\ \A x \in ScanTypes :
                   heap'[k].vals[x] = heap[k].vals[x] \/ (k = node[t] /\ x = hand[t].slot /\ heap'[k].vals[x] = hand[t].val)
      /\ hand[t].slot \in ScanTypes => heap'[node[t]].vals[hand[t].slot] = hand[t].val
  <2> DEFINE n == node[t]
             sl == hand[t].slot
             v == hand[t].val
  <2>1. n \in DOMAIN heap /\ heap' = Written(heap, n, sl, v) /\ top' = top
    BY <1>0, <1>1, <1>2 DEF Written
  <2> HIDE DEF n, sl, v
  <2>2. /\ SameNodes
        /\ \A k \in DOMAIN heap :
              /\ heap'[k].conclusion = heap[k].conclusion
              /\ \A x \in ScanTypes :
                   heap'[k].vals[x] = heap[k].vals[x] \/ (k = n /\ x = sl /\ heap'[k].vals[x] = v)
        /\ sl \in ScanTypes => heap'[n].vals[sl] = v
    BY <2>1, ValWritten
  <2> QED BY <2>2 DEF n, sl, v
<1>4. /\ Turn(t) /\ pc'[t] \in {"conclude", "get"}
      /\ pc'[t] = "conclude" => UNCHANGED <<hand, node>> /\ hand[t].list = "result"
  <2>1. CASE hand[t].list = "result" /\ Goto(t, "conclude") /\ UNCHANGED <<job, retry, hand, node>>
    BY <1>0, <2>1, GotoTurn
  <2>2. CASE Finished(t)
    BY <1>0, <2>2, FinishedTurn
  <2> QED BY <2>1, <2>2 DEF PushUpdate
<1> QED BY <1>0, <1>3, <1>4

LEMMA ConcludedNode ==
  ASSUME Shape, Linked, NEW t \in Threads, For(heap, node[t], hand[t]), ConcludeWrite(t)
  PROVE  /\ Turn(t) /\ SameNodes /\ UNCHANGED <<top, hand, node>>
         /\ \/ round[t] = UDP_SCAN /\ pc'[t] = "version"
            \/ round[t] # UDP_SCAN /\ round'[t] = round[t] + 1 /\ pc'[t] = "conclude"
         /\ \A k \in DOMAIN heap :
              /\ heap'[k].vals = heap[k].vals
              /\ heap'[k].conclusion = heap[k].conclusion \/ (k = node[t] /\ heap'[k].conclusion = read[t])
         /\ heap'[node[t]].conclusion = read[t]
<1>0. /\ Locals /\ UNCHANGED <<top, hand, node, job>> /\ NextRound(t) /\ read' = [read EXCEPT ![t] = 0]
      /\ heap' = [heap EXCEPT ![node[t]].conclusion = read[t]]
  BY DEF ConcludeWrite, Shape
<1>1. node[t] \in DOMAIN heap
  BY DEF For
<1>2. /\ Turn(t)
      /\ \/ round[t] = UDP_SCAN /\ pc'[t] = "version"
         \/ round[t] # UDP_SCAN /\ round'[t] = round[t] + 1 /\ pc'[t] = "conclude"
  BY <1>0, RoundTurn
<1> QED BY <1>0, <1>1, <1>2, ConclusionWritten

(* A round that reads no result goes on, one that does writes next.        *)
LEMMA ReadTurn ==
  ASSUME Locals, NEW t \in Threads, ConcludeRead(t)
  PROVE  /\ Turn(t) /\ UNCHANGED <<hand, node, heap, top>>
         /\ LET val == heap[node[t]].vals[round[t]]
            IN  \/ /\ val = NONE /\ UNCHANGED read
                   /\ \/ round[t] = UDP_SCAN /\ pc'[t] = "version"
                      \/ round[t] # UDP_SCAN /\ round'[t] = round[t] + 1 /\ pc'[t] = "conclude"
                \/ /\ val # NONE /\ round' = round /\ pc'[t] = "write"
                   /\ read'[t] = Min({heap[node[t]].conclusion, val})
<1> DEFINE val == heap[node[t]].vals[round[t]]
           m == Min({heap[node[t]].conclusion, val})
<1>0. /\ UNCHANGED <<job, hand, node, heap, top>>
      /\ \/ val = NONE /\ NextRound(t) /\ UNCHANGED read
         \/ val # NONE /\ read' = [read EXCEPT ![t] = m] /\ Goto(t, "write") /\ UNCHANGED round
  BY DEF ConcludeRead
<1> HIDE DEF val, m
<1>1. CASE val = NONE /\ NextRound(t) /\ UNCHANGED read
  BY <1>0, <1>1, RoundTurn DEF val, m
<1>2. CASE val # NONE /\ read' = [read EXCEPT ![t] = m] /\ Goto(t, "write") /\ UNCHANGED round
  <2>1. Turn(t) /\ pc'[t] = "write"
    BY <1>0, <1>2, GotoTurn
  <2>2. read'[t] = m
    BY <1>2 DEF Locals
  <2> QED BY <1>0, <1>2, <2>1, <2>2 DEF val, m
<1> QED BY <1>0, <1>1, <1>2

(* A push that goes on has the scan running.                               *)
LEMMA Busy ==
  ASSUME ListInv, NEW t \in Threads, pc[t] \notin {"get", "exit"} PROVE main = "scan"
BY DEF ListInv, Resting

LEMMA ProbingLists ==
  ASSUME ListInv, NEW t \in Workers, Probing(t) PROVE ListInv'
<1>1. t \in Threads /\ Shape /\ Locals /\ Linked
  BY WorkersAreThreads DEF ListInv, Shape
<1>2. ProbeEffect(t) /\ UNCHANGED <<heap, top, mode, main>>
  BY <1>1, ProbingEffect
<1>3. main = "scan"
  <2>1. CASE get_next_job(t)
    BY <2>1 DEF get_next_job
  <2>2. CASE pc[t] \notin {"get", "exit"}
    BY <1>1, <2>2, Busy
  <2> QED BY <2>1, <2>2 DEF Probing, SendProbe, Receive, Disturb, VersionCheck, version_detection, GotPacket,
     PollTimeout, DispatchPacket, DispatchBreak, DispatchNothing, StrayPacket, PollError, GotUseless, DispatchForeign, Polling
<1>4. Nodes' /\ Linked' /\ \A n, r : For(heap, n, r) => For(heap', n, r)
  BY <1>1, <1>2, QuietNodes
<1>5. /\ Turn(t)
      /\ pc'[t] \in InPush => hand'[t].list \in ListNames
      /\ pc'[t] \in AtNode => For(heap', node'[t], hand'[t])
  BY <1>2 DEF ProbeEffect, InPush
<1> QED BY <1>2, <1>3, <1>4, <1>5, TurnLists

LEMMA PushingLists ==
  ASSUME ListInv, NEW t \in Workers, Push_(t) PROVE ListInv'
<1>1. t \in Threads /\ Shape /\ Locals /\ Linked
  BY WorkersAreThreads DEF ListInv, Shape
<1>2. /\ pc[t] \in InPush /\ UNCHANGED <<mode, main>>
  BY DEF Push_, PushSearch, PushNew, PushLink, PushUpdate, ConcludeRead, ConcludeWrite, Pushing, InPush, AtNode, config
<1>3. main = "scan"
  BY <1>1, <1>2, Busy DEF InPush, AtNode
<1>4. /\ hand[t].list \in ListNames
      /\ pc[t] \in AtNode => For(heap, node[t], hand[t])
  BY <1>1, <1>2 DEF ListInv, Mine
<1> SUFFICES /\ Turn(t) /\ Nodes' /\ Linked'
             /\ \A n, r : For(heap, n, r) => For(heap', n, r)
             /\ pc'[t] \in InPush => hand'[t].list \in ListNames
             /\ pc'[t] \in AtNode => For(heap', node'[t], hand'[t])
  BY <1>2, <1>3, TurnLists
<1>5. CASE PushSearch(t)
  <2>1. /\ Turn(t) /\ pc'[t] \in {"new", "update"} /\ UNCHANGED <<hand, heap, top, round, read>>
        /\ pc'[t] = "update" => For(heap, node'[t], hand[t])
    BY <1>1, <1>4, <1>5, SearchFinds
  <2>2. Nodes' /\ Linked' /\ \A n, r : For(heap, n, r) => For(heap', n, r)
    BY <1>1, <2>1, QuietNodes
  <2> QED BY <1>4, <2>1, <2>2 DEF AtNode
<1>6. CASE PushNew(t)
  <2>1. /\ Turn(t) /\ pc'[t] = "link" /\ UNCHANGED <<hand, top, round, read>>
        /\ Nodes' /\ Linked' /\ For(heap', node'[t], hand[t])
        /\ DOMAIN heap \subseteq DOMAIN heap' /\ \A n \in DOMAIN heap : heap'[n] = heap[n]
    BY <1>1, <1>4, <1>6, NewNode
  <2>2. \A n, r : For(heap, n, r) => For(heap', n, r)
    BY <2>1 DEF For
  <2> QED BY <1>4, <2>1, <2>2
<1>7. CASE PushLink(t)
  <2>0. For(heap, node[t], hand[t])
    BY <1>4, <1>7 DEF PushLink, Pushing, AtNode
  <2>1. /\ Turn(t) /\ pc'[t] = "update" /\ UNCHANGED <<hand, node, heap, round, read>> /\ Nodes' /\ Linked'
    BY <1>1, <1>4, <1>7, <2>0, LinkedNode
  <2> QED BY <1>4, <2>0, <2>1
<1>8. CASE PushUpdate(t)
  <2>0. For(heap, node[t], hand[t])
    BY <1>4, <1>8 DEF PushUpdate, Pushing, AtNode
  <2>1. /\ Turn(t) /\ pc'[t] \in {"conclude", "get"} /\ SameNodes /\ UNCHANGED <<top, round, read>>
        /\ pc'[t] = "conclude" => UNCHANGED <<hand, node>>
    BY <1>1, <1>8, <2>0, UpdatedNode
  <2>2. Nodes' /\ Linked' /\ \A n, r : For(heap, n, r) => For(heap', n, r)
    BY <1>1, <2>1, SameNodesKept
  <2> QED BY <1>4, <2>0, <2>1, <2>2 DEF InPush, AtNode
<1>9. CASE ConcludeRead(t)
  <2>0. For(heap, node[t], hand[t])
    BY <1>4, <1>9 DEF ConcludeRead, Pushing, AtNode
  <2>1. Turn(t) /\ UNCHANGED <<hand, node, heap, top>>
    BY <1>1, <1>9, ReadTurn
  <2>2. Nodes' /\ Linked'
    BY <1>1, <2>1, QuietNodes
  <2> QED BY <1>4, <2>0, <2>1, <2>2
<1>10. CASE ConcludeWrite(t)
  <2>0. For(heap, node[t], hand[t])
    BY <1>4, <1>10 DEF ConcludeWrite, Pushing, AtNode
  <2>1. /\ Turn(t) /\ SameNodes /\ UNCHANGED <<top, hand, node>>
    BY <1>1, <1>10, <2>0, ConcludedNode
  <2>2. Nodes' /\ Linked' /\ \A n, r : For(heap, n, r) => For(heap', n, r)
    BY <1>1, <2>1, SameNodesKept
  <2> QED BY <1>4, <2>0, <2>1, <2>2 DEF InPush, AtNode
<1> QED BY <1>5, <1>6, <1>7, <1>8, <1>9, <1>10 DEF Push_

LEMMA MainLists ==
  ASSUME ListInv, MainStep PROVE ListInv'
<1>1. UNCHANGED <<mode, pc, local>> /\ Workers' = Workers
  BY DEF MainStep, CreateJobs, JoinThreads, PrintResults, config, Workers
<1>2. Locals'
  BY <1>1 DEF ListInv, Shape, Locals, local
<1>3. Resting'
  <2>0. Resting
    BY DEF ListInv
  <2>1. CASE CreateJobs \/ PrintResults
    BY <1>1, <2>0, <2>1 DEF CreateJobs, PrintResults, Resting
  <2>2. CASE JoinThreads
    BY <1>1, <2>0, <2>2 DEF JoinThreads, Resting
  <2> QED BY <2>1, <2>2 DEF MainStep
<1>4. CASE UNCHANGED <<heap, top>>
  <2>1. Nodes' /\ Linked'
    BY <1>4, QuietNodes DEF ListInv
  <2>2. Mine'
    BY <1>1, <1>4 DEF ListInv, Mine, local
  <2> QED BY <1>2, <1>3, <2>1, <2>2 DEF ListInv, Shape
<1>5. CASE PrintResults
  <2>1. heap' = <<>> /\ top' = [result |-> 0, version |-> 0] /\ main # "scan"
    BY <1>5 DEF PrintResults
  <2>2. heap' \in Seq(Own(heap')) /\ DOMAIN heap' = {} /\ Len(heap') = 0
    BY <2>1, EmptySeq
  <2>3. Nodes'
    BY <2>1, <2>2 DEF Nodes, ListNames
  <2>4. Linked'
    BY <2>1, <2>2 DEF Linked, ListNames
  <2>5. Mine'
    <3>1. \A t \in Threads : pc'[t] \notin InPush /\ pc'[t] \notin AtNode
      BY <1>1, <2>1 DEF ListInv, Resting, InPush, AtNode
    <3> QED BY <3>1 DEF Mine
  <2> QED BY <1>2, <1>3, <2>3, <2>4, <2>5 DEF ListInv, Shape
<1> QED BY <1>4, <1>5 DEF MainStep, CreateJobs, JoinThreads, lists

LEMMA ListInit == Init => ListInv
<1> SUFFICES ASSUME Init PROVE ListInv
  OBVIOUS
<1>1. heap = <<>> /\ top = [result |-> 0, version |-> 0]
  BY DEF Init
<1>2. heap \in Seq(Own(heap)) /\ DOMAIN heap = {} /\ Len(heap) = 0
  BY <1>1, EmptySeq
<1>3. Nodes
  BY <1>1, <1>2 DEF Nodes, ListNames
<1>4. Linked
  BY <1>1, <1>2 DEF Linked, ListNames
<1>5. Locals
  BY DEF Init, Locals, ScanTypes
<1>6. \A t \in Threads : pc[t] = "get"
  BY DEF Init
<1> QED BY <1>3, <1>4, <1>5, <1>6 DEF ListInv, Shape, Resting, Mine, InPush, AtNode

LEMMA ListStep == ListInv /\ [Next]_vars => ListInv'
<1> SUFFICES ASSUME ListInv, [Next]_vars PROVE ListInv'
  OBVIOUS
<1>1. CASE MainStep
  BY <1>1, MainLists
<1>2. CASE \E t \in Workers : Run(t) \/ version_detection(t) \/ Disturb(t)
  <2>1. PICK t \in Workers : Probing(t) \/ Push_(t)
    BY <1>2 DEF Run, Probing
  <2> QED BY <2>1, ProbingLists, PushingLists
<1>3. CASE UNCHANGED vars
  <2>1. UNCHANGED <<mode, main, pc, job, hand, node, round, read, heap, top>> /\ Workers' = Workers
    BY <1>3 DEF vars, config, local, lists, Workers
  <2>2. Shape' /\ Linked' /\ Resting' /\ Mine'
    BY <2>1 DEF ListInv, Shape, Locals, Nodes, Linked, Resting, Mine
  <2> QED BY <2>2 DEF ListInv
<1> QED BY <1>1, <1>2, <1>3 DEF Next, Over


-----------------------------------------------------------------------------
(* A conclusion is a result that was pushed                                *)

(* What a thread tells before it pushes.                                   *)
Tells(t) ==
  \/ said' = said /\ ~(pc'[t] = "search" /\ hand'[t].list = "result")
  \/ /\ said' = said \cup {hand'[t]} /\ pc'[t] = "search"
     /\ hand'[t].list = "result" /\ hand'[t].val \in Results /\ hand'[t].slot = job[t].scan_type

LEMMA SayTells ==
  ASSUME Locals, NEW t \in Threads, NEW port, NEW v \in Results, Say(t, port, v), UNCHANGED <<job, node, round, read>>
  PROVE  Tells(t)
<1> DEFINE r == Record("result", job[t].ip, port, job[t].scan_type, v)
<1>1. hand'[t] = r /\ pc'[t] = "search"
  BY SayTurn
<1>2. said' = said \cup {r}
  BY DEF Say
<1>3. r.list = "result" /\ r.val = v /\ r.slot = job[t].scan_type
  BY DEF Record
<1> HIDE DEF r
<1> QED BY <1>1, <1>2, <1>3 DEF Tells

LEMMA GivesUpTells ==
  ASSUME Locals, NEW t \in Threads, GiveUpOrRetry(t), UNCHANGED <<job, node, round, read>>
  PROVE  Tells(t)
<1> DEFINE v == TimeoutVerdict(job[t].scan_type)
           port == job[t].portno
<1>1. v \in Results
  BY DEF TimeoutVerdict, Results, R_FILTERED, R_OPN_FIL
<1>2. CASE Say(t, port, v)
  <2> HIDE DEF v, port
  <2> QED BY <1>1, <1>2, SayTells
<1>3. CASE Goto(t, "send") /\ said' = said
  BY <1>3 DEF Goto, Locals, Tells
<1> QED BY <1>2, <1>3 DEF GiveUpOrRetry

LEMMA VerdictType ==
  ASSUME NEW p, NEW j
  PROVE  /\ Verdict(p, j) \in Results
         /\ Verdict(p, j) = R_OPEN => (p.proto = "tcp" /\ p.says = "synack") \/ p.proto = "udp"
BY DEF Verdict, Results, R_OPEN, R_FILTERED, R_OPN_FIL, R_CLOSED, R_UNFILTERED, NONE

LEMMA PacketTells ==
  ASSUME Locals, NEW t \in Threads, NEW p, got_packet(t, p), UNCHANGED <<job, node, round, read>>
  PROVE  Tells(t)
<1> DEFINE v == Verdict(p, job[t])
           port == IF p.proto = "tcp" THEN p.portno ELSE job[t].portno
<1>1. v \in Results
  BY VerdictType
<1>2. CASE Say(t, port, v)
  <2> HIDE DEF v, port
  <2> QED BY <1>1, <1>2, SayTells
<1>3. CASE Goto(t, "version") /\ said' = said
  BY <1>3 DEF Goto, Locals, Tells
<1> QED BY <1>2, <1>3 DEF got_packet

(* Version detection tells nothing and hands over no result.               *)
LEMMA VersionTells ==
  ASSUME Locals, NEW t \in Threads, VersionCheck(t) \/ version_detection(t)
  PROVE  UNCHANGED <<net, said>> /\ ~(pc'[t] = "search" /\ hand'[t].list = "result")
<1>1. UNCHANGED <<net, said>>
  BY DEF VersionCheck, version_detection, lists
<1>2. CASE VersionCheck(t)
  BY <1>1, <1>2 DEF VersionCheck, Finished, Goto, Locals
<1>3. CASE version_detection(t)
  <2>1. CASE Finished(t)
    BY <1>1, <2>1 DEF Finished, Goto, Locals
  <2>2. ASSUME NEW v, hand' = [hand EXCEPT ![t] = Record("version", job[t].ip, job[t].portno, Service(job[t].portno) - 1, v)]
        PROVE  hand'[t].list # "result"
    <3> DEFINE r == Record("version", job[t].ip, job[t].portno, Service(job[t].portno) - 1, v)
    <3>1. r.list # "result"
      BY DEF Record
    <3>2. hand' = [hand EXCEPT ![t] = r]
      BY <2>2
    <3> HIDE DEF r
    <3> QED BY <3>1, <3>2 DEF Locals
  <2> QED BY <1>1, <1>3, <2>1, <2>2 DEF version_detection
<1> QED BY <1>2, <1>3

LEMMA ProbingTells ==
  ASSUME Locals, NEW t \in Threads, Probing(t)
  PROVE  Tells(t)
<1>1. CASE get_next_job(t)
  BY <1>1 DEF get_next_job, Goto, Locals, lists, Tells
<1>2. CASE SendProbe(t)
  BY <1>2 DEF SendProbe, Goto, Locals, lists, Tells
<1>3. CASE GotPacket(t) \/ GotUseless(t) \/ DispatchPacket(t) \/ DispatchForeign(t)
  BY <1>3, PacketTells DEF GotPacket, GotUseless, DispatchPacket, DispatchForeign, Polling
<1>4. CASE PollTimeout(t) \/ PollError(t) \/ DispatchBreak(t)
  BY <1>4, GivesUpTells DEF PollTimeout, PollError, DispatchBreak, Polling
<1>5. CASE StrayPacket(t)
  <2>1. CASE GiveUpOrRetry(t)
    BY <1>5, <2>1, GivesUpTells DEF StrayPacket, Polling
  <2>2. CASE UNCHANGED <<pc, hand, said>>
    BY <1>5, <2>2 DEF StrayPacket, Polling, Tells
  <2> QED BY <1>5, <2>1, <2>2 DEF StrayPacket
<1>6. CASE VersionCheck(t) \/ version_detection(t)
  BY <1>6, VersionTells DEF Tells
<1>7. CASE DispatchNothing(t)
  BY <1>7 DEF DispatchNothing, Polling, Goto, Locals, Tells
<1> QED
  BY <1>1, <1>2, <1>3, <1>4, <1>5, <1>6, <1>7 DEF Probing, Receive, Disturb

(* What one thread's step leaves to be shown: its own record and conclusion. *)
LEMMA TurnTold ==
  ASSUME Handed, Drawn, NEW t \in Threads, Turn(t), said \subseteq said',
         pc'[t] \in {"conclude", "write"} => hand'[t].list = "result",
         pc'[t] \in InPush /\ hand'[t].list = "result" =>
           hand'[t].val \in Results /\ ToldIn(said', hand'[t].ip, hand'[t].portno, hand'[t].val),
         pc'[t] = "write" =>
           read'[t] \in Nat /\ (read'[t] # Unknown => ToldIn(said', hand'[t].ip, hand'[t].portno, read'[t]))
  PROVE  Handed' /\ Drawn'
<1>0. \A ip, port, v : ToldIn(said, ip, port, v) => ToldIn(said', ip, port, v)
  BY DEF ToldIn
<1>1. ASSUME NEW u \in Threads
      PROVE  /\ pc'[u] \in InPush =>
                  /\ pc'[u] \in {"conclude", "write"} => hand'[u].list = "result"
                  /\ hand'[u].list = "result" =>
                       hand'[u].val \in Results /\ ToldIn(said', hand'[u].ip, hand'[u].portno, hand'[u].val)
             /\ pc'[u] = "write" =>
                  read'[u] \in Nat /\ (read'[u] # Unknown => ToldIn(said', hand'[u].ip, hand'[u].portno, read'[u]))
  <2>1. CASE u = t
    BY <2>1
  <2>2. CASE u # t
    <3>1. pc'[u] = pc[u] /\ hand'[u] = hand[u] /\ read'[u] = read[u]
      BY <2>2 DEF Turn
    <3> QED BY <1>0, <3>1 DEF Handed, Drawn
  <2> QED BY <2>1, <2>2
<1>2. Handed'
  BY <1>1 DEF Handed
<1>3. Drawn'
  BY <1>1 DEF Drawn
<1> QED BY <1>2, <1>3

LEMMA ProbingTold ==
  ASSUME ListInv, ToldInv, NEW t \in Workers, Probing(t)
  PROVE  ToldInv'
<1>1. t \in Threads /\ Locals /\ Handed /\ Kept /\ Drawn
  BY WorkersAreThreads DEF ListInv, Shape, ToldInv
<1>2. ProbeEffect(t) /\ UNCHANGED <<heap, top, mode, main>>
  BY <1>1, ProbingEffect
<1>3. Tells(t)
  BY <1>1, ProbingTells
<1>4. /\ said \subseteq said'
      /\ pc'[t] = "search" /\ hand'[t].list = "result" => hand'[t].val \in Results /\ hand'[t] \in said'
  BY <1>3 DEF Tells
<1>5. Handed' /\ Drawn'
  BY <1>1, <1>2, <1>4, TurnTold DEF ProbeEffect, InPush, AtNode, ToldIn
<1>6. Kept'
  BY <1>1, <1>2, <1>4 DEF Kept, KeptAt, ToldIn
<1> QED BY <1>5, <1>6 DEF ToldInv

LEMMA MinOfTwo ==
  ASSUME NEW a \in Nat, NEW b \in Nat
  PROVE  Min({a, b}) \in {a, b} /\ Min({a, b}) <= a /\ Min({a, b}) <= b
<1>1. {a, b} \in SUBSET Nat /\ {a, b} # {}
  OBVIOUS
<1> QED BY <1>1, MinIn

LEMMA PushingTold ==
  ASSUME ListInv, ToldInv, NEW t \in Workers, Push_(t)
  PROVE  ToldInv'
<1>1. t \in Threads /\ Shape /\ Locals /\ Linked /\ Handed /\ Kept /\ Drawn
  BY WorkersAreThreads DEF ListInv, Shape, ToldInv
<1>2. pc[t] \in InPush /\ said' = said
  BY DEF Push_, PushSearch, PushNew, PushLink, PushUpdate, ConcludeRead, ConcludeWrite, Pushing, InPush, AtNode
<1>4. /\ hand[t].list \in ListNames
      /\ pc[t] \in AtNode => For(heap, node[t], hand[t])
      /\ pc[t] \in {"conclude", "write"} => hand[t].list = "result"
      /\ hand[t].list = "result" =>
           hand[t].val \in Results /\ ToldIn(said, hand[t].ip, hand[t].portno, hand[t].val)
  BY <1>1, <1>2 DEF ListInv, Mine, Handed
<1>k. (\A n \in DOMAIN heap' : KeptAt(heap', said, n)) => Kept'
  BY <1>2 DEF Kept, KeptAt
<1>l. \A n \in DOMAIN heap : KeptAt(heap, said, n)
  BY <1>1 DEF Kept
<1>q. heap' = heap => Kept'
  BY <1>1, <1>2 DEF Kept, KeptAt
<1> SUFFICES Handed' /\ Drawn' /\ Kept'
  BY DEF ToldInv
<1>5. CASE PushSearch(t)
  <2>1. Turn(t) /\ pc'[t] \in {"new", "update"} /\ UNCHANGED <<hand, heap>>
    BY <1>1, <1>4, <1>5, SearchFinds
  <2>2. Handed' /\ Drawn'
    BY <1>1, <1>2, <1>4, <2>1, TurnTold
  <2> QED BY <1>q, <2>1, <2>2
<1>6. CASE PushNew(t)
  <2>1. /\ Turn(t) /\ pc'[t] = "link" /\ UNCHANGED hand
        /\ DOMAIN heap \subseteq DOMAIN heap' /\ \A n \in DOMAIN heap : heap'[n] = heap[n]
        /\ \A n \in DOMAIN heap' \ DOMAIN heap :
             heap'[n].conclusion = Unknown /\ heap'[n].list = hand[t].list
             /\ \A s \in ScanTypes : heap'[n].vals[s] = Empty(hand[t].list)
    BY <1>1, <1>4, <1>6, NewNode
  <2>2. Handed' /\ Drawn'
    BY <1>1, <1>2, <1>4, <2>1, TurnTold
  <2>3. ASSUME NEW n \in DOMAIN heap' PROVE KeptAt(heap', said, n)
    <3>1. CASE n \in DOMAIN heap
      BY <1>l, <2>1, <3>1 DEF KeptAt
    <3>2. CASE n \notin DOMAIN heap
      <4>1. Empty("result") = NONE
        BY Zenon DEF Empty
      <4>2. Unknown \in Nat
        BY DEF Unknown
      <4> QED BY <2>1, <3>2, <4>1, <4>2 DEF KeptAt
    <3> QED BY <3>1, <3>2
  <2> QED BY <1>k, <2>2, <2>3
<1>7. CASE PushLink(t)
  <2>0. For(heap, node[t], hand[t])
    BY <1>4, <1>7 DEF PushLink, Pushing, AtNode
  <2>1. Turn(t) /\ pc'[t] = "update" /\ UNCHANGED <<hand, heap>>
    BY <1>1, <1>4, <1>7, <2>0, LinkedNode
  <2>2. Handed' /\ Drawn'
    BY <1>1, <1>2, <1>4, <2>1, TurnTold
  <2> QED BY <1>q, <2>1, <2>2
<1>8. CASE PushUpdate(t)
  <2>0. For(heap, node[t], hand[t])
    BY <1>4, <1>8 DEF PushUpdate, Pushing, AtNode
  <2>1. /\ Turn(t) /\ pc'[t] \in {"conclude", "get"} /\ SameNodes
        /\ pc'[t] = "conclude" => UNCHANGED <<hand, node>> /\ hand[t].list = "result"
        /\ \A k \in DOMAIN heap :
              /\ heap'[k].conclusion = heap[k].conclusion
              /\ \A x \in ScanTypes :
                   heap'[k].vals[x] = heap[k].vals[x] \/ (k = node[t] /\ heap'[k].vals[x] = hand[t].val)
    BY <1>1, <1>8, <2>0, UpdatedNode
  <2>2. Handed' /\ Drawn'
    BY <1>1, <1>2, <1>4, <2>1, TurnTold DEF InPush, AtNode
  <2>3. ASSUME NEW n \in DOMAIN heap' PROVE KeptAt(heap', said, n)
    <3>1. n \in DOMAIN heap /\ heap'[n].list = heap[n].list /\ heap'[n].ip = heap[n].ip
          /\ heap'[n].portno = heap[n].portno
      BY <2>1 DEF SameNodes
    <3>2. KeptAt(heap, said, n)
      BY <1>l, <3>1
    <3>3. n = node[t] /\ heap[n].list = "result" =>
            hand[t].val \in Results /\ ToldIn(said, heap[n].ip, heap[n].portno, hand[t].val)
      BY <1>4, <2>0 DEF For
    <3>4. hand[t].val \in Results => hand[t].val = NONE \/ hand[t].val \in Nat
      BY DEF Results
    <3> QED BY <2>1, <3>1, <3>2, <3>3, <3>4 DEF KeptAt
  <2> QED BY <1>k, <2>2, <2>3
<1>9. CASE ConcludeRead(t)
  <2>0. For(heap, node[t], hand[t]) /\ hand[t].list = "result"
    BY <1>4, <1>9 DEF ConcludeRead, Pushing, AtNode
  <2> DEFINE n == node[t]
             c == heap[n].conclusion
             val == heap[n].vals[round[t]]
  <2>1. /\ Turn(t) /\ UNCHANGED <<hand, node, heap>>
        /\ \/ pc'[t] \in {"version", "conclude"}
           \/ val # NONE /\ pc'[t] = "write" /\ read'[t] = Min({c, val})
    BY <1>1, <1>9, ReadTurn
  <2>2. n \in DOMAIN heap /\ heap[n].list = "result" /\ round[t] \in ScanTypes
    BY <1>1, <2>0 DEF For, Locals
  <2>3. /\ c \in Nat /\ (c # Unknown => ToldIn(said, heap[n].ip, heap[n].portno, c))
        /\ val # NONE => val \in Nat /\ ToldIn(said, heap[n].ip, heap[n].portno, val)
    BY <1>l, <2>2 DEF KeptAt
  <2>4. heap[n].ip = hand[t].ip /\ heap[n].portno = hand[t].portno
    BY <2>0 DEF For
  <2> HIDE DEF c, val, n
  <2>5. ASSUME pc'[t] = "write"
        PROVE  read'[t] \in Nat /\ (read'[t] # Unknown => ToldIn(said', hand'[t].ip, hand'[t].portno, read'[t]))
    <3>1. val \in Nat /\ read'[t] \in {c, val}
      BY <2>1, <2>3, <2>5, MinOfTwo
    <3>2. read'[t] \in Nat /\ (read'[t] # Unknown => ToldIn(said, heap[n].ip, heap[n].portno, read'[t]))
      BY <2>1, <2>3, <2>5, <3>1
    <3>3. said' = said /\ hand'[t] = hand[t]
      BY <1>2, <2>1
    <3> QED BY <2>4, <3>2, <3>3
  <2>6. Handed' /\ Drawn'
    BY <1>1, <1>2, <1>4, <2>0, <2>1, <2>5, TurnTold DEF InPush, AtNode
  <2> QED BY <1>q, <2>1, <2>6
<1>10. CASE ConcludeWrite(t)
  <2>0. For(heap, node[t], hand[t]) /\ hand[t].list = "result" /\ pc[t] = "write"
    BY <1>4, <1>10 DEF ConcludeWrite, Pushing, AtNode
  <2>1. /\ Turn(t) /\ pc'[t] \in {"version", "conclude"} /\ SameNodes /\ UNCHANGED hand
        /\ \A k \in DOMAIN heap :
              /\ heap'[k].vals = heap[k].vals
              /\ heap'[k].conclusion = heap[k].conclusion \/ (k = node[t] /\ heap'[k].conclusion = read[t])
    BY <1>1, <1>10, <2>0, ConcludedNode
  <2>2. Handed' /\ Drawn'
    BY <1>1, <1>2, <1>4, <2>0, <2>1, TurnTold DEF InPush, AtNode
  <2>3. ASSUME NEW n \in DOMAIN heap' PROVE KeptAt(heap', said, n)
    <3>1. n \in DOMAIN heap /\ heap'[n].list = heap[n].list /\ heap'[n].ip = heap[n].ip
          /\ heap'[n].portno = heap[n].portno
      BY <2>1 DEF SameNodes
    <3>2. KeptAt(heap, said, n)
      BY <1>l, <3>1
    <3>3. n = node[t] => read[t] \in Nat /\ (read[t] # Unknown => ToldIn(said, heap[n].ip, heap[n].portno, read[t]))
      BY <1>1, <2>0 DEF For, Drawn
    <3> QED BY <2>1, <3>1, <3>2, <3>3 DEF KeptAt
  <2> QED BY <1>k, <2>2, <2>3
<1> QED BY <1>5, <1>6, <1>7, <1>8, <1>9, <1>10 DEF Push_

LEMMA ToldStep == ListInv /\ ToldInv /\ [Next]_vars => ToldInv'
<1> SUFFICES ASSUME ListInv, ToldInv, [Next]_vars PROVE ToldInv'
  OBVIOUS
<1>1. CASE UNCHANGED <<pc, hand, round, read, said>> /\ (heap' = heap \/ heap' = <<>>)
  <2>1. Handed' /\ Drawn'
    BY <1>1 DEF ToldInv, Handed, Drawn
  <2>2. Kept'
    BY <1>1 DEF ToldInv, Kept, KeptAt
  <2> QED BY <2>1, <2>2 DEF ToldInv
<1>2. CASE \E t \in Workers : Run(t) \/ version_detection(t) \/ Disturb(t)
  <2>1. PICK t \in Workers : Probing(t) \/ Push_(t)
    BY <1>2 DEF Run, Probing
  <2> QED BY <2>1, ProbingTold, PushingTold
<1> QED BY <1>1, <1>2 DEF Next, MainStep, CreateJobs, JoinThreads, PrintResults, Over, vars, local, lists

LEMMA ToldInit == Init => ToldInv
<1> SUFFICES ASSUME Init PROVE ToldInv
  OBVIOUS
<1>1. DOMAIN heap = {} /\ \A t \in Threads : pc[t] = "get"
  BY DEF Init
<1> QED BY <1>1 DEF ToldInv, Handed, Kept, Drawn, InPush, AtNode

(* Whatever the order of the steps of the threads, whose pushes no lock    *)
(* keeps apart (push_result and push_servver_result search, allocate, link *)
(* and update as they go), both lists stay lists: the walk from a top ends *)
(* and meets the nodes of its own list alone, and a conclusion that is     *)
(* drawn was pushed as a result of this address and port.                  *)
THEOREM ListsStaySound == Spec => []ListsSound
<1>1. Init => ListInv /\ ToldInv
  BY ListInit, ToldInit
<1>2. ListInv /\ ToldInv /\ [Next]_vars => ListInv' /\ ToldInv'
  BY ListStep, ToldStep
<1>3. ListInv /\ ToldInv => ListsSound
  <2> SUFFICES ASSUME ListInv, ToldInv PROVE ListsSound
    OBVIOUS
  <2>1. ListsLinked
    BY WalksEnd
  <2>2. NONE \notin Nat
    BY DEF NONE
  <2>3. \A n \in DOMAIN heap : heap[n].list = "result" =>
          \/ heap[n].conclusion = Unknown
          \/ /\ heap[n].conclusion # NONE
             /\ Told(heap[n].ip, heap[n].portno, heap[n].conclusion)
    BY <2>2 DEF ToldInv, Kept, KeptAt, Told, ToldIn
  <2> QED BY <2>1, <2>3 DEF ListsSound
<1> QED BY <1>1, <1>2, <1>3, PTL DEF Spec


-----------------------------------------------------------------------------
(* Open means open                                                         *)

(* Only an open port sends what is read as "open".                         *)
LEMMA AnswersTrue ==
  ASSUME NEW t, NEW j, NEW p \in Answers(t, j), (p.proto = "tcp" /\ p.says = "synack") \/ p.proto = "udp"
  PROVE  IsOpen(p.ip, p.portno)
<1> DEFINE state == Truth(j.ip, j.portno)
           tcp == TcpAnswer(prepare_tcp_pkt(j.scan_type), state)
           P(proto, to, says) == Packet(proto, j.ip, j.portno, to, says)
<1>1. tcp = "synack" => state = "open"
  <2>1. \A fl, st : TcpAnswer(fl, st) = "synack" => st = "open"
    BY DEF TcpAnswer
  <2> QED BY <2>1
<1>2. \/ p = P("icmp", Machine, "unreachable") \/ p = P("icmp", Machine, "network") \/ p = P("icmp", Machine, "port")
      \/ p = P("tcp", t, tcp)
      \/ state = "open" /\ p = P("udp", Unbound, "data")
  <2> HIDE DEF P
  <2> HIDE DEF state, tcp
  <2>1. p \in CASE state = "filtered" -> {P("icmp", Machine, "unreachable")}
               [] state = "cut" -> {P("icmp", Machine, "network")}
               [] state \notin {"filtered", "cut"} /\ j.scan_type # UDP_SCAN ->
                     {P("tcp", t, tcp)} \ {P("tcp", t, "nothing")}
               [] state = "open" /\ j.scan_type = UDP_SCAN -> {P("udp", Unbound, "data")}
               [] state = "closed" /\ j.scan_type = UDP_SCAN -> {P("icmp", Machine, "port")}
               [] OTHER -> {}
    BY DEF Answers, P, state, tcp
  <2> QED BY <2>1
<1>3. ASSUME NEW proto, NEW to, NEW says, p = P(proto, to, says)
      PROVE  p.proto = proto /\ p.says = says /\ p.ip = j.ip /\ p.portno = j.portno
  BY <1>3 DEF Packet
<1> HIDE DEF P, tcp
<1>4. p.ip = j.ip /\ p.portno = j.portno
  BY <1>2, <1>3
<1>5. state = "open"
  BY <1>1, <1>2, <1>3
<1> QED BY <1>4, <1>5 DEF IsOpen

(* A result is handed over that is true.                                   *)
LEMMA SayTrue ==
  ASSUME Locals, NEW t \in Threads, NEW port, NEW v, Say(t, port, v), UNCHANGED <<job, node, round, read>>,
         v = R_OPEN => IsOpen(job[t].ip, port)
  PROVE  True(hand'[t])
<1>1. hand'[t] = Record("result", job[t].ip, port, job[t].scan_type, v)
  BY SayTurn
<1> QED BY <1>1 DEF True, Record

(* Giving up never says "open".                                            *)
LEMMA GivesUpTrue ==
  ASSUME Locals, NEW t \in Threads, GiveUpOrRetry(t), UNCHANGED <<job, node, round, read>>, pc'[t] = "search"
  PROVE  True(hand'[t])
<1> DEFINE v == TimeoutVerdict(job[t].scan_type)
           port == job[t].portno
<1>1. v # R_OPEN
  BY DEF TimeoutVerdict, R_OPEN, R_FILTERED, R_OPN_FIL
<1>2. CASE Say(t, port, v)
  <2> HIDE DEF v, port
  <2> QED BY <1>1, <1>2, SayTrue
<1>3. CASE Goto(t, "send")
  BY <1>3 DEF Goto, Locals
<1> QED BY <1>2, <1>3 DEF GiveUpOrRetry

(* A packet that matches says of its sender what is true.                  *)
LEMMA PacketTrue ==
  ASSUME Locals, NEW t \in Threads, Packets, NEW p \in net, Matches(t, p), got_packet(t, p),
         UNCHANGED <<job, node, round, read>>, pc'[t] = "search"
  PROVE  True(hand'[t])
<1> DEFINE v == Verdict(p, job[t])
           port == IF p.proto = "tcp" THEN p.portno ELSE job[t].portno
<1>1. v = R_OPEN => IsOpen(job[t].ip, port)
  <2> HAVE v = R_OPEN
  <2>1. p.proto \in {"tcp", "udp"} /\ IsOpen(p.ip, p.portno)
    BY VerdictType DEF Packets
  <2>2. p.ip = job[t].ip /\ p.portno = job[t].portno
    BY <2>1 DEF Matches
  <2> QED BY <2>1, <2>2
<1>2. CASE Say(t, port, v)
  <2> HIDE DEF v, port
  <2> QED BY <1>1, <1>2, SayTrue
<1>3. CASE Goto(t, "version")
  BY <1>3 DEF Goto, Locals
<1> QED BY <1>2, <1>3 DEF got_packet

LEMMA ProbingTrue ==
  ASSUME Locals, mode = "threaded", Packets, NEW t \in Threads, Probing(t)
  PROVE  Packets' /\ (pc'[t] = "search" /\ hand'[t].list = "result" => True(hand'[t]))
<1>1. CASE get_next_job(t)
  BY <1>1 DEF get_next_job, Goto, Locals, Packets
<1>2. CASE SendProbe(t)
  <2>1. pc'[t] # "search"
    BY <1>2 DEF SendProbe, Goto, Locals
  <2>2. net' = net \/ net' = net \cup Answers(t, job[t])
    BY <1>2 DEF SendProbe
  <2>3. Packets'
    BY <2>2, AnswersTrue DEF Packets
  <2> QED BY <2>1, <2>3
<1>3. CASE GotPacket(t)
  <2>1. PICK p \in net : /\ Matches(t, p) /\ got_packet(t, p)
                         /\ net' = Closed(t, net \ {p}) \cup Copies(t, p)
    BY <1>3 DEF GotPacket
  <2>2. UNCHANGED <<job, node, round, read>>
    BY <1>3 DEF GotPacket, Polling
  <2>3. \A q \in Copies(t, p) : q.proto = "icmp"
    BY DEF Copies, Packet
  <2>4. Packets'
    BY <2>1, <2>3 DEF Packets, Closed
  <2> QED BY <2>1, <2>2, <2>4, PacketTrue
<1>c. net' = Closed(t, net) => Packets'
  BY DEF Packets, Closed
<1>4. CASE PollTimeout(t) \/ PollError(t)
  BY <1>4, <1>c, GivesUpTrue DEF PollTimeout, PollError, Polling
<1>5. CASE StrayPacket(t)
  <2>0. net' = net \/ net' = Closed(t, net)
    BY <1>5 DEF StrayPacket
  <2>1. CASE GiveUpOrRetry(t)
    BY <1>5, <1>c, <2>0, <2>1, GivesUpTrue DEF StrayPacket, Polling, Packets
  <2>2. CASE UNCHANGED <<pc, hand>>
    <3>1. pc[t] = "poll"
      BY <1>5 DEF StrayPacket, Polling
    <3> QED BY <1>c, <2>0, <2>2, <3>1 DEF Packets
  <2> QED BY <1>5, <2>1, <2>2 DEF StrayPacket
<1>6. CASE VersionCheck(t) \/ version_detection(t)
  BY <1>6, VersionTells DEF Packets
<1>7. CASE GotUseless(t)
  <2>1. PICK p \in Useless(t, job[t]) : got_packet(t, p)
    BY <1>7 DEF GotUseless
  <2>2. UNCHANGED <<job, node, round, read>> /\ Packets'
    BY <1>7, <1>c DEF GotUseless, Polling
  <2>3. p.proto = "tcp" /\ p.says \in {"plain", "short"}
    BY DEF Useless, Packet
  <2> DEFINE v == Verdict(p, job[t])
             port == IF p.proto = "tcp" THEN p.portno ELSE job[t].portno
  <2>4. v # R_OPEN
    BY <2>3 DEF Verdict, R_OPEN, NONE
  <2>5. CASE Say(t, port, v)
    <3> HIDE DEF v, port
    <3> QED BY <2>2, <2>4, <2>5, SayTrue
  <2>6. CASE Goto(t, "version")
    BY <2>2, <2>6 DEF Goto, Locals
  <2> QED BY <2>1, <2>5, <2>6 DEF got_packet
<1> QED
  BY <1>1, <1>2, <1>3, <1>4, <1>5, <1>6, <1>7 DEF Probing, Receive, Disturb, DispatchPacket, DispatchBreak,
     DispatchNothing, DispatchForeign

(* No step changes the kind of scan.                                        *)
LEMMA ModeStays == [Next]_vars => mode' = mode
<1> SUFFICES ASSUME [Next]_vars PROVE mode' = mode
  OBVIOUS
<1>1. CASE MainStep \/ Over \/ UNCHANGED vars
  BY <1>1 DEF MainStep, CreateJobs, JoinThreads, PrintResults, Over, config, vars
<1>2. ASSUME NEW t \in Workers, Run(t) \/ version_detection(t) \/ Disturb(t)
      PROVE  mode' = mode
  <2>1. CASE get_next_job(t) \/ SendProbe(t) \/ VersionCheck(t) \/ version_detection(t)
    BY <2>1 DEF get_next_job, SendProbe, VersionCheck, version_detection, config
  <2>2. CASE Receive(t)
    BY <2>2 DEF Receive, GotPacket, PollTimeout, DispatchPacket, DispatchBreak, DispatchNothing, Polling, config
  <2>3. CASE Disturb(t)
    BY <2>3 DEF Disturb, StrayPacket, PollError, GotUseless, DispatchForeign, Polling, config
  <2>4. CASE Push_(t)
    BY <2>4 DEF Push_, PushSearch, PushNew, PushLink, PushUpdate, ConcludeRead, ConcludeWrite, Pushing, config
  <2> QED BY <1>2, <2>1, <2>2, <2>3, <2>4 DEF Run
<1> QED BY <1>1, <1>2 DEF Next

LEMMA OpenStep == ListInv /\ OpenInv /\ [Next]_vars => OpenInv'
<1> SUFFICES ASSUME ListInv, OpenInv, [Next]_vars, mode' = "threaded"
             PROVE  Packets' /\ \A r \in said' : True(r)
  BY DEF OpenInv, True
<1>0. mode = "threaded"
  BY ModeStays
<1>1. Packets /\ \A r \in said : True(r)
  BY <1>0 DEF OpenInv
<1>2. CASE UNCHANGED <<net, said>>
  BY <1>1, <1>2 DEF Packets
<1>3. ASSUME NEW t \in Workers, Probing(t)
      PROVE  Packets' /\ \A r \in said' : True(r)
  <2>1. t \in Threads /\ Locals
    BY WorkersAreThreads DEF ListInv, Shape
  <2>2. Packets' /\ (pc'[t] = "search" /\ hand'[t].list = "result" => True(hand'[t]))
    BY <1>0, <1>1, <1>3, <2>1, ProbingTrue
  <2>3. Tells(t)
    BY <1>3, <2>1, ProbingTells
  <2> QED BY <1>1, <2>2, <2>3 DEF Tells
<1>4. ASSUME NEW t \in Workers, Push_(t) PROVE UNCHANGED <<net, said>>
  BY <1>4 DEF Push_, PushSearch, PushNew, PushLink, PushUpdate, ConcludeRead, ConcludeWrite, Pushing
<1>5. CASE \E t \in Workers : Run(t) \/ version_detection(t) \/ Disturb(t)
  <2>1. PICK t \in Workers : Probing(t) \/ Push_(t)
    BY <1>5 DEF Run, Probing
  <2> QED BY <1>2, <1>3, <1>4, <2>1
<1> QED BY <1>2, <1>5 DEF Next, MainStep, CreateJobs, JoinThreads, PrintResults, Over, vars, lists

(* The pool calls a port open only when it is: for any number of threads,  *)
(* any loss, delay or mixing of answers (got_packet, the matching at the   *)
(* poll) and any race on the unlocked records (push_result).               *)
THEOREM OpenMeansOpen == Spec => []OpenIsOpen
<1>1. Init => ListInv /\ ToldInv /\ OpenInv
  BY ListInit, ToldInit DEF Init, OpenInv, Packets
<1>2. ListInv /\ ToldInv /\ OpenInv /\ [Next]_vars => ListInv' /\ ToldInv' /\ OpenInv'
  BY ListStep, ToldStep, OpenStep
<1>3. ToldInv /\ OpenInv => OpenIsOpen
  <2> SUFFICES ASSUME ToldInv, OpenInv, mode = "threaded", NEW n \in DOMAIN heap,
                      heap[n].list = "result", heap[n].conclusion = R_OPEN
               PROVE  Truth(heap[n].ip, heap[n].portno) = "open"
    BY DEF OpenIsOpen
  <2>1. R_OPEN # Unknown
    BY DEF R_OPEN, Unknown
  <2>2. PICK r \in said : r.ip = heap[n].ip /\ r.portno = heap[n].portno /\ r.val = R_OPEN
    BY <2>1 DEF ToldInv, Kept, KeptAt, ToldIn
  <2> QED BY <2>2 DEF OpenInv, True, IsOpen
<1> QED BY <1>1, <1>2, <1>3, PTL DEF Spec


-----------------------------------------------------------------------------
(* No job is done twice                                                    *)

(* The jobs a command line makes, and that none is made twice: true of the *)
(* command lines that name no port and no address again.  With one named   *)
(* twice the program makes its jobs twice.                                 *)
JobsOf(s) ==
  create_jobs(get_ipAdresses(s.ips, s.prefix.ip, s.prefix.len), Ports(s.ports), scan_flags(s.scans))
Distinct(js) == js \in Seq(Own(js)) /\ \A i, k \in DOMAIN js : i # k => js[i] # js[k]
DistinctJobs == \A s \in Setups : Distinct(JobsOf(s))

QueueInv ==
  /\ setup \in Setups
  /\ main = "scan" =>
       /\ Distinct(jobs)
       /\ \A t \in Threads : Held(t) => job[t] \notin Own(jobs)
       /\ \A t, u \in Threads : (t # u /\ Held(t) /\ Held(u)) => job[t] # job[u]

LEMMA RestDistinct ==
  ASSUME NEW js, Distinct(js), js # <<>>
  PROVE  Distinct(Tail(js)) /\ Own(Tail(js)) \subseteq Own(js) /\ Head(js) \notin Own(Tail(js)) /\ Head(js) \in Own(js)
<1> DEFINE r == Tail(js)
           S == Own(js)
<1>1. js \in Seq(S) /\ \A i, k \in DOMAIN js : i # k => js[i] # js[k]
  BY DEF Distinct
<1> HIDE DEF S
<1>2. /\ r \in Seq(S) /\ Len(js) \in Nat \ {0} /\ Len(r) = Len(js) - 1
      /\ DOMAIN js = 1 .. Len(js) /\ DOMAIN r = 1 .. Len(r)
      /\ \A i \in 1 .. Len(r) : r[i] = js[i + 1]
  <2>1. r \in Seq(S) /\ Len(r) = Len(js) - 1 /\ \A i \in 1 .. Len(r) : r[i] = js[i + 1]
    BY <1>1, HeadTailProperties
  <2>2. Len(js) # 0
    BY <1>1, EmptySeq
  <2>3. Len(js) \in Nat /\ DOMAIN js = 1 .. Len(js)
    BY <1>1
  <2> HIDE DEF r
  <2>4. DOMAIN r = 1 .. Len(r)
    BY <2>1
  <2> QED BY <2>1, <2>2, <2>3, <2>4
<1>3. Head(js) = js[1]
  BY <1>1
<1> HIDE DEF r
<1>4. \A i \in 1 .. Len(r) : i + 1 \in DOMAIN js /\ i + 1 # 1 /\ i \in Nat
  BY <1>2
<1>5. 1 \in DOMAIN js
  BY <1>2
<1>6. \A i, k \in DOMAIN r : i # k => r[i] # r[k]
  <2> TAKE i, k \in DOMAIN r
  <2> HAVE i # k
  <2>1. i + 1 # k + 1
    BY <1>2, <1>4
  <2> QED BY <1>1, <1>2, <1>4, <2>1
<1>7. r \in Seq(Own(r))
  BY <1>2, OwnRange
<1>8. Own(r) \subseteq S
  BY <1>2, <1>4 DEF Own, S
<1>9. Head(js) \notin Own(r)
  BY <1>1, <1>2, <1>3, <1>4, <1>5 DEF Own
<1>10. Head(js) \in S
  BY <1>3, <1>5 DEF Own, S
<1> QED BY <1>6, <1>7, <1>8, <1>9, <1>10 DEF Distinct, r, S

(* But for the one that takes a job, a step takes none.                    *)
Keeps == /\ UNCHANGED <<jobs, setup, main>>
         /\ \A u \in Threads : Held(u)' => Held(u) /\ job'[u] = job[u]

LEMMA KeepsQueue == ASSUME QueueInv, Keeps PROVE QueueInv'
<1>1. setup' \in Setups
  BY DEF QueueInv, Keeps
<1> SUFFICES ASSUME main' = "scan"
             PROVE  /\ Distinct(jobs')
                    /\ \A t \in Threads : Held(t)' => job'[t] \notin Own(jobs')
                    /\ \A t, u \in Threads : (t # u /\ Held(t)' /\ Held(u)') => job'[t] # job'[u]
  BY <1>1 DEF QueueInv, Distinct, Own
<1>2. main = "scan" /\ jobs' = jobs
  BY DEF Keeps
<1>3. Distinct(jobs')
  BY <1>2 DEF QueueInv
<1>4. \A t \in Threads : Held(t)' => job'[t] \notin Own(jobs')
  BY <1>2 DEF QueueInv, Keeps
<1>5. \A t, u \in Threads : (t # u /\ Held(t)' /\ Held(u)') => job'[t] # job'[u]
  BY <1>2 DEF QueueInv, Keeps
<1> QED BY <1>3, <1>4, <1>5

LEMMA RunKeeps ==
  ASSUME Locals, NEW t \in Threads, Probing(t) \/ Push_(t), ~get_next_job(t)
  PROVE  Keeps
<1>1. UNCHANGED <<jobs, setup, main>> /\ Held(t)
  BY DEF Probing, Push_, SendProbe, Receive, Disturb, VersionCheck, version_detection, GotPacket,
     PollTimeout, DispatchPacket, DispatchBreak, DispatchNothing, StrayPacket, PollError, GotUseless, DispatchForeign, Polling,
     PushSearch, PushNew, PushLink, PushUpdate, ConcludeRead, ConcludeWrite, Pushing, config, Held
<1>2. CASE Finished(t)
  <2>1. pc'[t] = "get" /\ \A u \in Threads : u # t => pc'[u] = pc[u] /\ job'[u] = job[u]
    BY <1>2 DEF Finished, Goto, Locals
  <2>2. \A u \in Threads : Held(u)' => Held(u) /\ job'[u] = job[u]
    BY <2>1 DEF Held
  <2> QED BY <1>1, <2>2 DEF Keeps
<1>3. CASE job' = job /\ (pc' = pc \/ \E l : Goto(t, l))
  <2>1. \A u \in Threads : u # t => pc'[u] = pc[u]
    BY <1>3 DEF Goto, Locals
  <2>2. \A u \in Threads : Held(u)' => Held(u) /\ job'[u] = job[u]
    BY <1>1, <1>3, <2>1 DEF Held
  <2> QED BY <1>1, <2>2 DEF Keeps
<1>4. ASSUME GiveUpOrRetry(t) PROVE \E l : Goto(t, l)
  BY <1>4 DEF GiveUpOrRetry, Say
<1>5. ASSUME NEW p, got_packet(t, p) PROVE \E l : Goto(t, l)
  BY <1>5 DEF got_packet, Say
<1>6. CASE Push_(t)
  BY <1>2, <1>3, <1>6 DEF Push_, PushSearch, PushNew, PushLink, PushUpdate, ConcludeRead, ConcludeWrite, NextRound
<1>7. CASE SendProbe(t) \/ VersionCheck(t) \/ version_detection(t)
  BY <1>2, <1>3, <1>7 DEF SendProbe, VersionCheck, version_detection
<1>8. CASE Receive(t) \/ Disturb(t)
  <2>1. job' = job
    BY <1>8 DEF Receive, Disturb, GotPacket,
      PollTimeout, DispatchPacket, DispatchBreak, DispatchNothing, StrayPacket, PollError, GotUseless, DispatchForeign, Polling
  <2>2. pc' = pc \/ \E l : Goto(t, l)
    BY <1>4, <1>5, <1>8 DEF Receive, Disturb, GotPacket,
      PollTimeout, DispatchPacket, DispatchBreak, DispatchNothing, StrayPacket, PollError, GotUseless, DispatchForeign
  <2> QED BY <1>3, <2>1, <2>2
<1> QED BY <1>6, <1>7, <1>8 DEF Probing

LEMMA TakeQueue ==
  ASSUME Locals, QueueInv, NEW t \in Threads, get_next_job(t)
  PROVE  QueueInv'
<1>1. main = "scan" /\ UNCHANGED <<setup, main>> /\ ~Held(t)
  BY DEF get_next_job, config, Held
<1>2. CASE jobs = <<>>
  <2>1. UNCHANGED <<jobs, job>> /\ Goto(t, "exit")
    BY <1>2 DEF get_next_job
  <2>2. \A u \in Threads : Held(u)' => Held(u)
    BY <2>1 DEF Goto, Locals, Held
  <2> QED BY <1>1, <2>1, <2>2, KeepsQueue DEF Keeps
<1>3. CASE jobs # <<>>
  <2>1. job' = [job EXCEPT ![t] = Head(jobs)] /\ jobs' = Tail(jobs) /\ Goto(t, "send")
    BY <1>3 DEF get_next_job
  <2>2. job'[t] = Head(jobs) /\ \A u \in Threads : u # t => job'[u] = job[u] /\ (Held(u)' => Held(u))
    BY <2>1 DEF Goto, Locals, Held
  <2>3. /\ Distinct(jobs)
        /\ \A u \in Threads : Held(u) => job[u] \notin Own(jobs)
        /\ \A u, v \in Threads : (u # v /\ Held(u) /\ Held(v)) => job[u] # job[v]
    BY <1>1 DEF QueueInv
  <2>4. Distinct(jobs') /\ Own(jobs') \subseteq Own(jobs) /\ Head(jobs) \notin Own(jobs') /\ Head(jobs) \in Own(jobs)
    BY <1>3, <2>1, <2>3, RestDistinct
  <2>5. ASSUME NEW u \in Threads, Held(u)' PROVE job'[u] \notin Own(jobs')
    BY <2>2, <2>3, <2>4, <2>5
  <2>6. ASSUME NEW u \in Threads, NEW v \in Threads, u # v, Held(u)', Held(v)' PROVE job'[u] # job'[v]
    BY <2>2, <2>3, <2>4, <2>6
  <2>7. setup' \in Setups
    BY <1>1 DEF QueueInv
  <2> QED BY <2>4, <2>5, <2>6, <2>7 DEF QueueInv, Distinct, Own
<1> QED BY <1>2, <1>3

LEMMA QueueStep ==
  ASSUME DistinctJobs PROVE ListInv /\ QueueInv /\ [Next]_vars => QueueInv'
<1> SUFFICES ASSUME ListInv, QueueInv, [Next]_vars PROVE QueueInv'
  OBVIOUS
<1>1. Locals /\ Resting
  BY DEF ListInv, Shape
<1>2. CASE CreateJobs
  <2>1. main # "scan" /\ setup' = setup /\ pc' = pc /\ (main' = "scan" => jobs' = JobsOf(setup))
    BY <1>2 DEF CreateJobs, Lists, JobsOf
  <2>2. main' = "scan" => Distinct(jobs')
    BY <2>1 DEF DistinctJobs, QueueInv
  <2>3. \A t \in Threads : ~(Held(t)')
    BY <1>1, <2>1 DEF Resting, Held
  <2> QED BY <2>1, <2>2, <2>3 DEF QueueInv, Distinct, Own
<1>3. CASE JoinThreads \/ PrintResults
  BY <1>3 DEF JoinThreads, PrintResults, QueueInv, config
<1>4. CASE UNCHANGED vars
  BY <1>4 DEF vars, config, local, QueueInv, Held, Distinct, Own
<1>5. CASE \E t \in Workers : Run(t) \/ version_detection(t) \/ Disturb(t)
  <2>1. PICK t \in Workers : Probing(t) \/ Push_(t)
    BY <1>5 DEF Run, Probing
  <2>2. t \in Threads
    BY WorkersAreThreads
  <2>3. CASE get_next_job(t)
    BY <1>1, <2>2, <2>3, TakeQueue
  <2>4. CASE ~get_next_job(t)
    BY <1>1, <2>1, <2>2, <2>4, RunKeeps, KeepsQueue
  <2> QED BY <2>3, <2>4
<1> QED BY <1>2, <1>3, <1>4, <1>5 DEF Next, MainStep, Over

(* Where the command line makes no job twice, no two threads ever have the *)
(* same job and none has one that is still in the queue (get_next_job).    *)
THEOREM JobsTakenOnce == ASSUME DistinctJobs PROVE Spec => []JobsOnce
<1>1. Init => ListInv /\ QueueInv
  BY ListInit DEF Init, QueueInv
<1>2. ListInv /\ QueueInv /\ [Next]_vars => ListInv' /\ QueueInv'
  BY ListStep, QueueStep
<1>3. QueueInv => JobsOnce
  BY WorkersAreThreads DEF QueueInv, JobsOnce, Distinct, Own
<1> QED BY <1>1, <1>2, <1>3, PTL DEF Spec

-----------------------------------------------------------------------------
(* With one thread at work no result is lost                               *)

(* The jobs of a command line are of the six scans: create_jobs makes them *)
(* from scan_flags, by folds over lists, which is induction over data and  *)
(* left to TLC.                                                            *)
Scans(js) == js \in Seq(Own(js)) /\ \A j \in Own(js) : j.scan_type \in ScanTypes
ScanJobs  == \A s \in Setups : Scans(JobsOf(s))

(* Every result is of one of the six scans.                                *)
Valid(r) == r.list = "result" /\ r.slot \in ScanTypes /\ r.val \in Results
ValidInv ==
  /\ setup \in Setups
  /\ main = "scan" => Scans(jobs)
  /\ \A t \in Threads : Held(t) => job[t].scan_type \in ScanTypes
  /\ \A r \in said : Valid(r)
  /\ \A t \in Threads : pc[t] \in InPush /\ hand[t].list = "result" => hand[t] \in said

(* No node is left out: a link leads to the next older node of the list,   *)
(* and the top is the newest one but for the one that is being linked.     *)
Dense ==
  /\ \A m, n \in DOMAIN heap : heap[m].list = heap[n].list /\ m < n => m <= heap[n].next
  /\ \A m \in DOMAIN heap : (pc[0] = "link" /\ m = node[0]) \/ m <= top[heap[m].list]
  /\ pc[0] = "link" => node[0] = Len(heap)

(* An address and port has one record, and one that is to be added none.   *)
Single ==
  /\ \A m, n \in DOMAIN heap :
       /\ heap[m].list = "result" /\ heap[n].list = "result"
       /\ heap[m].ip = heap[n].ip /\ heap[m].portno = heap[n].portno
       => m = n
  /\ pc[0] = "new" /\ hand[0].list = "result" => \A n \in DOMAIN heap : ~For(heap, n, hand[0])

(* A result is in hand, or it has a record whose conclusion is no greater. *)
Under(c, r) == r.val # NONE => c <= r.val
Entered(h, r) == \E n \in DOMAIN h : For(h, n, r) /\ Under(h[n].conclusion, r)
InHand(r) == pc[0] \in InPush /\ hand[0] = r
Entries   == main # "done" => \A r \in said : InHand(r) \/ Entered(heap, r)

(* The rounds that have passed the slot of the result in hand have brought *)
(* the conclusion down to it.                                              *)
Drawing == pc[0] \in {"conclude", "write"}
Lowest ==
  /\ ~Drawing => round[0] = 0
  /\ Drawing =>
       /\ heap[node[0]].vals[hand[0].slot] = hand[0].val
       /\ hand[0].slot < round[0] => Under(heap[node[0]].conclusion, hand[0])
  /\ pc[0] = "write" =>
       /\ read[0] <= heap[node[0]].conclusion
       /\ hand[0].slot = round[0] => Under(read[0], hand[0])

Reported ==
  main = "done" =>
    \A r \in said :
       r.val # NONE /\ r.ip \in ToSet(asked.ips) /\ r.portno \in ToSet(asked.ports) =>
         <<r.ip, r.portno, Least(r.ip, r.portno)>> \in report

Records  == Dense /\ Single /\ Entries /\ Lowest
AloneInv == Alone => Records /\ Reported

(* From a node on, the walk meets every older node of the list.            *)
LEMMA WalkReaches ==
  ASSUME Shape, Linked,
         \A m, n \in DOMAIN heap : heap[m].list = heap[n].list /\ m < n => m <= heap[n].next
  PROVE  \A k \in 0 .. Len(heap), m, x \in 1 .. Len(heap) :
           m <= k /\ x <= m /\ heap[x].list = heap[m].list =>
             Walk[k][m] \in Seq(1 .. Len(heap)) /\ x \in Own(Walk[k][m])
<1> DEFINE L == Len(heap)
           Fine(k, m) == /\ Walk[k][m] \in Seq(1 .. L)
                         /\ \A x \in 1 .. L : x <= m /\ heap[x].list = heap[m].list => x \in Own(Walk[k][m])
           Good(k) == \A m \in 1 .. L : m <= k => Fine(k, m)
           T == {k \in 0 .. L : ~Good(k)}
<1>1. L \in Nat /\ DOMAIN heap = 1 .. L
  BY HeapSize
<1>2. \A m, n \in 1 .. L : heap[m].list = heap[n].list /\ m < n => m <= heap[n].next
  BY <1>1
<1>3. \A m \in 1 .. L : heap[m].next \in 0 .. m - 1 /\ (heap[m].next # 0 => heap[heap[m].next].list = heap[m].list)
  BY <1>1 DEF Linked
<1>4. \A k \in 0 .. L : Walk[k] = Longer(k, Walk[k - 1])
  BY <1>1, WalkStep
<1>5. \A k, m \in 0 .. L : Walk[k][m] = IF k = 0 \/ m = 0 THEN <<>> ELSE <<m>> \o Walk[k - 1][heap[m].next]
  BY <1>4 DEF Longer
<1> HIDE DEF L, Fine
<1>7. T = {}
  <2> SUFFICES ASSUME T # {} PROVE FALSE
    OBVIOUS
  <2>1. T \in SUBSET Nat
    BY <1>1
  <2> HIDE DEF T
  <2>2. PICK k \in T : \A y \in T : k <= y
    BY <2>1, LeastExists
  <2>3. k \in 0 .. L /\ ~Good(k)
    BY <2>2 DEF T
  <2>4. PICK m \in 1 .. L : m <= k /\ ~Fine(k, m)
    BY <2>3
  <2>5. k # 0 /\ m # 0 /\ m \in 0 .. L /\ k - 1 \in 0 .. L /\ ~(k <= k - 1)
    BY <1>1, <2>3, <2>4
  <2>6. Good(k - 1)
    BY <2>2, <2>5 DEF T
  <2> DEFINE z == heap[m].next
             w == Walk[k - 1][z]
  <2>7. z \in 0 .. m - 1 /\ (z # 0 => heap[z].list = heap[m].list)
    BY <1>3
  <2>8. Walk[k][m] = <<m>> \o w
    BY <1>5, <2>3, <2>5
  <2> HIDE DEF z
  <2>9. z \in 0 .. L /\ z <= k - 1
    BY <1>1, <2>3, <2>4, <2>7
  <2>10. z # 0 => z \in 1 .. L /\ Fine(k - 1, z)
    BY <1>1, <2>6, <2>9
  <2>11. z = 0 => w = <<>>
    BY <1>1, <1>5, <2>5, <2>9
  <2> HIDE DEF w
  <2>12. w \in Seq(1 .. L)
    BY <2>10, <2>11, EmptySeq DEF Fine, w
  <2> DEFINE v == <<m>> \o w
  <2>13. <<m>> \in Seq(1 .. L) /\ Len(<<m>>) = 1 /\ <<m>>[1] = m
    OBVIOUS
  <2>14. /\ v \in Seq(1 .. L) /\ Len(v) = Len(<<m>>) + Len(w)
         /\ \A i \in 1 .. Len(<<m>>) + Len(w) : v[i] = IF i <= Len(<<m>>) THEN <<m>>[i] ELSE w[i - Len(<<m>>)]
    BY <2>12, <2>13, ConcatProperties
  <2> HIDE DEF v
  <2>15. Len(w) \in Nat /\ DOMAIN w = 1 .. Len(w) /\ DOMAIN v = 1 .. Len(v)
    BY <2>12, <2>14
  <2>16. Len(v) = Len(w) + 1 /\ v[1] = m /\ \A i \in 1 .. Len(w) : v[i + 1] = w[i]
    BY <2>13, <2>14, <2>15
  <2>17. m \in Own(v)
    <3>1. 1 \in DOMAIN v
      BY <2>15, <2>16
    <3> QED BY <2>16, <3>1 DEF Own
  <2>18. Own(w) \subseteq Own(v)
    <3> SUFFICES ASSUME NEW i \in DOMAIN w PROVE w[i] \in Own(v)
      BY DEF Own
    <3>1. i + 1 \in DOMAIN v /\ v[i + 1] = w[i]
      BY <2>15, <2>16
    <3> QED BY <3>1 DEF Own
  <2>19. ASSUME NEW x \in 1 .. L, x <= m, heap[x].list = heap[m].list PROVE x \in Own(v)
    <3>1. CASE x = m
      BY <2>17, <3>1
    <3>2. CASE x # m
      <4>1. x < m
        BY <1>1, <2>4, <2>19, <3>2
      <4>2. x <= z
        BY <1>2, <2>19, <4>1 DEF z
      <4>3. z # 0
        BY <1>1, <2>9, <4>2
      <4>4. heap[x].list = heap[z].list
        BY <2>7, <2>19, <4>3
      <4>5. x \in Own(w)
        BY <2>10, <4>2, <4>3, <4>4 DEF Fine, w
      <4> QED BY <2>18, <4>5
    <3> QED BY <3>1, <3>2
  <2>20. Fine(k, m)
    <3>1. Walk[k][m] = v
      BY <2>8 DEF v
    <3> QED BY <2>14, <2>19, <3>1 DEF Fine
  <2> QED BY <2>4, <2>20
<1>8. \A k \in 0 .. L : Good(k)
  BY <1>7
<1>9. \A k \in 0 .. L, m, x \in 1 .. L :
        m <= k /\ x <= m /\ heap[x].list = heap[m].list =>
          Walk[k][m] \in Seq(1 .. L) /\ x \in Own(Walk[k][m])
  BY <1>8 DEF Fine
<1> QED BY <1>9 DEF L

(* So the walk from the top of a list meets all of it.                     *)
LEMMA ChainIsAll ==
  ASSUME ListInv, Dense, NEW l \in ListNames
  PROVE  /\ Chain(top[l]) \in Seq(ListOf(l))
         /\ \A x \in DOMAIN heap :
              heap[x].list = l /\ ~(pc[0] = "link" /\ x = node[0]) => x \in Own(Chain(top[l]))
<1>1. Shape /\ Linked
  BY DEF ListInv
<1>2. Len(heap) \in Nat /\ DOMAIN heap = 1 .. Len(heap) /\ top[l] \in 0 .. Len(heap)
      /\ (top[l] # 0 => heap[top[l]].list = l)
  BY <1>1, HeapSize DEF Linked
<1>3. Chain(top[l]) = Walk[Len(heap)][top[l]]
  BY DEF Chain
<1>4. Chain(top[l]) \in Seq(ListOf(l))
  BY <1>1, <1>2, <1>3, WalkStays
<1>5. ASSUME NEW x \in DOMAIN heap, heap[x].list = l, ~(pc[0] = "link" /\ x = node[0])
      PROVE  x \in Own(Chain(top[l]))
  <2>1. x <= top[l] /\ x \in 1 .. Len(heap)
    BY <1>2, <1>5 DEF Dense
  <2>2. top[l] \in 1 .. Len(heap) /\ top[l] <= Len(heap) /\ Len(heap) \in 0 .. Len(heap)
    BY <1>2, <2>1
  <2>3. heap[x].list = heap[top[l]].list
    BY <1>2, <1>5, <2>2
  <2>4. \A m, n \in DOMAIN heap : heap[m].list = heap[n].list /\ m < n => m <= heap[n].next
    BY DEF Dense
  <2> QED BY <1>1, <1>3, <2>1, <2>2, <2>3, <2>4, WalkReaches
<1> QED BY <1>4, <1>5

(* A push keeps its record in hand to its end.                             *)
LEMMA PushKeepsHand ==
  ASSUME Locals, NEW t \in Threads, Push_(t)
  PROVE  /\ UNCHANGED <<net, said, main, mode, report, asked>> /\ pc[t] \in InPush
         /\ hand'[t] = hand[t] \/ pc'[t] = "get"
         /\ \A u \in Threads : u # t => pc'[u] = pc[u] /\ hand'[u] = hand[u]
<1>1. UNCHANGED <<net, said, main, mode, report, asked>> /\ pc[t] \in InPush
  BY DEF Push_, PushSearch, PushNew, PushLink, PushUpdate, ConcludeRead, ConcludeWrite, Pushing, InPush, AtNode,
         config
<1>2. CASE Finished(t)
  BY <1>1, <1>2 DEF Finished, Goto, Locals
<1>3. CASE hand' = hand /\ \E l : Goto(t, l)
  BY <1>1, <1>3 DEF Goto, Locals
<1> QED BY <1>2, <1>3 DEF Push_, PushSearch, PushNew, PushLink, PushUpdate, ConcludeRead, ConcludeWrite, NextRound

LEMMA RestScans ==
  ASSUME NEW js, Scans(js), js # <<>>
  PROVE  Scans(Tail(js)) /\ Head(js).scan_type \in ScanTypes
<1> DEFINE r == Tail(js)
           S == Own(js)
<1>1. js \in Seq(S) /\ \A j \in S : j.scan_type \in ScanTypes
  BY DEF Scans
<1> HIDE DEF S
<1>2. r \in Seq(S)
  BY <1>1, HeadTailProperties
<1>3. Head(js) \in S
  BY <1>1, HeadTailProperties
<1> HIDE DEF r
<1>4. r \in Seq(Own(r)) /\ Own(r) \subseteq S
  BY <1>2, OwnRange DEF Own
<1> QED BY <1>1, <1>3, <1>4 DEF Scans, r

LEMMA TurnValid ==
  ASSUME Locals, ValidInv, NEW t \in Threads, Probing(t) \/ Push_(t)
  PROVE  /\ \A r \in said' : Valid(r)
         /\ \A u \in Threads : pc'[u] \in InPush /\ hand'[u].list = "result" => hand'[u] \in said'
<1>0. /\ \A u \in Threads : Held(u) => job[u].scan_type \in ScanTypes
      /\ \A r \in said : Valid(r)
      /\ \A u \in Threads : pc[u] \in InPush /\ hand[u].list = "result" => hand[u] \in said
  BY DEF ValidInv
<1>1. CASE Push_(t)
  <2>1. /\ UNCHANGED <<net, said>> /\ pc[t] \in InPush
        /\ hand'[t] = hand[t] \/ pc'[t] = "get"
        /\ \A u \in Threads : u # t => pc'[u] = pc[u] /\ hand'[u] = hand[u]
    BY <1>1, PushKeepsHand
  <2>2. "get" \notin InPush
    BY DEF InPush, AtNode
  <2> QED BY <1>0, <2>1, <2>2
<1>2. CASE Probing(t)
  <2>2. Tells(t) /\ ProbeEffect(t)
    BY <1>2, ProbingTells, ProbingEffect
  <2>3. CASE said' = said /\ ~(pc'[t] = "search" /\ hand'[t].list = "result")
    BY <1>0, <2>2, <2>3 DEF ProbeEffect, Turn, InPush
  <2>4. CASE /\ said' = said \cup {hand'[t]} /\ pc'[t] = "search"
             /\ hand'[t].list = "result" /\ hand'[t].val \in Results /\ hand'[t].slot = job[t].scan_type
    <3>1. pc[t] \notin {"get", "exit"}
      <4>1. CASE get_next_job(t)
        BY <2>4, <4>1 DEF get_next_job, Goto, Locals
      <4> QED BY <1>2, <4>1 DEF Probing, SendProbe, Receive, Disturb, VersionCheck, version_detection, GotPacket,
            PollTimeout, DispatchPacket, DispatchBreak, DispatchNothing, StrayPacket, PollError, GotUseless, DispatchForeign, Polling
    <3>2. hand'[t].slot \in ScanTypes
      BY <1>0, <2>4, <3>1 DEF Held
    <3>3. Valid(hand'[t])
      BY <2>4, <3>2 DEF Valid
    <3> QED BY <1>0, <2>2, <2>4, <3>3 DEF ProbeEffect, Turn
  <2> QED BY <2>2, <2>3, <2>4 DEF Tells
<1> QED BY <1>1, <1>2

LEMMA ValidStep ==
  ASSUME ScanJobs PROVE ListInv /\ ValidInv /\ [Next]_vars => ValidInv'
<1> SUFFICES ASSUME ListInv, ValidInv, [Next]_vars PROVE ValidInv'
  OBVIOUS
<1>1. Locals /\ Resting
  BY DEF ListInv, Shape
<1>2. CASE CreateJobs
  <2>1. UNCHANGED <<setup, pc, hand, job, said>> /\ (main' = "scan" => jobs' = JobsOf(setup))
    BY <1>2 DEF CreateJobs, Lists, JobsOf, local, lists
  <2>2. main' = "scan" => Scans(jobs')
    BY <2>1 DEF ScanJobs, ValidInv
  <2> QED BY <2>1, <2>2 DEF ValidInv, Scans, Own, Held
<1>3. CASE JoinThreads \/ PrintResults
  <2>1. UNCHANGED <<setup, pc, hand, job, net, said>> /\ main' # "scan"
    BY <1>3 DEF JoinThreads, PrintResults, local, lists, config
  <2> QED BY <2>1 DEF ValidInv, Held
<1>4. CASE UNCHANGED vars
  BY <1>4 DEF vars, config, local, lists, ValidInv, Held, Scans, Own
<1>5. CASE \E t \in Workers : Run(t) \/ version_detection(t) \/ Disturb(t)
  <2>1. PICK t \in Workers : Probing(t) \/ Push_(t)
    BY <1>5 DEF Run, Probing
  <2>2. t \in Threads
    BY WorkersAreThreads
  <2>3. /\ \A r \in said' : Valid(r)
        /\ \A u \in Threads : pc'[u] \in InPush /\ hand'[u].list = "result" => hand'[u] \in said'
    BY <1>1, <2>1, <2>2, TurnValid
  <2>4. /\ setup' \in Setups /\ (main' = "scan" => Scans(jobs'))
        /\ \A u \in Threads : Held(u)' => job'[u].scan_type \in ScanTypes
    <3>1. CASE ~get_next_job(t)
      <4>1. Keeps
        BY <1>1, <2>1, <2>2, <3>1, RunKeeps
      <4> QED BY <4>1 DEF Keeps, ValidInv
    <3>2. CASE get_next_job(t)
      <4>1. main = "scan" /\ UNCHANGED <<setup, main>> /\ Scans(jobs)
        BY <3>2 DEF get_next_job, config, ValidInv
      <4>2. CASE jobs = <<>>
        <5>1. UNCHANGED <<jobs, job>> /\ Goto(t, "exit")
          BY <3>2, <4>2 DEF get_next_job
        <5>2. \A u \in Threads : Held(u)' => Held(u)
          BY <1>1, <5>1 DEF Goto, Locals, Held
        <5> QED BY <4>1, <5>1, <5>2 DEF ValidInv
      <4>3. CASE jobs # <<>>
        <5>1. job' = [job EXCEPT ![t] = Head(jobs)] /\ jobs' = Tail(jobs) /\ Goto(t, "send")
          BY <3>2, <4>3 DEF get_next_job
        <5> DEFINE j == Head(jobs)
        <5>a. job' = [job EXCEPT ![t] = j]
          BY <5>1
        <5>b. \A u \in Threads : u # t => pc'[u] = pc[u]
          BY <1>1, <5>1 DEF Goto, Locals
        <5> HIDE DEF j
        <5>c. job'[t] = j /\ \A u \in Threads : u # t => job'[u] = job[u]
          BY <1>1, <2>2, <5>a DEF Locals
        <5>2. job'[t] = Head(jobs) /\ \A u \in Threads : u # t => job'[u] = job[u] /\ (Held(u)' => Held(u))
          BY <5>b, <5>c DEF Held, j
        <5>3. Scans(jobs') /\ Head(jobs).scan_type \in ScanTypes
          BY <4>1, <4>3, <5>1, RestScans
        <5>4. setup' \in Setups
          BY <4>1 DEF ValidInv
        <5>5. \A u \in Threads : Held(u)' => job'[u].scan_type \in ScanTypes
          BY <5>2, <5>3 DEF ValidInv
        <5> QED BY <5>3, <5>4, <5>5
      <4> QED BY <4>2, <4>3
    <3> QED BY <3>1, <3>2
  <2> QED BY <2>3, <2>4 DEF ValidInv, Scans, Own, Held
<1> QED BY <1>2, <1>3, <1>4, <1>5 DEF Next, MainStep, Over

LEMMA AloneWorkers == ASSUME Alone PROVE Workers = {0}
<1>1. CASE mode = "default"
  BY <1>1 DEF Workers
<1>2. CASE mode # "default"
  <2>1. IsFiniteSet(Threads) /\ Cardinality(Threads) = 1 /\ 0 \in Threads
    BY <1>2, ThreadsAssumption DEF Alone
  <2>2. \E x : Threads = {x}
    BY <2>1, FS_Singleton
  <2> QED BY <1>2, <2>1, <2>2 DEF Workers
<1> QED BY <1>1, <1>2

(* Between two pushes only a result is told, which is then in hand.        *)
LEMMA ProbingAlone ==
  ASSUME ListInv, Records, 0 \in Threads, main # "done", Probing(0)
  PROVE  Records'
<1>1. Locals
  BY DEF ListInv, Shape
<1>2. ProbeEffect(0) /\ UNCHANGED <<heap, top, mode, main>> /\ Tells(0)
  BY <1>1, ProbingEffect, ProbingTells
<1>3. pc[0] \notin InPush
  BY DEF Probing, get_next_job, SendProbe, Receive, Disturb, VersionCheck, version_detection, GotPacket,
     PollTimeout, DispatchPacket, DispatchBreak, DispatchNothing, StrayPacket, PollError, GotUseless, DispatchForeign, Polling, InPush, AtNode
<1>4. /\ pc[0] \notin {"link", "new", "conclude", "write"}
      /\ pc'[0] \notin {"link", "new", "conclude", "write"}
  BY <1>2, <1>3 DEF ProbeEffect, InPush, AtNode
<1>5. Dense'
  BY <1>2, <1>4 DEF Records, Dense
<1>6. Single'
  BY <1>2, <1>4 DEF Records, Single
<1>r. round' = round
  BY DEF Probing, get_next_job, SendProbe, Receive, Disturb, VersionCheck, version_detection, GotPacket,
     PollTimeout, DispatchPacket, DispatchBreak, DispatchNothing, StrayPacket, PollError, GotUseless, DispatchForeign, Polling
<1>7. Lowest'
  BY <1>2, <1>4, <1>r DEF Records, Lowest, Drawing
<1>8. Entries'
  <2>1. \A r \in said : Entered(heap, r)
    BY <1>3 DEF Records, Entries, InHand
  <2>2. \A r \in said' : r \in said \/ (r = hand'[0] /\ pc'[0] = "search")
    BY <1>2 DEF Tells
  <2>3. \A r : Entered(heap, r) => Entered(heap, r)'
    BY <1>2 DEF Entered, For
  <2>4. "search" \in InPush
    BY DEF InPush
  <2>5. \A r \in said' : InHand(r)' \/ Entered(heap, r)'
    BY <2>1, <2>2, <2>3, <2>4 DEF InHand
  <2> QED BY <2>5 DEF Entries, Entered, For, InHand
<1> QED BY <1>5, <1>6, <1>7, <1>8 DEF Records

(* The record stays in hand and the entries stay.                          *)
LEMMA EntriesKept ==
  ASSUME Entries, UNCHANGED <<said, main>>, pc'[0] \in InPush, hand'[0] = hand[0],
         \A r \in said : Entered(heap, r) => Entered(heap', r)
  PROVE  Entries'
<1>1. \A r : InHand(r) => InHand(r)'
  BY DEF InHand
<1> QED BY <1>1 DEF Entries, Entered, For, InHand

LEMMA SearchAlone ==
  ASSUME ListInv, Records, 0 \in Threads, hand[0].list \in ListNames, PushSearch(0)
  PROVE  Records'
<1> DEFINE c == Chain(top[hand[0].list])
<1>1. /\ Turn(0) /\ pc'[0] \in {"new", "update"} /\ UNCHANGED <<hand, heap, top, round, read>>
      /\ pc'[0] = "new" => \A i \in DOMAIN c : ~Same(c[i], hand[0])
  BY SearchFinds DEF ListInv
<1>2. pc[0] = "search" /\ UNCHANGED <<said, main>>
  BY DEF PushSearch, Pushing
<1>3. Dense'
  BY <1>1, <1>2 DEF Records, Dense
<1>4. \A n \in DOMAIN heap : heap[n].list = hand[0].list => n \in Own(c)
  BY <1>2, ChainIsAll DEF Records
<1> HIDE DEF c
<1>5. ASSUME pc'[0] = "new", hand[0].list = "result", NEW n \in DOMAIN heap, For(heap, n, hand[0])
      PROVE  FALSE
  <2>1. n \in Own(c)
    BY <1>4, <1>5 DEF For
  <2>2. PICK i \in DOMAIN c : c[i] = n
    BY <2>1 DEF Own
  <2>3. Same(n, hand[0])
    BY <1>5 DEF For, Same
  <2> QED BY <1>1, <1>5, <2>2, <2>3
<1>6. Single'
  BY <1>1, <1>5 DEF Records, Single, For
<1>7. Lowest'
  BY <1>1, <1>2 DEF Records, Lowest, Drawing
<1>8. Entries'
  BY <1>1, <1>2, EntriesKept DEF Records, InPush, AtNode
<1> QED BY <1>3, <1>6, <1>7, <1>8 DEF Records

LEMMA NewAlone ==
  ASSUME ListInv, Records, 0 \in Threads, hand[0].list \in ListNames, PushNew(0)
  PROVE  Records'
<1> DEFINE N == node'[0]
           L == Len(heap)
           l == hand[0].list
<1>1. /\ pc'[0] = "link" /\ UNCHANGED <<hand, top, round, read>>
      /\ For(heap', N, hand[0])
      /\ DOMAIN heap \subseteq DOMAIN heap' /\ \A n \in DOMAIN heap : heap'[n] = heap[n]
      /\ \A n \in DOMAIN heap' \ DOMAIN heap :
           /\ n = N /\ \A s \in ScanTypes : heap'[n].vals[s] = Empty(l)
      /\ N = Len(heap') /\ Len(heap') = L + 1 /\ heap'[N].next = top[l]
  <2>1. /\ pc'[0] = "link" /\ UNCHANGED <<hand, top, round, read>> /\ For(heap', N, hand[0])
        /\ DOMAIN heap \subseteq DOMAIN heap' /\ \A n \in DOMAIN heap : heap'[n] = heap[n]
    BY NewNode DEF ListInv
  <2>2. N = Len(heap') /\ Len(heap') = L + 1 /\ heap'[N].next = top[l]
    BY NewNode DEF ListInv
  <2>3. \A n \in DOMAIN heap' \ DOMAIN heap : \A s \in ScanTypes : heap'[n].vals[s] = Empty(l)
    BY NewNode DEF ListInv
  <2>4. \A n \in DOMAIN heap' \ DOMAIN heap : n = N
    BY NewNode DEF ListInv
  <2> QED BY <2>1, <2>2, <2>3, <2>4
<1>2. pc[0] = "new" /\ UNCHANGED <<said, main>>
  BY DEF PushNew, Pushing
<1>3. L \in Nat /\ DOMAIN heap = 1 .. L
  BY HeapSize DEF ListInv
<1>4. \A n \in DOMAIN heap' : n \in DOMAIN heap \/ n = N
  BY <1>1
<1>5. N \in Nat /\ \A n \in DOMAIN heap : n < N /\ n \in Nat
  BY <1>1, <1>3
<1>6. heap'[N].list = l /\ heap'[N].ip = hand[0].ip /\ (l = "result" => heap'[N].portno = hand[0].portno)
  BY <1>1 DEF For
<1> HIDE DEF N, L
<1>7. Dense'
  <2>1. \A m, n \in DOMAIN heap : heap[m].list = heap[n].list /\ m < n => m <= heap[n].next
    BY DEF Records, Dense
  <2>2. \A m \in DOMAIN heap : m <= top[heap[m].list]
    BY <1>2 DEF Records, Dense
  <2>3. ASSUME NEW m \in DOMAIN heap', NEW n \in DOMAIN heap', heap'[m].list = heap'[n].list, m < n
        PROVE  m <= heap'[n].next
    <3>1. CASE n \in DOMAIN heap
      <4>1. m \in DOMAIN heap
        BY <1>4, <1>5, <2>3, <3>1
      <4> QED BY <1>1, <2>1, <2>3, <3>1, <4>1
    <3>2. CASE n = N
      <4>1. m \in DOMAIN heap
        BY <1>4, <1>5, <2>3, <3>2
      <4>2. heap[m].list = l
        BY <1>1, <1>6, <2>3, <3>2, <4>1
      <4> QED BY <1>1, <2>2, <3>2, <4>1, <4>2
    <3> QED BY <1>4, <3>1, <3>2
  <2>4. \A m \in DOMAIN heap' : m = N \/ m <= top'[heap'[m].list]
    BY <1>1, <1>4, <2>2
  <2> QED BY <1>1, <2>3, <2>4 DEF Dense, N
<1>8. Single'
  <2>1. \A n \in DOMAIN heap : l = "result" => ~For(heap, n, hand[0])
    BY <1>2 DEF Records, Single
  <2>2. ASSUME NEW n \in DOMAIN heap, heap[n].list = "result", heap'[N].list = "result",
               heap[n].ip = heap'[N].ip, heap[n].portno = heap'[N].portno
        PROVE  FALSE
    BY <1>6, <2>1, <2>2 DEF For
  <2>3. \A m, n \in DOMAIN heap :
          /\ heap[m].list = "result" /\ heap[n].list = "result"
          /\ heap[m].ip = heap[n].ip /\ heap[m].portno = heap[n].portno
          => m = n
    BY DEF Records, Single
  <2>4. \A m, n \in DOMAIN heap' :
          /\ heap'[m].list = "result" /\ heap'[n].list = "result"
          /\ heap'[m].ip = heap'[n].ip /\ heap'[m].portno = heap'[n].portno
          => m = n
    BY <1>1, <1>4, <2>2, <2>3
  <2> QED BY <1>1, <2>4 DEF Single
<1>9. Lowest'
  BY <1>1, <1>2 DEF Records, Lowest, Drawing
<1>10. Entries'
  <2>1. \A r \in said : Entered(heap, r) => Entered(heap', r)
    BY <1>1 DEF Entered, For
  <2> QED BY <1>1, <1>2, <2>1, EntriesKept DEF Records, InPush, AtNode
<1> QED BY <1>7, <1>8, <1>9, <1>10 DEF Records

LEMMA LinkAlone ==
  ASSUME ListInv, Records, 0 \in Threads, hand[0].list \in ListNames, For(heap, node[0], hand[0]), PushLink(0)
  PROVE  Records'
<1> DEFINE n == node[0]
           l == hand[0].list
<1>1. pc'[0] = "update" /\ UNCHANGED <<hand, node, heap, round, read>>
  BY LinkedNode DEF ListInv
<1>2. pc[0] = "link" /\ UNCHANGED <<said, main>> /\ top' = [top EXCEPT ![l] = n]
  BY DEF PushLink, Pushing
<1>3. Len(heap) \in Nat /\ DOMAIN heap = 1 .. Len(heap) /\ top \in [ListNames -> Nat]
  BY HeapSize DEF ListInv, Shape, Nodes
<1>4. n = Len(heap)
  BY <1>2 DEF Records, Dense
<1>5. heap[n].list = l
  BY DEF For
<1> HIDE DEF n, l
<1>6. Dense'
  <2>1. ASSUME NEW m \in DOMAIN heap PROVE m <= top'[heap[m].list]
    <3>0. heap[m].list \in ListNames
      BY DEF ListInv, Linked
    <3>1. CASE heap[m].list = l
      <4>1. top'[l] = n
        BY <1>2, <1>3, <3>0, <3>1
      <4> QED BY <1>3, <1>4, <3>1, <4>1
    <3>2. CASE heap[m].list # l
      <4>1. m # n
        BY <1>5, <3>2
      <4>2. m <= top[heap[m].list]
        BY <1>2, <4>1 DEF Records, Dense, n
      <4>3. top'[heap[m].list] = top[heap[m].list]
        BY <1>2, <1>3, <3>0, <3>2
      <4> QED BY <4>2, <4>3
    <3> QED BY <3>1, <3>2
  <2> QED BY <1>1, <2>1 DEF Records, Dense
<1>7. Single'
  BY <1>1 DEF Records, Single
<1>8. Lowest'
  BY <1>1, <1>2 DEF Records, Lowest, Drawing
<1>9. Entries'
  BY <1>1, <1>2, EntriesKept DEF Records, InPush, AtNode
<1> QED BY <1>6, <1>7, <1>8, <1>9 DEF Records

(* The same nodes in the same place are as dense and as single as before.  *)
LEMMA SameNodesAlone ==
  ASSUME Dense, Single, SameNodes, top' = top, pc[0] \notin {"link", "new"}, pc'[0] \notin {"link", "new"}
  PROVE  Dense' /\ Single'
<1>1. /\ DOMAIN heap' = DOMAIN heap
      /\ \A k \in DOMAIN heap :
           /\ heap'[k].list = heap[k].list /\ heap'[k].ip = heap[k].ip
           /\ heap'[k].portno = heap[k].portno /\ heap'[k].next = heap[k].next
  BY DEF SameNodes
<1>2. Dense'
  BY <1>1 DEF Dense
<1>3. Single'
  BY <1>1 DEF Single
<1> QED BY <1>2, <1>3

LEMMA UpdateAlone ==
  ASSUME ListInv, ValidInv, Records, 0 \in Threads, hand[0].list \in ListNames,
         For(heap, node[0], hand[0]), PushUpdate(0)
  PROVE  Records'
<1> DEFINE n == node[0]
           v == hand[0].val
           sl == hand[0].slot
<1>1. /\ pc'[0] \in {"conclude", "get"} /\ SameNodes /\ UNCHANGED <<top, round, read>>
      /\ pc'[0] = "conclude" => UNCHANGED <<hand, node>> /\ hand[0].list = "result"
      /\ \A k \in DOMAIN heap :
           /\ heap'[k].conclusion = heap[k].conclusion
           /\ \A x \in ScanTypes : heap'[k].vals[x] = heap[k].vals[x] \/ (k = n /\ heap'[k].vals[x] = v)
      /\ sl \in ScanTypes => heap'[n].vals[sl] = v
  BY UpdatedNode DEF ListInv
<1>2. pc[0] = "update" /\ UNCHANGED <<said, main>>
  BY DEF PushUpdate, Pushing
<1>3. hand[0].list = "result" => pc'[0] = "conclude"
  <2>1. Locals
    BY DEF ListInv, Shape
  <2> QED BY <2>1 DEF PushUpdate, Goto, Locals
<1>4. hand[0].list = "result" => sl \in ScanTypes
  BY <1>2 DEF ValidInv, Valid, InPush, AtNode
<1>5. DOMAIN heap' = DOMAIN heap /\ \A k \in DOMAIN heap :
           /\ heap'[k].list = heap[k].list /\ heap'[k].ip = heap[k].ip /\ heap'[k].portno = heap[k].portno
  BY <1>1 DEF SameNodes
<1>6. n \in DOMAIN heap /\ heap[n].list = hand[0].list
  BY DEF For
<1> HIDE DEF n, v, sl
<1>7. Dense' /\ Single'
  BY <1>1, <1>2, SameNodesAlone DEF Records
<1>8. Lowest'
  <2>0. round[0] = 0
    BY <1>2 DEF Records, Lowest, Drawing
  <2>1. CASE hand[0].list = "result"
    <3>1. /\ pc'[0] = "conclude" /\ node'[0] = n /\ hand'[0].slot = sl /\ hand'[0].val = v
          /\ heap'[n].vals[sl] = v
      BY <1>1, <1>3, <1>4, <2>1 DEF n, sl, v
    <3>2. ~(sl < 0)
      BY <1>4, <2>1 DEF ScanTypes
    <3> QED BY <1>1, <2>0, <3>1, <3>2 DEF Lowest, Drawing
  <2>2. CASE hand[0].list # "result"
    <3>1. pc'[0] = "get"
      BY <1>1, <2>2
    <3> QED BY <1>1, <2>0, <3>1 DEF Lowest, Drawing
  <2> QED BY <2>1, <2>2
<1>9. Entries'
  <2>1. ASSUME NEW r \in said, Entered(heap, r) PROVE Entered(heap', r)
    <3>1. PICK k \in DOMAIN heap : For(heap, k, r) /\ Under(heap[k].conclusion, r)
      BY <2>1 DEF Entered
    <3>2. For(heap', k, r)
      BY <1>5, <3>1 DEF For
    <3> QED BY <1>1, <1>5, <3>1, <3>2 DEF Entered
  <2>2. CASE hand[0].list = "result"
    BY <1>1, <1>2, <1>3, <2>1, <2>2, EntriesKept DEF Records, InPush, AtNode
  <2>3. CASE hand[0].list # "result"
    <3>1. \A r \in said : ~InHand(r)
      BY <2>3 DEF ValidInv, Valid, InHand
    <3>2. main # "done" => \A r \in said : Entered(heap', r)
      BY <2>1, <3>1 DEF Records, Entries
    <3> QED BY <1>2, <3>2 DEF Entries, Entered, For
  <2> QED BY <2>2, <2>3
<1> QED BY <1>7, <1>8, <1>9 DEF Records

(* A round that is over has taken the result of its slot into account.     *)
LEMMA RoundOver ==
  ASSUME NEW k \in ScanTypes, NEW c, NEW r, r.slot \in ScanTypes,
         r.slot < k => Under(c, r), r.slot = k => Under(c, r)
  PROVE  r.slot < k + 1 => Under(c, r)
<1>1. r.slot < k + 1 => r.slot < k \/ r.slot = k
  BY DEF ScanTypes
<1> QED BY <1>1

(* The last round is over: the result in hand has its record.              *)
LEMMA RoundsOver ==
  ASSUME NEW h, NEW n \in DOMAIN h, NEW r, r.slot \in ScanTypes, For(h, n, r),
         r.slot < UDP_SCAN + 1 => Under(h[n].conclusion, r)
  PROVE  Entered(h, r)
<1>1. r.slot < UDP_SCAN + 1
  BY DEF ScanTypes, UDP_SCAN
<1> QED BY <1>1 DEF Entered

LEMMA ReadAlone ==
  ASSUME ListInv, ToldInv, ValidInv, Records, 0 \in Threads, hand[0].list = "result", For(heap, node[0], hand[0]),
         ConcludeRead(0)
  PROVE  Records'
<1> DEFINE n == node[0]
           c == heap[n].conclusion
           val == heap[n].vals[round[0]]
           r == hand[0]
<1>0. Locals /\ round[0] \in ScanTypes
  BY DEF ListInv, Shape, Locals
<1>1. /\ UNCHANGED <<hand, node, heap, top>>
      /\ \/ /\ val = NONE
            /\ \/ round[0] = UDP_SCAN /\ pc'[0] = "version"
               \/ round[0] # UDP_SCAN /\ round'[0] = round[0] + 1 /\ pc'[0] = "conclude"
         \/ /\ val # NONE /\ round' = round /\ pc'[0] = "write"
            /\ read'[0] = Min({c, val})
  BY <1>0, ReadTurn
<1>2. pc[0] = "conclude" /\ UNCHANGED <<said, main>>
  BY DEF ConcludeRead, Pushing
<1>3. n \in DOMAIN heap /\ heap[n].list = "result"
  BY DEF For
<1>4. c \in Nat /\ (val # NONE => val \in Nat)
  BY <1>0, <1>3 DEF ToldInv, Kept, KeptAt
<1>5. r \in said /\ r.slot \in ScanTypes
  BY <1>2 DEF ValidInv, Valid, InPush, AtNode
<1>6. heap[n].vals[r.slot] = r.val /\ (r.slot < round[0] => Under(c, r))
  BY <1>2 DEF Records, Lowest, Drawing
<1>7. Dense' /\ Single'
  <2>1. pc'[0] \notin {"link", "new"}
    BY <1>1
  <2> QED BY <1>1, <1>2, <2>1 DEF Records, Dense, Single
<1>f. For(heap, n, r)
  OBVIOUS
<1> HIDE DEF n, c, val, r
<1>8. CASE val = NONE
  <2>1. r.slot = round[0] => Under(c, r)
    BY <1>6, <1>8 DEF Under, val
  <2>2. r.slot < round[0] + 1 => Under(c, r)
    BY <1>0, <1>5, <1>6, <2>1, RoundOver
  <2>3. CASE round[0] = UDP_SCAN /\ pc'[0] = "version"
    <3>1. Entered(heap, r)
      BY <1>3, <1>5, <1>f, <2>2, <2>3, RoundsOver DEF c
    <3>2. Entries'
      BY <1>1, <1>2, <3>1 DEF Records, Entries, Entered, For, InHand, r
    <3>3. round'[0] = 0
      BY <1>0, <1>8, <2>3 DEF ConcludeRead, NextRound, Locals, val, n
    <3>4. Lowest'
      BY <2>3, <3>3 DEF Lowest, Drawing
    <3> QED BY <1>7, <3>2, <3>4 DEF Records
  <2>4. CASE round'[0] = round[0] + 1 /\ pc'[0] = "conclude"
    <3>1. Entries'
      BY <1>1, <1>2, <2>4, EntriesKept DEF Records, InPush, AtNode
    <3>2. Lowest'
      BY <1>1, <1>6, <2>2, <2>4 DEF Lowest, Drawing, n, c, r
    <3> QED BY <1>7, <3>1, <3>2 DEF Records
  <2> QED BY <1>1, <1>8, <2>3, <2>4
<1>9. CASE val # NONE
  <2>1. round' = round /\ pc'[0] = "write" /\ read'[0] = Min({c, val})
    BY <1>1, <1>9
  <2>2. Min({c, val}) \in Nat /\ Min({c, val}) <= c /\ Min({c, val}) <= val
    BY <1>4, <1>9, MinOfTwo
  <2>3. r.slot = round[0] => Under(read'[0], r)
    BY <1>6, <2>1, <2>2 DEF Under, val
  <2>4. Entries'
    BY <1>1, <1>2, <2>1, EntriesKept DEF Records, InPush, AtNode
  <2>5. Lowest'
    BY <1>1, <1>6, <2>1, <2>2, <2>3 DEF Lowest, Drawing, n, c, r
  <2> QED BY <1>7, <2>4, <2>5 DEF Records
<1> QED BY <1>8, <1>9

LEMMA WriteAlone ==
  ASSUME ListInv, ToldInv, ValidInv, Records, 0 \in Threads, hand[0].list = "result",
         For(heap, node[0], hand[0]), ConcludeWrite(0)
  PROVE  Records'
<1> DEFINE n == node[0]
           r == hand[0]
<1>0. Locals /\ round[0] \in ScanTypes
  BY DEF ListInv, Shape, Locals
<1>1. /\ SameNodes /\ UNCHANGED <<top, hand, node>>
      /\ \/ round[0] = UDP_SCAN /\ pc'[0] = "version"
         \/ round[0] # UDP_SCAN /\ round'[0] = round[0] + 1 /\ pc'[0] = "conclude"
      /\ \A k \in DOMAIN heap :
           /\ heap'[k].vals = heap[k].vals
           /\ heap'[k].conclusion = heap[k].conclusion \/ (k = n /\ heap'[k].conclusion = read[0])
      /\ heap'[n].conclusion = read[0]
  BY ConcludedNode DEF ListInv
<1>2. pc[0] = "write" /\ UNCHANGED <<said, main>>
  BY DEF ConcludeWrite, Pushing
<1>3. r \in said /\ r.slot \in ScanTypes /\ r.val \in Results
  BY <1>2 DEF ValidInv, Valid, InPush, AtNode
<1>4. /\ DOMAIN heap' = DOMAIN heap
      /\ \A k \in DOMAIN heap :
           /\ heap'[k].list = heap[k].list /\ heap'[k].ip = heap[k].ip /\ heap'[k].portno = heap[k].portno
  BY <1>1 DEF SameNodes
<1>5. n \in DOMAIN heap /\ heap[n].list = "result"
  BY DEF For
<1>6. /\ heap[n].vals[r.slot] = r.val /\ read[0] <= heap[n].conclusion
      /\ r.slot < round[0] => Under(heap[n].conclusion, r)
      /\ r.slot = round[0] => Under(read[0], r)
  BY <1>2 DEF Records, Lowest, Drawing
<1>7. read[0] \in Nat /\ heap[n].conclusion \in Nat
  BY <1>2, <1>5 DEF ToldInv, Drawn, Kept, KeptAt
<1>f. For(heap, n, r)
  OBVIOUS
<1>9. Dense' /\ Single'
  BY <1>1, <1>2, SameNodesAlone DEF Records
<1> HIDE DEF n, r
<1>u. ASSUME NEW q \in said, Under(heap[n].conclusion, q) PROVE Under(read[0], q)
  <2>1. q.val \in Results
    BY DEF ValidInv, Valid
  <2> QED BY <1>6, <1>7, <1>u, <2>1 DEF Under, Results
<1>8. r.slot < round[0] + 1 => Under(read[0], r)
  BY <1>0, <1>3, <1>6, <1>u, RoundOver
<1>e. ASSUME NEW q \in said, Entered(heap, q) PROVE Entered(heap', q)
  <2>1. PICK k \in DOMAIN heap : For(heap, k, q) /\ Under(heap[k].conclusion, q)
    BY <1>e DEF Entered
  <2>2. For(heap', k, q)
    BY <1>4, <2>1 DEF For
  <2>3. Under(heap'[k].conclusion, q)
    BY <1>1, <1>u, <2>1
  <2> QED BY <1>4, <2>1, <2>2, <2>3 DEF Entered
<1>10. CASE round[0] = UDP_SCAN /\ pc'[0] = "version"
  <2>0. n \in DOMAIN heap' /\ For(heap', n, r)
    BY <1>4, <1>5, <1>f DEF For
  <2>1. Entered(heap', r)
    BY <1>1, <1>3, <1>8, <1>10, <2>0, RoundsOver
  <2>2. Entries'
    BY <1>2, <1>e, <2>1 DEF Records, Entries, Entered, For, InHand, r
  <2>3. round'[0] = 0
    BY <1>0, <1>10 DEF ConcludeWrite, NextRound, Locals
  <2>4. Lowest'
    BY <1>10, <2>3 DEF Lowest, Drawing
  <2> QED BY <1>9, <2>2, <2>4 DEF Records
<1>11. CASE round'[0] = round[0] + 1 /\ pc'[0] = "conclude"
  <2>1. Entries'
    BY <1>1, <1>2, <1>e, <1>11, EntriesKept DEF Records, InPush, AtNode
  <2>2. Lowest'
    BY <1>1, <1>5, <1>6, <1>8, <1>11 DEF Lowest, Drawing, n, r
  <2> QED BY <1>9, <2>1, <2>2 DEF Records
<1> QED BY <1>1, <1>10, <1>11

LEMMA PushingAlone ==
  ASSUME ListInv, ToldInv, ValidInv, Records, 0 \in Threads, Push_(0)
  PROVE  Records'
<1>1. pc[0] \in InPush /\ Locals
  BY PushKeepsHand DEF ListInv, Shape
<1>2. /\ hand[0].list \in ListNames
      /\ pc[0] \in AtNode => For(heap, node[0], hand[0])
      /\ pc[0] \in {"conclude", "write"} => hand[0].list = "result"
  BY <1>1 DEF ListInv, Mine, ToldInv, Handed
<1>3. CASE PushSearch(0) \/ PushNew(0)
  BY <1>2, <1>3, SearchAlone, NewAlone
<1>4. CASE PushLink(0) \/ PushUpdate(0)
  <2>1. For(heap, node[0], hand[0])
    BY <1>2, <1>4 DEF PushLink, PushUpdate, Pushing, AtNode
  <2> QED BY <1>2, <1>4, <2>1, LinkAlone, UpdateAlone
<1>5. CASE ConcludeRead(0) \/ ConcludeWrite(0)
  <2>1. For(heap, node[0], hand[0]) /\ hand[0].list = "result"
    BY <1>2, <1>5 DEF ConcludeRead, ConcludeWrite, Pushing, AtNode
  <2> QED BY <1>5, <2>1, ReadAlone, WriteAlone
<1> QED BY <1>3, <1>4, <1>5 DEF Push_

(* Between two pushes the conclusion of a record is the least of what has  *)
(* been pushed for its address and port: it was pushed, and it is under    *)
(* every one of them.                                                      *)
LEMMA LeastConcluded ==
  ASSUME ToldInv, ValidInv, Single, \A r \in said : Entered(heap, r),
         NEW n \in DOMAIN heap, heap[n].list = "result"
  PROVE  heap[n].conclusion = Least(heap[n].ip, heap[n].portno)
<1> DEFINE c == heap[n].conclusion
           ip == heap[n].ip
           port == heap[n].portno
           V == Pushed(ip, port)
           T == {Unknown} \cup V
<1>1. c \in Nat /\ (c # Unknown => ToldIn(said, ip, port, c))
  BY DEF ToldInv, Kept, KeptAt
<1>2. V \subseteq 0 .. 4
  <2>1. \A r \in said : r.val \in Results
    BY DEF ValidInv, Valid
  <2> QED BY <2>1 DEF Pushed, Results
<1>3. \A v \in V : c <= v
  <2>1. ASSUME NEW r \in said, r.ip = ip, r.portno = port, r.val # NONE PROVE c <= r.val
    <3>1. PICK k \in DOMAIN heap : For(heap, k, r) /\ Under(heap[k].conclusion, r)
      BY DEF Entered
    <3>2. heap[k].list = "result" /\ heap[k].ip = ip /\ heap[k].portno = port
      BY <2>1, <3>1 DEF For, ValidInv, Valid
    <3>3. k = n
      BY <3>2 DEF Single
    <3> QED BY <2>1, <3>1, <3>3 DEF Under
  <2> QED BY <2>1 DEF Pushed
<1>4. c # Unknown => c \in V
  <2>1. NONE \notin Nat
    BY DEF NONE
  <2> QED BY <1>1, <2>1 DEF ToldIn, Pushed
<1>5. Least(ip, port) = Min(T)
  BY DEF Least
<1> HIDE DEF c, ip, port, V
<1>6. T \in SUBSET Nat /\ T # {}
  BY <1>2 DEF Unknown
<1>7. Min(T) \in T /\ \A y \in T : Min(T) <= y
  BY <1>6, MinIn
<1>8. c \in T /\ c <= Unknown
  BY <1>1, <1>2, <1>4 DEF Unknown
<1>9. c <= Min(T)
  BY <1>3, <1>7, <1>8
<1>10. Min(T) <= c /\ Min(T) \in Nat
  BY <1>6, <1>7, <1>8
<1>11. c = Min(T)
  BY <1>1, <1>9, <1>10
<1> QED BY <1>5, <1>11 DEF c, ip, port

(* What has its entry in a record is in the row of its address and port.   *)
LEMMA RowOf ==
  ASSUME ListInv, ToldInv, ValidInv, Dense, Single, pc[0] # "link", \A r \in said : Entered(heap, r),
         NEW r \in said, r.val # NONE, r.ip \in ToSet(asked.ips), r.portno \in ToSet(asked.ports)
  PROVE  <<r.ip, r.portno, Least(r.ip, r.portno)>> \in Rows
<1>1. PICK n \in DOMAIN heap : For(heap, n, r) /\ Under(heap[n].conclusion, r)
  BY DEF Entered
<1>2. r.list = "result" /\ r.val \in 0 .. 4
  BY DEF ValidInv, Valid, Results
<1>3. heap[n].list = "result" /\ heap[n].ip = r.ip /\ heap[n].portno = r.portno
  BY <1>1, <1>2 DEF For
<1>4. heap[n].conclusion \in Nat
  BY <1>3 DEF ToldInv, Kept, KeptAt
<1>5. heap[n].conclusion \in 0 .. 5
  BY <1>1, <1>2, <1>4 DEF Under
<1>6. n \in ToSet(Chain(top.result))
  <2>1. n \in Own(Chain(top["result"]))
    BY <1>3, ChainIsAll DEF ListNames
  <2> QED BY <2>1 DEF Own, ToSet
<1> DEFINE X == {x \in ToSet(Chain(top.result)) :
                   /\ heap[x].ip \in ToSet(asked.ips)
                   /\ heap[x].portno \in ToSet(asked.ports)
                   /\ heap[x].conclusion \in 0 .. 5}
           row == <<heap[n].ip, heap[n].portno, heap[n].conclusion>>
<1>7. n \in X
  BY <1>3, <1>5, <1>6
<1>8. row \in Rows
  <2>1. Rows = {<<q.ip, q.portno, q.conclusion>> : q \in {heap[x] : x \in X}}
    BY DEF Rows
  <2> HIDE DEF X
  <2> QED BY <1>7, <2>1
<1>9. heap[n].conclusion = Least(heap[n].ip, heap[n].portno)
  BY <1>3, LeastConcluded
<1> QED BY <1>3, <1>8, <1>9

LEMMA MainAlone ==
  ASSUME ListInv, ToldInv, ValidInv, Alone, Records, Reported, 0 \in Threads, MainStep
  PROVE  Records' /\ Reported'
<1>1. UNCHANGED <<pc, hand, node, round, read, said, mode>>
  BY DEF MainStep, CreateJobs, JoinThreads, PrintResults, config, local, lists
<1>2. CASE CreateJobs \/ JoinThreads
  <2>1. UNCHANGED <<heap, top, report>> /\ main # "done" /\ main' # "done"
    BY <1>2 DEF CreateJobs, JoinThreads, lists
  <2>2. Dense' /\ Single' /\ Lowest'
    BY <1>1, <2>1 DEF Records, Dense, Single, Lowest, Drawing, Under, For
  <2>3. Entries'
    BY <1>1, <2>1 DEF Records, Entries, InHand, Entered, For
  <2> QED BY <2>1, <2>2, <2>3 DEF Records, Reported
<1>3. CASE PrintResults
  <2>1. /\ main = "print" /\ main' = "done" /\ report' = Rows /\ heap' = <<>> /\ asked' = asked
    BY <1>3 DEF PrintResults, config
  <2>2. pc[0] \in {"get", "exit"}
    BY <2>1 DEF ListInv, Resting
  <2>3. DOMAIN heap' = {}
    BY <2>1
  <2>4. pc'[0] \notin {"link", "new", "conclude", "write"}
    BY <1>1, <2>2
  <2>5. Records'
    <3>1. round'[0] = 0
      BY <1>1, <2>2 DEF Records, Lowest, Drawing
    <3> QED BY <2>1, <2>3, <2>4, <3>1 DEF Records, Dense, Single, Entries, Lowest, Drawing
  <2>6. \A r \in said : Entered(heap, r)
    BY <2>1, <2>2 DEF Records, Entries, InHand, InPush, AtNode
  <2>7. ASSUME NEW r \in said, r.val # NONE, r.ip \in ToSet(asked.ips), r.portno \in ToSet(asked.ports)
        PROVE  <<r.ip, r.portno, Least(r.ip, r.portno)>> \in Rows
    BY <2>2, <2>6, <2>7, RowOf DEF Records
  <2>8. Reported'
    <3>1. \A ip, port : Least(ip, port)' = Least(ip, port)
      BY <1>1 DEF Least, Pushed
    <3> HIDE DEF Rows
    <3> QED BY <1>1, <2>1, <2>7, <3>1 DEF Reported
  <2> QED BY <2>5, <2>8
<1> QED BY <1>2, <1>3 DEF MainStep

LEMMA AloneStep == ListInv /\ ToldInv /\ ValidInv /\ AloneInv /\ [Next]_vars => AloneInv'
<1> SUFFICES ASSUME ListInv, ToldInv, ValidInv, AloneInv, [Next]_vars, Alone' PROVE Records' /\ Reported'
  BY DEF AloneInv
<1>0. mode' = mode
  BY ModeStays
<1>1. Alone /\ Records /\ Reported /\ Workers = {0} /\ 0 \in Threads
  BY <1>0, AloneWorkers, ThreadsAssumption DEF AloneInv, Alone
<1>2. CASE MainStep
  BY <1>1, <1>2, MainAlone
<1>3. CASE \E t \in Workers : Run(t) \/ version_detection(t) \/ Disturb(t)
  <2>1. Probing(0) \/ Push_(0)
    BY <1>1, <1>3 DEF Run, Probing
  <2>2. main = "scan" /\ main' = main
    <3>1. Locals
      BY DEF ListInv, Shape
    <3>2. CASE get_next_job(0)
      BY <3>2 DEF get_next_job
    <3>3. CASE ~get_next_job(0)
      <4>1. Keeps
        BY <1>1, <2>1, <3>1, <3>3, RunKeeps
      <4>2. pc[0] \notin {"get", "exit"}
        BY <2>1, <3>3 DEF Probing, Push_, SendProbe, Receive, Disturb, VersionCheck, version_detection, GotPacket,
           PollTimeout, DispatchPacket, DispatchBreak, DispatchNothing, StrayPacket, PollError, GotUseless, DispatchForeign, Polling,
           PushSearch, PushNew, PushLink, PushUpdate, ConcludeRead, ConcludeWrite, Pushing
      <4> QED BY <1>1, <4>1, <4>2, Busy DEF Keeps
    <3> QED BY <3>2, <3>3
  <2>3. Records'
    BY <1>1, <2>1, <2>2, ProbingAlone, PushingAlone
  <2>4. Reported'
    BY <2>2 DEF Reported
  <2> QED BY <2>3, <2>4
<1>4. CASE UNCHANGED vars
  <2>1. UNCHANGED <<main, asked, pc, hand, node, round, read, heap, top, said, report>>
    BY <1>4 DEF vars, config, local, lists
  <2>2. Dense' /\ Single' /\ Lowest'
    BY <1>1, <2>1 DEF Records, Dense, Single, Lowest, Drawing, Under, For
  <2>3. Entries' /\ Reported'
    BY <1>1, <2>1 DEF Records, Entries, InHand, Entered, For, Reported, Least, Pushed
  <2> QED BY <2>2, <2>3 DEF Records
<1> QED BY <1>2, <1>3, <1>4 DEF Next, Over

LEMMA AloneInit == Init => ValidInv /\ AloneInv
<1> SUFFICES ASSUME Init PROVE ValidInv /\ Records /\ Reported
  BY DEF AloneInv
<1>1. /\ DOMAIN heap = {} /\ said = {} /\ net = {} /\ main = "setup" /\ setup \in Setups
      /\ \A t \in Threads : pc[t] = "get"
  BY DEF Init
<1>2. pc[0] = "get"
  BY <1>1, ThreadsAssumption
<1>3. ValidInv
  BY <1>1 DEF ValidInv, Held, InPush, AtNode
<1>4. Records /\ Reported
  BY <1>1, <1>2, ThreadsAssumption DEF Init, Records, Dense, Single, Entries, Lowest, Drawing, Reported
<1> QED BY <1>3, <1>4

(* With no_of_threads = 0 (ps_default), or with a pool of one thread, no   *)
(* result that got_packet or a timeout hands to push_result is lost,       *)
(* however many ports, answers, strays and retries there are: between two  *)
(* jobs it has one record of its address and port, whose conclusion is the *)
(* least of all that was pushed for them, also where a later packet has    *)
(* overwritten it, and print_results prints this conclusion.               *)
THEOREM ResultsAreRecorded == ASSUME ScanJobs PROVE Spec => []AllRecorded
<1> DEFINE Inv == ListInv /\ ToldInv /\ ValidInv /\ AloneInv
<1>1. Init => Inv
  BY ListInit, ToldInit, AloneInit
<1>2. Inv /\ [Next]_vars => Inv'
  BY ListStep, ToldStep, ValidStep, AloneStep
<1>3. Inv => AllRecorded
  <2> SUFFICES ASSUME ListInv, ToldInv, ValidInv, AloneInv PROVE AllRecorded
    OBVIOUS
  <2> DEFINE c == Chain(top.result)
  <2>1. ASSUME Alone, main = "scan", pc[0] \in {"get", "exit"}, NEW r \in said
        PROVE  \E n \in ToSet(c) :
                 /\ heap[n].conclusion = Least(r.ip, r.portno)
                 /\ \A m \in ToSet(c) : (heap[m].ip = r.ip /\ heap[m].portno = r.portno) <=> m = n
    <3>1. Dense /\ Single /\ Entries
      BY <2>1 DEF AloneInv, Records
    <3>e. \A q \in said : Entered(heap, q)
      BY <2>1, <3>1 DEF Entries, InHand, InPush, AtNode
    <3>2. PICK n \in DOMAIN heap : For(heap, n, r)
      BY <3>e DEF Entered
    <3>3. heap[n].list = "result" /\ heap[n].ip = r.ip /\ heap[n].portno = r.portno
      BY <3>2 DEF For, ValidInv, Valid
    <3>4. c \in Seq(ListOf("result")) /\ n \in Own(c)
      BY <2>1, <3>1, <3>3, ChainIsAll DEF ListNames
    <3> HIDE DEF c
    <3>5. ToSet(c) \subseteq ListOf("result") /\ n \in ToSet(c)
      BY <3>4 DEF Own, ToSet
    <3>6. ASSUME NEW m \in ToSet(c) PROVE (heap[m].ip = r.ip /\ heap[m].portno = r.portno) <=> m = n
      <4>1. m \in DOMAIN heap /\ heap[m].list = "result"
        BY <3>5, HeapSize DEF ListOf, ListInv
      <4> QED BY <3>1, <3>3, <4>1 DEF Single
    <3>7. heap[n].conclusion = Least(r.ip, r.portno)
      BY <3>1, <3>3, <3>e, LeastConcluded
    <3> QED BY <3>5, <3>6, <3>7
  <2>2. ASSUME Alone, main = "done", NEW r \in said, r.val # NONE,
               r.ip \in ToSet(asked.ips), r.portno \in ToSet(asked.ports)
        PROVE  <<r.ip, r.portno, Least(r.ip, r.portno)>> \in report
    BY <2>2 DEF AloneInv, Reported
  <2> QED BY <2>1, <2>2 DEF AllRecorded
<1> HIDE DEF Inv
<1> QED BY <1>1, <1>2, <1>3, PTL DEF Spec
=============================================================================
