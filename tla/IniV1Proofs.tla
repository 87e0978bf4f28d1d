---------------------------- MODULE IniV1Proofs ----------------------------
(***************************************************************************)
(* Proofs about IniV1 for all texts, all files to start from and any       *)
(* number of operations, failed calls and crashes: what updateIniFile      *)
(* writes is what readIniFile reads, wherever the writing stops, and no    *)
(* operation touches another key.                                          *)
(***************************************************************************)
EXTENDS IniV1, SequenceTheorems, WellFoundedInduction, TLAPS

(* A stored note ends with its newline, or with nothing when it was the    *)
(* bare last line; a name ends with blanks or with nothing.                *)
Tailed(x) == x.name.tail \in (IF x.note THEN {"none", "nl"} ELSE {"none", "blank", "blanks"})

TypedPairs(ps) == \A j \in DOMAIN ps : Tailed(ps[j])
TypedNodes(ns) == \A i \in DOMAIN ns : Tailed(ns[i]) /\ TypedPairs(ns[i].pairs)

TypeInv ==
  /\ TypeOK
  /\ TypedNodes(nodes)
  /\ pc = "closed" => nodes = <<>>

(* What readIniFile would refuse is in no list: a name that an earlier one *)
(* answers to.  Nothing answers to a note with its newline, so nothing     *)
(* changes it.                                                             *)
Sealed(x) == x.note /\ x.name.tail = "nl"

PairsInv(ps) ==
  /\ \A j \in DOMAIN ps : Sealed(ps[j]) => ps[j].value = "" /\ ~ps[j].nl
  /\ \A a, b \in DOMAIN ps : (a < b /\ ~ps[b].note) =>
       /\ ~Answers(ps[a].name, ps[b].name)
       /\ (ps[a].name.text = ps[b].name.text /\ ps[a].name.tail # "nl") => ~ps[b].nl

(* A note that answers to a name is given entries, but never notes.        *)
Noteless(ps) == \A j \in DOMAIN ps : ~ps[j].note

NodesInv(ns) ==
  /\ \A i \in DOMAIN ns : /\ PairsInv(ns[i].pairs)
                          /\ Sealed(ns[i]) => ns[i].pairs = <<>>
                          /\ ns[i].note => Noteless(ns[i].pairs)
  /\ \A i, j \in DOMAIN ns : i < j =>
       /\ ns[j].note => ns[i].note
       /\ ~ns[j].note => ~Answers(ns[i].name, ns[j].name)

(* The file is as far as the update has come, and opens wherever it ends   *)
(* if its lines fit.                                                       *)
Whole(lines) == [lines |-> lines, bare |-> FALSE]

Complete(f) == Whole(IF f.bare THEN Front(f.lines) ELSE f.lines)

Opens(f) == (f \notin InitialFiles /\ Fits(Complete(f).lines)) => readIniFile(Complete(f)).ret = 0

DiskInv ==
  /\ pc = "write" => disk = Whole(SubSeq(Image(nodes), 1, out))
  /\ Opens(disk)

FileInv == NodesInv(nodes) /\ DiskInv

(* Between calls the file is the image of the list or what it was read     *)
(* from.                                                                   *)
Fresh(ns) == \A i \in DOMAIN ns : \A j \in DOMAIN ns[i].pairs : ~ns[i].pairs[j].nl

AgreeInv ==
  (pc = "idle" /\ wret = 0 /\ ~freed) =>
    \/ disk = Whole(Image(nodes))
    \/ readIniFile(disk) = Result(0, nodes) /\ Fresh(nodes)

-----------------------------------------------------------------------------
(* Sequences and searches                                                  *)

LEMMA LeastExists ==
  ASSUME NEW T \in SUBSET Nat, T # {} PROVE \E x \in T : \A y \in T : x <= y
<1>1. PICK m \in T : \A y \in T : <<y, m>> \notin OpToRel(<, Nat)
  BY WFMin, NatLessThanWellFounded, Zenon
<1>2. \A y \in T : ~(y < m)
  BY <1>1, Zenon DEF OpToRel
<1>3. m \in Nat /\ \A y \in T : y \in Nat
  OBVIOUS
<1>4. \A y \in T : m <= y
  BY <1>2, <1>3
<1> QED BY <1>4

(* A search finds the first one, or nothing.                               *)
LEMMA FirstIs ==
  ASSUME NEW n \in Nat, NEW S \in SUBSET (1 .. n)
  PROVE  \/ S = {} /\ First(S) = 0
         \/ First(S) \in S /\ First(S) # 0 /\ \A y \in S : First(S) <= y
<1>1. CASE S = {}
  BY <1>1 DEF First
<1>2. CASE S # {}
  <2>1. \E x \in S : \A y \in S : x <= y
    BY <1>2, LeastExists
  <2>2. Min(S) \in S /\ \A y \in S : Min(S) <= y
    BY <2>1 DEF Min
  <2>3. First(S) = Min(S)
    BY <1>2 DEF First
  <2> QED BY <2>2, <2>3
<1> QED BY <1>1, <1>2

LEMMA RemoveAtIs ==
  ASSUME NEW T, NEW s \in Seq(T), NEW i \in 1 .. Len(s)
  PROVE  /\ RemoveAt(s, i) \in Seq(T) /\ Len(RemoveAt(s, i)) = Len(s) - 1
         /\ DOMAIN RemoveAt(s, i) = 1 .. Len(s) - 1
         /\ \A j \in 1 .. Len(s) - 1 : RemoveAt(s, i)[j] = IF j < i THEN s[j] ELSE s[j + 1]
<1> DEFINE a == SubSeq(s, 1, i - 1)
           b == SubSeq(s, i + 1, Len(s))
<1>1. a \in Seq(T) /\ Len(a) = i - 1 /\ \A j \in 1 .. i - 1 : a[j] = s[j]
  BY SubSeqProperties
<1>2. b \in Seq(T) /\ Len(b) = Len(s) - i /\ \A j \in 1 .. Len(s) - i : b[j] = s[i + j]
  BY SubSeqProperties
<1>3. RemoveAt(s, i) = a \o b
  BY DEF RemoveAt
<1> HIDE DEF a, b
<1>4. /\ a \o b \in Seq(T) /\ Len(a \o b) = Len(a) + Len(b)
      /\ \A j \in 1 .. Len(a) + Len(b) : (a \o b)[j] = IF j <= Len(a) THEN a[j] ELSE b[j - Len(a)]
  BY <1>1, <1>2, ConcatProperties
<1>5. ASSUME NEW j \in 1 .. Len(s) - 1 PROVE (a \o b)[j] = IF j < i THEN s[j] ELSE s[j + 1]
  <2>1. CASE j < i
    BY <1>1, <1>2, <1>4, <2>1
  <2>2. CASE ~(j < i)
    <3>1. j - Len(a) \in 1 .. Len(s) - i /\ i + (j - Len(a)) = j + 1 /\ ~(j <= Len(a)) /\ j \in 1 .. Len(a) + Len(b)
      BY <1>1, <1>2, <2>2
    <3>2. (a \o b)[j] = b[j - Len(a)]
      BY <1>4, <3>1
    <3>3. b[j - Len(a)] = s[i + (j - Len(a))]
      BY <1>2, <3>1
    <3> QED BY <2>2, <3>1, <3>2, <3>3
  <2> QED BY <2>1, <2>2
<1>6. a \o b \in Seq(T) /\ Len(a \o b) = Len(s) - 1
  BY <1>1, <1>2, <1>4
<1>7. DOMAIN (a \o b) = 1 .. Len(s) - 1
  BY <1>6
<1> QED BY <1>3, <1>5, <1>6, <1>7

(* Searches in a list of nodes and in a section.                           *)
NodesFor(ns, s) == {i \in DOMAIN ns : Answers(ns[i].name, s)}
PairsFor(ps, k) == {j \in DOMAIN ps : Answers(ps[j].name, k)}

LEMMA FindNode ==
  ASSUME NEW ns \in Seq(Nodes), NEW s
  PROVE  LET p == findIniFileNode(ns, s) IN
         \/ p = 0 /\ \A i \in DOMAIN ns : ~Answers(ns[i].name, s)
         \/ p \in 1 .. Len(ns) /\ Answers(ns[p].name, s) /\ \A i \in DOMAIN ns : Answers(ns[i].name, s) => p <= i
<1> DEFINE S == NodesFor(ns, s)
<1>1. S \in SUBSET (1 .. Len(ns)) /\ Len(ns) \in Nat
  BY DEF NodesFor
<1>2. findIniFileNode(ns, s) = First(S)
  BY DEF findIniFileNode, NodesFor
<1>3. \/ S = {} /\ First(S) = 0
      \/ First(S) \in S /\ First(S) # 0 /\ \A y \in S : First(S) <= y
  BY <1>1, FirstIs
<1> QED BY <1>1, <1>2, <1>3 DEF NodesFor

LEMMA FindPair ==
  ASSUME NEW n \in Nodes, NEW k
  PROVE  LET q == findIniKeyValue(n, k) IN
         \/ q = 0 /\ \A j \in DOMAIN n.pairs : ~Answers(n.pairs[j].name, k)
         \/ /\ q \in 1 .. Len(n.pairs) /\ Answers(n.pairs[q].name, k)
            /\ \A j \in DOMAIN n.pairs : Answers(n.pairs[j].name, k) => q <= j
<1> DEFINE ps == n.pairs
           S == PairsFor(ps, k)
<1>0. ps \in Seq(Pairs)
  BY DEF Nodes
<1>2. findIniKeyValue(n, k) = First(S)
  BY DEF findIniKeyValue, PairsFor
<1> HIDE DEF ps
<1>1. S \in SUBSET (1 .. Len(ps)) /\ Len(ps) \in Nat
  BY <1>0 DEF PairsFor
<1>3. \/ S = {} /\ First(S) = 0
      \/ First(S) \in S /\ First(S) # 0 /\ \A y \in S : First(S) <= y
  BY <1>1, FirstIs
<1>4. \/ First(S) = 0 /\ \A j \in DOMAIN ps : ~Answers(ps[j].name, k)
      \/ /\ First(S) \in 1 .. Len(ps) /\ Answers(ps[First(S)].name, k)
         /\ \A j \in DOMAIN ps : Answers(ps[j].name, k) => First(S) <= j
  BY <1>1, <1>3 DEF PairsFor
<1> QED BY <1>2, <1>4 DEF ps

-----------------------------------------------------------------------------
(* The list operations                                                     *)

(* A list with other entries in section p.                                 *)
WithPairs(ns, p, qs) == [ns EXCEPT ![p].pairs = qs]

LEMMA WithPairsIs ==
  ASSUME NEW ns \in Seq(Nodes), NEW p \in 1 .. Len(ns), NEW qs \in Seq(Pairs)
  PROVE  /\ WithPairs(ns, p, qs) \in Seq(Nodes)
         /\ Len(WithPairs(ns, p, qs)) = Len(ns) /\ DOMAIN WithPairs(ns, p, qs) = 1 .. Len(ns)
         /\ \A i \in 1 .. Len(ns) : i # p => WithPairs(ns, p, qs)[i] = ns[i]
         /\ WithPairs(ns, p, qs)[p].pairs = qs
         /\ WithPairs(ns, p, qs)[p].name = ns[p].name /\ WithPairs(ns, p, qs)[p].note = ns[p].note
<1> DEFINE new == [ns[p] EXCEPT !.pairs = qs]
<1>1. ns[p] \in Nodes
  BY ElementOfSeq
<1>2. new \in Nodes /\ new.pairs = qs /\ new.name = ns[p].name /\ new.note = ns[p].note
  BY <1>1 DEF Nodes
<1>3. WithPairs(ns, p, qs) = [ns EXCEPT ![p] = new]
  BY DEF WithPairs
<1> HIDE DEF new
<1> QED BY <1>2, <1>3

LEMMA WithPairsTyped ==
  ASSUME NEW ns \in Seq(Nodes), NEW p \in 1 .. Len(ns), NEW qs \in Seq(Pairs),
         TypedNodes(ns), TypedPairs(qs)
  PROVE  TypedNodes(WithPairs(ns, p, qs))
<1> DEFINE ms == WithPairs(ns, p, qs)
<1>1. /\ DOMAIN ms = 1 .. Len(ns) /\ DOMAIN ns = 1 .. Len(ns)
      /\ \A i \in 1 .. Len(ns) : i # p => ms[i] = ns[i]
      /\ ms[p].pairs = qs /\ ms[p].name = ns[p].name /\ ms[p].note = ns[p].note
  BY WithPairsIs
<1> HIDE DEF ms
<1>2. \A i \in DOMAIN ms : Tailed(ms[i]) /\ TypedPairs(ms[i].pairs)
  BY <1>1 DEF TypedNodes, Tailed
<1> QED BY <1>2 DEF TypedNodes, ms

LEMMA WithPairsInv ==
  ASSUME NEW ns \in Seq(Nodes), NEW p \in 1 .. Len(ns), NEW qs \in Seq(Pairs),
         NodesInv(ns), PairsInv(qs), ~Sealed(ns[p]), ns[p].note => Noteless(qs)
  PROVE  NodesInv(WithPairs(ns, p, qs))
<1> DEFINE ms == WithPairs(ns, p, qs)
<1>1. /\ DOMAIN ms = 1 .. Len(ns) /\ DOMAIN ns = 1 .. Len(ns)
      /\ \A i \in 1 .. Len(ns) : i # p => ms[i] = ns[i]
      /\ ms[p].pairs = qs /\ ms[p].name = ns[p].name /\ ms[p].note = ns[p].note
  BY WithPairsIs
<1> HIDE DEF ms
<1>2. \A i \in 1 .. Len(ns) : ms[i].name = ns[i].name /\ ms[i].note = ns[i].note
  BY <1>1
<1>3. \A i \in DOMAIN ms : /\ PairsInv(ms[i].pairs)
                           /\ Sealed(ms[i]) => ms[i].pairs = <<>>
                           /\ ms[i].note => Noteless(ms[i].pairs)
  BY <1>1, <1>2 DEF NodesInv, Sealed
<1>4. \A i, j \in DOMAIN ms : i < j =>
        /\ ms[j].note => ms[i].note
        /\ ~ms[j].note => ~Answers(ms[i].name, ms[j].name)
  BY <1>1, <1>2 DEF NodesInv
<1> QED BY <1>3, <1>4 DEF NodesInv, ms

(* A node at the end.                                                      *)
LEMMA AppendNode ==
  ASSUME NEW ns \in Seq(Nodes), NEW note \in BOOLEAN, NEW name \in Strings
  PROVE  LET ms == listIniFileNode_insert(ns, Node(note, name)) IN
         /\ ms \in Seq(Nodes) /\ Len(ms) = Len(ns) + 1 /\ DOMAIN ms = 1 .. Len(ns) + 1
         /\ \A i \in 1 .. Len(ns) : ms[i] = ns[i]
         /\ ms[Len(ns) + 1] = Node(note, name)
<1> DEFINE n == Node(note, name)
<1>1. n \in Nodes
  BY DEF Node, Nodes
<1> HIDE DEF n
<1>2. /\ Append(ns, n) \in Seq(Nodes) /\ Len(Append(ns, n)) = Len(ns) + 1
      /\ \A i \in 1 .. Len(ns) : Append(ns, n)[i] = ns[i]
      /\ Append(ns, n)[Len(ns) + 1] = n
  BY <1>1, AppendProperties
<1>3. DOMAIN Append(ns, n) = 1 .. Len(ns) + 1
  BY <1>2
<1> QED BY <1>2, <1>3 DEF listIniFileNode_insert, n

LEMMA AppendNodeTyped ==
  ASSUME NEW ns \in Seq(Nodes), NEW note \in BOOLEAN, NEW name \in Strings,
         TypedNodes(ns), Tailed(Node(note, name))
  PROVE  TypedNodes(listIniFileNode_insert(ns, Node(note, name)))
<1> DEFINE n == Node(note, name)
           ms == listIniFileNode_insert(ns, n)
<1>1. /\ DOMAIN ms = 1 .. Len(ns) + 1 /\ ms[Len(ns) + 1] = n /\ DOMAIN ns = 1 .. Len(ns)
      /\ \A i \in 1 .. Len(ns) : ms[i] = ns[i]
  BY AppendNode
<1>2. Tailed(n) /\ TypedPairs(n.pairs)
  BY DEF Node, TypedPairs
<1> HIDE DEF ms, n
<1>3. \A i \in 1 .. Len(ns) + 1 : i \in 1 .. Len(ns) \/ i = Len(ns) + 1
  OBVIOUS
<1>4. \A i \in DOMAIN ms : Tailed(ms[i]) /\ TypedPairs(ms[i].pairs)
  BY <1>1, <1>2, <1>3 DEF TypedNodes
<1> QED BY <1>4 DEF TypedNodes, ms, n

(* Where a node may be added: a note behind notes, a section with a new    *)
(* name.                                                                   *)
NodeFits(ns, note, name) ==
  /\ note => ns = <<>> \/ Last(ns).note
  /\ ~note => \A i \in DOMAIN ns : ~Answers(ns[i].name, name)

LEMMA AppendNodeInv ==
  ASSUME NEW ns \in Seq(Nodes), NEW note \in BOOLEAN, NEW name \in Strings,
         NodesInv(ns), NodeFits(ns, note, name)
  PROVE  NodesInv(listIniFileNode_insert(ns, Node(note, name)))
<1> DEFINE n == Node(note, name)
           ms == listIniFileNode_insert(ns, n)
           L == Len(ns)
<1>1. /\ DOMAIN ms = 1 .. L + 1 /\ ms[L + 1] = n /\ DOMAIN ns = 1 .. L /\ L \in Nat
      /\ \A i \in 1 .. L : ms[i] = ns[i]
  BY AppendNode
<1>2. n.note = note /\ n.name = name /\ n.pairs = <<>> /\ PairsInv(n.pairs) /\ Noteless(n.pairs)
  BY DEF Node, PairsInv, NodeFits, Noteless
<1> HIDE DEF ms, n, L
<1>0. note => \A i \in 1 .. L : ns[i].note
  <2> SUFFICES ASSUME note, NEW i \in 1 .. L PROVE ns[i].note
    OBVIOUS
  <2>1. ns # <<>> /\ L \in 1 .. L /\ Last(ns) = ns[L]
    BY <1>1, EmptySeq DEF Last, L
  <2>5. ns[L].note
    BY <2>1 DEF NodeFits
  <2>2. CASE i = L
    BY <2>2, <2>5
  <2>3. CASE i < L
    BY <1>1, <2>1, <2>3, <2>5 DEF NodesInv
  <2>4. i = L \/ i < L
    BY <1>1
  <2> QED BY <2>2, <2>3, <2>4
<1>3. \A i \in 1 .. L + 1 : i \in 1 .. L \/ i = L + 1
  BY <1>1
<1>4. \A i \in DOMAIN ms : /\ PairsInv(ms[i].pairs)
                           /\ Sealed(ms[i]) => ms[i].pairs = <<>>
                           /\ ms[i].note => Noteless(ms[i].pairs)
  BY <1>1, <1>2, <1>3 DEF NodesInv
<1>5. ASSUME NEW i \in DOMAIN ms, NEW j \in DOMAIN ms, i < j
      PROVE  /\ ms[j].note => ms[i].note
             /\ ~ms[j].note => ~Answers(ms[i].name, ms[j].name)
  <2>1. i \in 1 .. L /\ ms[i] = ns[i]
    BY <1>1, <1>5
  <2>2. CASE j = L + 1
    BY <1>0, <1>1, <1>2, <2>1, <2>2 DEF NodeFits
  <2>3. CASE j \in 1 .. L
    BY <1>1, <1>5, <2>1, <2>3 DEF NodesInv
  <2> QED BY <1>1, <1>3, <2>2, <2>3
<1> QED BY <1>4, <1>5 DEF NodesInv, ms, n

(* The entries of a section: one more, one changed, one less.              *)
LEMMA AppendPair ==
  ASSUME NEW ps \in Seq(Pairs), NEW pair \in Pairs
  PROVE  /\ Append(ps, pair) \in Seq(Pairs) /\ DOMAIN Append(ps, pair) = 1 .. Len(ps) + 1
         /\ Len(Append(ps, pair)) = Len(ps) + 1
         /\ \A j \in 1 .. Len(ps) : Append(ps, pair)[j] = ps[j]
         /\ Append(ps, pair)[Len(ps) + 1] = pair
<1>1. /\ Append(ps, pair) \in Seq(Pairs) /\ Len(Append(ps, pair)) = Len(ps) + 1
      /\ \A i \in 1 .. Len(ps) : Append(ps, pair)[i] = ps[i]
      /\ Append(ps, pair)[Len(ps) + 1] = pair
  BY AppendProperties
<1>2. DOMAIN Append(ps, pair) = 1 .. Len(ps) + 1
  BY <1>1
<1> QED BY <1>1, <1>2

LEMMA AppendPairTyped ==
  ASSUME NEW ps \in Seq(Pairs), NEW pair \in Pairs, TypedPairs(ps), Tailed(pair)
  PROVE  TypedPairs(Append(ps, pair))
<1> DEFINE qs == Append(ps, pair)
<1>1. /\ DOMAIN qs = 1 .. Len(ps) + 1 /\ DOMAIN ps = 1 .. Len(ps) /\ qs[Len(ps) + 1] = pair
      /\ \A j \in 1 .. Len(ps) : qs[j] = ps[j]
  BY AppendPair
<1>2. \A i \in 1 .. Len(ps) + 1 : i \in 1 .. Len(ps) \/ i = Len(ps) + 1
  OBVIOUS
<1> HIDE DEF qs
<1>3. \A j \in DOMAIN qs : Tailed(qs[j])
  BY <1>1, <1>2 DEF TypedPairs
<1> QED BY <1>3 DEF TypedPairs, qs

PairFits(ps, pair) ==
  /\ Sealed(pair) => pair.value = "" /\ ~pair.nl
  /\ ~pair.note => \A a \in DOMAIN ps :
       /\ ~Answers(ps[a].name, pair.name)
       /\ (ps[a].name.text = pair.name.text /\ ps[a].name.tail # "nl") => ~pair.nl

LEMMA AppendPairInv ==
  ASSUME NEW ps \in Seq(Pairs), NEW pair \in Pairs, PairsInv(ps), PairFits(ps, pair)
  PROVE  PairsInv(Append(ps, pair))
<1> DEFINE qs == Append(ps, pair)
           L == Len(ps)
<1>1. /\ DOMAIN qs = 1 .. L + 1 /\ DOMAIN ps = 1 .. L /\ qs[L + 1] = pair /\ L \in Nat
      /\ \A j \in 1 .. L : qs[j] = ps[j]
  BY AppendPair
<1>2. \A i \in 1 .. L + 1 : i \in 1 .. L \/ i = L + 1
  OBVIOUS
<1> HIDE DEF qs, L
<1>3. \A j \in DOMAIN qs : Sealed(qs[j]) => qs[j].value = "" /\ ~qs[j].nl
  BY <1>1, <1>2 DEF PairsInv, PairFits
<1>4. ASSUME NEW a \in DOMAIN qs, NEW b \in DOMAIN qs, a < b, ~qs[b].note
      PROVE  /\ ~Answers(qs[a].name, qs[b].name)
             /\ (qs[a].name.text = qs[b].name.text /\ qs[a].name.tail # "nl") => ~qs[b].nl
  <2>1. a \in 1 .. L /\ qs[a] = ps[a]
    BY <1>1, <1>4
  <2>2. CASE b = L + 1
    BY <1>1, <1>4, <2>1, <2>2 DEF PairFits
  <2>3. CASE b \in 1 .. L
    <3>1. qs[b] = ps[b] /\ a \in DOMAIN ps /\ b \in DOMAIN ps
      BY <1>1, <2>1, <2>3
    <3> QED BY <1>4, <2>1, <3>1 DEF PairsInv
  <2> QED BY <1>1, <1>2, <2>2, <2>3
<1> QED BY <1>3, <1>4 DEF PairsInv, qs

(* The entries with another value at q.                                    *)
WithValue(ps, q, v) == [ps EXCEPT ![q] = [@ EXCEPT !.value = v, !.nl = TRUE]]

LEMMA WithValueIs ==
  ASSUME NEW ps \in Seq(Pairs), NEW q \in 1 .. Len(ps), NEW v \in Texts
  PROVE  LET qs == WithValue(ps, q, v) IN
         /\ qs \in Seq(Pairs) /\ DOMAIN qs = 1 .. Len(ps) /\ Len(qs) = Len(ps)
         /\ \A j \in 1 .. Len(ps) : j # q => qs[j] = ps[j]
         /\ \A j \in 1 .. Len(ps) : qs[j].name = ps[j].name /\ qs[j].note = ps[j].note
         /\ qs[q].value = v /\ qs[q].nl = TRUE
<1> DEFINE new == [ps[q] EXCEPT !.value = v, !.nl = TRUE]
<1>1. ps[q] \in Pairs
  BY ElementOfSeq
<1>2. new \in Pairs /\ new.name = ps[q].name /\ new.note = ps[q].note /\ new.value = v /\ new.nl = TRUE
  BY <1>1 DEF Pairs
<1>3. WithValue(ps, q, v) = [ps EXCEPT ![q] = new]
  BY DEF WithValue
<1> HIDE DEF new
<1> QED BY <1>2, <1>3

(* Entry q is the first that answers to k.                                 *)
FirstFor(ps, q, k) ==
  /\ Answers(ps[q].name, Exact(k))
  /\ \A j \in DOMAIN ps : Answers(ps[j].name, Exact(k)) => q <= j

LEMMA WithValueInv ==
  ASSUME NEW ps \in Seq(Pairs), NEW q \in 1 .. Len(ps), NEW v \in Texts, NEW k
  PROVE  /\ TypedPairs(ps) => TypedPairs(WithValue(ps, q, v))
         /\ (TypedPairs(ps) /\ PairsInv(ps) /\ FirstFor(ps, q, k)) => PairsInv(WithValue(ps, q, v))
<1> DEFINE qs == WithValue(ps, q, v)
<1>6. /\ DOMAIN qs = 1 .. Len(ps)
      /\ \A j \in 1 .. Len(ps) : j # q => qs[j] = ps[j]
      /\ \A j \in 1 .. Len(ps) : qs[j].name = ps[j].name /\ qs[j].note = ps[j].note
  BY WithValueIs, ZenonT(60)
<1> HIDE DEF qs
<1>1. /\ DOMAIN qs = 1 .. Len(ps) /\ DOMAIN ps = 1 .. Len(ps) /\ Len(ps) \in Nat
      /\ \A j \in 1 .. Len(ps) : j # q => qs[j] = ps[j]
      /\ \A j \in 1 .. Len(ps) : qs[j].name = ps[j].name /\ qs[j].note = ps[j].note
  BY <1>6
<1>3. TypedPairs(ps) => TypedPairs(qs)
  BY <1>1 DEF TypedPairs, Tailed
<1> SUFFICES ASSUME TypedPairs(ps), PairsInv(ps), FirstFor(ps, q, k) PROVE PairsInv(qs)
  BY <1>3 DEF qs
<1>2. ~Sealed(qs[q]) /\ ps[q].name.text = k /\ ps[q].name.tail # "nl"
  BY <1>1 DEF Sealed, Answers, Exact, Str, FirstFor
<1>4. \A j \in DOMAIN qs : Sealed(qs[j]) => qs[j].value = "" /\ ~qs[j].nl
  BY <1>1, <1>2 DEF PairsInv
<1>5. ASSUME NEW a \in DOMAIN qs, NEW b \in DOMAIN qs, a < b, ~qs[b].note
      PROVE  /\ ~Answers(qs[a].name, qs[b].name)
             /\ (qs[a].name.text = qs[b].name.text /\ qs[a].name.tail # "nl") => ~qs[b].nl
  <2>1. ~Answers(qs[a].name, qs[b].name)
    BY <1>1, <1>5 DEF PairsInv
  <2>2. CASE b # q
    <3>1. qs[b] = ps[b] /\ qs[a].name = ps[a].name /\ a \in DOMAIN ps /\ b \in DOMAIN ps
      BY <1>1, <2>2
    <3> QED BY <1>5, <2>1, <3>1 DEF PairsInv
  <2>3. CASE b = q
    <3>1. ~Answers(ps[a].name, Exact(k))
      BY <1>1, <1>5, <2>3 DEF FirstFor
    <3>2. ps[a].name.tail \in {"none", "nl", "blank", "blanks"}
      BY <1>1 DEF TypedPairs, Tailed
    <3>3. ~(qs[a].name.text = qs[b].name.text /\ qs[a].name.tail # "nl")
      BY <1>1, <1>2, <1>5, <2>3, <3>1, <3>2 DEF Answers, Exact, Str
    <3> QED BY <2>1, <3>3
  <2> QED BY <2>2, <2>3
<1> QED BY <1>4, <1>5 DEF PairsInv

LEMMA RemovePairInv ==
  ASSUME NEW ps \in Seq(Pairs), NEW q \in 1 .. Len(ps)
  PROVE  /\ TypedPairs(ps) => TypedPairs(RemoveAt(ps, q))
         /\ PairsInv(ps) => PairsInv(RemoveAt(ps, q))
<1> DEFINE qs == RemoveAt(ps, q)
           Old(j) == IF j < q THEN j ELSE j + 1
<1>1. /\ DOMAIN qs = 1 .. Len(ps) - 1 /\ DOMAIN ps = 1 .. Len(ps) /\ Len(ps) \in Nat
      /\ \A j \in 1 .. Len(ps) - 1 : qs[j] = IF j < q THEN ps[j] ELSE ps[j + 1]
  <2>1. /\ qs \in Seq(Pairs) /\ Len(qs) = Len(ps) - 1
        /\ \A j \in 1 .. Len(ps) - 1 : qs[j] = IF j < q THEN ps[j] ELSE ps[j + 1]
    BY RemoveAtIs, ZenonT(60)
  <2> HIDE DEF qs
  <2>2. DOMAIN qs = 1 .. Len(qs) /\ DOMAIN ps = 1 .. Len(ps) /\ Len(ps) \in Nat
    BY <2>1
  <2> QED BY <2>1, <2>2
<1>2. \A j \in DOMAIN qs : Old(j) \in DOMAIN ps /\ qs[j] = ps[Old(j)]
  BY <1>1
<1>3. \A a, b \in DOMAIN qs : a < b => Old(a) < Old(b)
  BY <1>1
<1> HIDE DEF qs, Old
<1>4. TypedPairs(ps) => TypedPairs(qs)
  BY <1>2 DEF TypedPairs
<1>5. ASSUME PairsInv(ps) PROVE PairsInv(qs)
  <2>1. \A j \in DOMAIN qs : Sealed(qs[j]) => qs[j].value = "" /\ ~qs[j].nl
    BY <1>2, <1>5 DEF PairsInv
  <2>2. ASSUME NEW a \in DOMAIN qs, NEW b \in DOMAIN qs, a < b, ~qs[b].note
        PROVE  /\ ~Answers(qs[a].name, qs[b].name)
               /\ (qs[a].name.text = qs[b].name.text /\ qs[a].name.tail # "nl") => ~qs[b].nl
    <3>1. Old(a) < Old(b) /\ Old(a) \in DOMAIN ps /\ Old(b) \in DOMAIN ps
      BY <1>2, <1>3, <2>2
    <3>2. qs[a] = ps[Old(a)] /\ qs[b] = ps[Old(b)]
      BY <1>2
    <3> QED BY <1>5, <2>2, <3>1, <3>2 DEF PairsInv
  <2> QED BY <2>1, <2>2 DEF PairsInv
<1> QED BY <1>4, <1>5 DEF qs

LEMMA RemoveNodeInv ==
  ASSUME NEW ns \in Seq(Nodes), NEW p \in 1 .. Len(ns)
  PROVE  /\ TypedNodes(ns) => TypedNodes(RemoveAt(ns, p))
         /\ NodesInv(ns) => NodesInv(RemoveAt(ns, p))
<1> DEFINE ms == RemoveAt(ns, p)
           Old(j) == IF j < p THEN j ELSE j + 1
<1>1. /\ DOMAIN ms = 1 .. Len(ns) - 1 /\ DOMAIN ns = 1 .. Len(ns) /\ Len(ns) \in Nat
      /\ \A j \in 1 .. Len(ns) - 1 : ms[j] = IF j < p THEN ns[j] ELSE ns[j + 1]
  <2>1. /\ ms \in Seq(Nodes) /\ Len(ms) = Len(ns) - 1
        /\ \A j \in 1 .. Len(ns) - 1 : ms[j] = IF j < p THEN ns[j] ELSE ns[j + 1]
    BY RemoveAtIs, ZenonT(60)
  <2> HIDE DEF ms
  <2>2. DOMAIN ms = 1 .. Len(ms) /\ DOMAIN ns = 1 .. Len(ns) /\ Len(ns) \in Nat
    BY <2>1
  <2> QED BY <2>1, <2>2
<1>2. \A j \in DOMAIN ms : Old(j) \in DOMAIN ns /\ ms[j] = ns[Old(j)]
  BY <1>1
<1>3. \A a, b \in DOMAIN ms : a < b => Old(a) < Old(b)
  BY <1>1
<1> HIDE DEF ms, Old
<1>4. TypedNodes(ns) => TypedNodes(ms)
  BY <1>2 DEF TypedNodes
<1>5. NodesInv(ns) => NodesInv(ms)
  BY <1>2, <1>3 DEF NodesInv
<1> QED BY <1>4, <1>5 DEF ms

LEMMA PairsOf ==
  ASSUME NEW ns \in Seq(Nodes), NEW p \in 1 .. Len(ns)
  PROVE  ns[p] \in Nodes /\ ns[p].pairs \in Seq(Pairs) /\ ns[p].name \in Strings /\ ns[p].note \in BOOLEAN
<1>1. ns[p] \in Nodes
  BY ElementOfSeq
<1> QED BY <1>1 DEF Nodes

LEMMA InsertPair ==
  ASSUME NEW ns \in Seq(Nodes), NEW p \in 1 .. Len(ns), NEW pair \in Pairs
  PROVE  listkeyValueNode_insert(ns, p, pair) = WithPairs(ns, p, Append(ns[p].pairs, pair))
  BY DEF listkeyValueNode_insert, WithPairs

LEMMA InsertPairInv ==
  ASSUME NEW ns \in Seq(Nodes), NEW p \in 1 .. Len(ns), NEW pair \in Pairs, Tailed(pair), TypedNodes(ns)
  PROVE  LET ms == listkeyValueNode_insert(ns, p, pair) IN
         /\ ms \in Seq(Nodes) /\ TypedNodes(ms)
         /\ (NodesInv(ns) /\ ~Sealed(ns[p]) /\ ~(ns[p].note /\ pair.note) /\ PairFits(ns[p].pairs, pair)) => NodesInv(ms)
         /\ (Fresh(ns) /\ ~pair.nl) => Fresh(ms)
<1> DEFINE ps == ns[p].pairs
           qs == Append(ps, pair)
           ms == WithPairs(ns, p, qs)
<1>1. ps \in Seq(Pairs) /\ p \in DOMAIN ns /\ DOMAIN ns = 1 .. Len(ns)
  BY PairsOf
<1>2. TypedPairs(ps)
  BY <1>1 DEF TypedNodes
<1>3. ms = listkeyValueNode_insert(ns, p, pair)
  BY InsertPair
<1>4. qs \in Seq(Pairs)
  BY <1>1, AppendPair, Zenon
<1>5. TypedPairs(qs)
  BY <1>1, <1>2, AppendPairTyped, Zenon
<1>6. ms \in Seq(Nodes) /\ TypedNodes(ms)
  BY <1>4, <1>5, WithPairsIs, WithPairsTyped, Zenon
<1>7. ASSUME NodesInv(ns), ~Sealed(ns[p]), ~(ns[p].note /\ pair.note), PairFits(ns[p].pairs, pair)
      PROVE  NodesInv(ms)
  <2>1. PairsInv(ps)
    BY <1>1, <1>7 DEF NodesInv
  <2>2. PairsInv(qs)
    BY <1>1, <1>7, <2>1, AppendPairInv, Zenon
  <2>3. ASSUME ns[p].note PROVE Noteless(qs)
    <3>1. Noteless(ps) /\ ~pair.note
      BY <1>1, <1>7, <2>3 DEF NodesInv
    <3>2. /\ DOMAIN qs = 1 .. Len(ps) + 1 /\ DOMAIN ps = 1 .. Len(ps) /\ qs[Len(ps) + 1] = pair
          /\ \A j \in 1 .. Len(ps) : qs[j] = ps[j]
      BY <1>1, AppendPair
    <3>3. \A j \in 1 .. Len(ps) + 1 : j \in 1 .. Len(ps) \/ j = Len(ps) + 1
      BY <1>1
    <3> HIDE DEF ps, qs
    <3> QED BY <3>1, <3>2, <3>3 DEF Noteless
  <2> QED BY <1>4, <1>7, <2>2, <2>3, WithPairsInv, Zenon
<1>8. ASSUME Fresh(ns), ~pair.nl PROVE Fresh(ms)
  <2>1. /\ DOMAIN qs = 1 .. Len(ps) + 1 /\ DOMAIN ps = 1 .. Len(ps) /\ qs[Len(ps) + 1] = pair
        /\ \A j \in 1 .. Len(ps) : qs[j] = ps[j]
    BY <1>1, AppendPair
  <2>2. /\ DOMAIN ms = 1 .. Len(ns) /\ ms[p].pairs = qs
        /\ \A i \in 1 .. Len(ns) : i # p => ms[i] = ns[i]
    BY <1>4, WithPairsIs, Zenon
  <2>3. \A j \in DOMAIN ps : ~ps[j].nl
    BY <1>1, <1>8 DEF Fresh
  <2>5. \A j \in 1 .. Len(ps) + 1 : j \in 1 .. Len(ps) \/ j = Len(ps) + 1
    BY <1>1
  <2> HIDE DEF ms, qs, ps
  <2>4. \A j \in DOMAIN qs : ~qs[j].nl
    BY <2>1, <2>3, <1>8, <2>5
  <2> QED BY <1>1, <1>8, <2>2, <2>4 DEF Fresh
<1> QED BY <1>3, <1>6, <1>7, <1>8

-----------------------------------------------------------------------------
(* Reading a line                                                          *)

LEMMA LastIs ==
  ASSUME NEW ns \in Seq(Nodes), ns # <<>>
  PROVE  Len(ns) \in 1 .. Len(ns) /\ Last(ns) = ns[Len(ns)]
  BY EmptySeq DEF Last

(* A line is refused or ignored, begins a node or is an entry of the last  *)
(* section.                                                                *)
Ignored(ns, r) == \E c \in {DIES, REPEATNODEKEY, TOOLONG, 0} : r = Result(c, ns)

Begins(ns, r) ==
  \E note \in BOOLEAN, name \in Strings :
    /\ Tailed(Node(note, name)) /\ NodeFits(ns, note, name)
    /\ r = Result(0, listIniFileNode_insert(ns, Node(note, name)))

Enters(ns, r) ==
  /\ ns # <<>> /\ ~ns[Len(ns)].note
  /\ \E pair \in Pairs :
       /\ Tailed(pair) /\ ~pair.nl /\ PairFits(ns[Len(ns)].pairs, pair)
       /\ r = Result(0, listkeyValueNode_insert(ns, Len(ns), pair))

LEMMA LineNode ==
  ASSUME NEW ns \in Seq(Nodes), NEW line \in Lines, NEW bare \in BOOLEAN
  PROVE  LET r == initLineNode(ns, line, bare) IN Ignored(ns, r) \/ Begins(ns, r)
<1> DEFINE name == IF bare THEN CutStr(line.name) ELSE line.name
           r == initLineNode(ns, line, bare)
<1>1. line.name.text \in Texts /\ line.name.tail \in {"none", "blank", "blanks"}
  BY DEF Lines
<1>2. name \in Strings /\ name.tail \in {"none", "blank", "blanks"}
  BY <1>1, TextsAssumption DEF CutStr, Exact, Str, Strings, Lines
<1>3. CASE HeaderTooLong(line.name, bare)
  BY <1>3 DEF initLineNode, Ignored
<1>6. CASE ~HeaderTooLong(line.name, bare) /\ bare /\ line.name = Exact("")
  BY <1>6 DEF initLineNode, Ignored
<1> DEFINE read == ~HeaderTooLong(line.name, bare) /\ ~(bare /\ line.name = Exact(""))
<1>4. CASE read /\ findIniFileNode(ns, name) # 0
  BY <1>4 DEF initLineNode, Ignored
<1>5. CASE read /\ findIniFileNode(ns, name) = 0
  <2>1. r = Result(0, listIniFileNode_insert(ns, Node(FALSE, name)))
    BY <1>5 DEF initLineNode
  <2>3. findIniFileNode(ns, name) = 0 /\ ~(0 \in 1 .. Len(ns))
    <3>1. findIniFileNode(ns, name) = 0
      BY <1>5, Zenon
    <3>2. ~(0 \in 1 .. Len(ns))
      OBVIOUS
    <3> QED BY <3>1, <3>2
  <2>2. \A i \in DOMAIN ns : ~Answers(ns[i].name, name)
    BY <2>3, FindNode, Zenon
  <2> HIDE DEF r, name
  <2>4. Tailed(Node(FALSE, name))
    BY <1>2 DEF Tailed, Node
  <2>5. NodeFits(ns, FALSE, name)
    BY <2>2 DEF NodeFits
  <2>6. Begins(ns, r)
    BY <1>2, <2>1, <2>4, <2>5 DEF Begins
  <2> QED BY <2>6 DEF r
<1> QED BY <1>3, <1>4, <1>5, <1>6

LEMMA LineNotes ==
  ASSUME NEW ns \in Seq(Nodes), NEW line \in Lines, NEW bare \in BOOLEAN
  PROVE  LET r == Result(0, initLineNotes(ns, line, bare)) IN Begins(ns, r) \/ Enters(ns, r)
<1> DEFINE name == Str(line.name.text, IF bare THEN "none" ELSE "nl")
           r == Result(0, initLineNotes(ns, line, bare))
<1>1. line.name.text \in Texts
  BY DEF Lines
<1>2. name \in Strings /\ name.tail \in {"none", "nl"}
  BY <1>1 DEF Str, Strings
<1>3. CASE ns = <<>> \/ Last(ns).note
  <2>1. r = Result(0, listIniFileNode_insert(ns, Node(TRUE, name)))
    BY <1>3 DEF initLineNotes
  <2> HIDE DEF r, name
  <2>2. Tailed(Node(TRUE, name)) /\ NodeFits(ns, TRUE, name)
    BY <1>2, <1>3 DEF Tailed, Node, NodeFits
  <2>3. Begins(ns, r)
    BY <1>2, <2>1, <2>2 DEF Begins
  <2> QED BY <2>3 DEF r
<1>4. CASE ~(ns = <<>> \/ Last(ns).note)
  <2>1. r = Result(0, listkeyValueNode_insert(ns, Len(ns), Note(name)))
    BY <1>4 DEF initLineNotes
  <2>2. ns # <<>> /\ ~ns[Len(ns)].note
    BY <1>4, LastIs
  <2> HIDE DEF r, name
  <2>3. Note(name) \in Pairs /\ Tailed(Note(name)) /\ ~Note(name).nl
    BY <1>2, TextsAssumption DEF Note, Tailed, Pairs
  <2>4. PairFits(ns[Len(ns)].pairs, Note(name))
    BY <1>2 DEF PairFits, Note, Sealed
  <2>5. Enters(ns, r)
    BY <2>1, <2>2, <2>3, <2>4 DEF Enters
  <2> QED BY <2>5 DEF r
<1> QED BY <1>3, <1>4

LEMMA LineKeyValue ==
  ASSUME NEW ns \in Seq(Nodes), NEW line \in Lines, NEW bare \in BOOLEAN
  PROVE  LET r == initLineKeyValue(ns, line, bare) IN Ignored(ns, r) \/ Enters(ns, r)
<1> DEFINE value == IF bare THEN Cut(line.value) ELSE line.value
           r == initLineKeyValue(ns, line, bare)
           pair == Pair(line.name, value, FALSE)
<1>1. line.name \in Strings /\ line.name.tail \in {"none", "blank", "blanks"} /\ value \in Texts
  BY TextsAssumption DEF Lines, Strings
<1>2. CASE ns = <<>> \/ Last(ns).note
  BY <1>2 DEF initLineKeyValue, Ignored
<1>3. CASE ~(ns = <<>> \/ Last(ns).note) /\ findIniKeyValue(Last(ns), line.name) # 0
  BY <1>3 DEF initLineKeyValue, Ignored
<1>5. CASE ~(ns = <<>> \/ Last(ns).note) /\ findIniKeyValue(Last(ns), line.name) = 0 /\ bare /\ line.value = ""
  BY <1>5 DEF initLineKeyValue, Ignored
<1>4. CASE ~(ns = <<>> \/ Last(ns).note) /\ findIniKeyValue(Last(ns), line.name) = 0 /\ ~(bare /\ line.value = "")
  <2>1. r = Result(0, listkeyValueNode_insert(ns, Len(ns), pair))
    BY <1>4 DEF initLineKeyValue
  <2>2. ns # <<>> /\ ~ns[Len(ns)].note /\ Len(ns) \in 1 .. Len(ns) /\ Last(ns) = ns[Len(ns)]
    BY <1>4, LastIs
  <2>3. ns[Len(ns)] \in Nodes
    BY <2>2, PairsOf
  <2>9. findIniKeyValue(ns[Len(ns)], line.name) = 0
    BY <1>4, <2>2
  <2>10. \A len : ~(0 \in 1 .. len)
    OBVIOUS
  <2>4. \A j \in DOMAIN ns[Len(ns)].pairs : ~Answers(ns[Len(ns)].pairs[j].name, line.name)
    BY <2>3, <2>9, <2>10, FindPair, Zenon
  <2>5. pair \in Pairs /\ Tailed(pair) /\ ~pair.nl
    BY <1>1 DEF Pair, Tailed, Pairs
  <2>6. pair.name = line.name /\ pair.note = FALSE
    BY DEF Pair
  <2> HIDE DEF r, pair, value
  <2>7. PairFits(ns[Len(ns)].pairs, pair)
    BY <2>4, <2>5, <2>6 DEF PairFits, Sealed
  <2>8. Enters(ns, r)
    BY <2>1, <2>2, <2>5, <2>7 DEF Enters
  <2> QED BY <2>8 DEF r
<1> QED BY <1>2, <1>3, <1>4, <1>5

LEMMA LineCases ==
  ASSUME NEW ns \in Seq(Nodes), NEW line \in Lines, NEW bare \in BOOLEAN
  PROVE  LET r == initLineContext(ns, line, bare) IN Ignored(ns, r) \/ Begins(ns, r) \/ Enters(ns, r)
<1>1. CASE line.kind = "head"
  BY <1>1, LineNode DEF initLineContext
<1>2. CASE line.kind = "note"
  <2>1. CASE NoteTooLong(line.name.text, bare)
    BY <1>2, <2>1 DEF initLineContext, Ignored
  <2>2. CASE ~NoteTooLong(line.name.text, bare)
    <3>1. initLineContext(ns, line, bare) = Result(0, initLineNotes(ns, line, bare))
      BY <1>2, <2>2 DEF initLineContext
    <3> QED BY <3>1, LineNotes
  <2> QED BY <2>1, <2>2
<1>3. CASE line.kind = "pair"
  BY <1>3, LineKeyValue DEF initLineContext
<1>4. CASE line.kind = "junk"
  BY <1>4 DEF initLineContext, Ignored
<1> QED BY <1>1, <1>2, <1>3, <1>4 DEF Lines

(* What readIniFile goes through.                                          *)
TypedLists == {ns \in Seq(Nodes) : TypedNodes(ns)}
Readings == [ret : {DIES, REPEATNODEKEY, TOOLONG, 0}, nodes : TypedLists]

LEMMA LineKeeps ==
  ASSUME NEW ns \in TypedLists, NEW line \in Lines, NEW bare \in BOOLEAN
  PROVE  LET r == initLineContext(ns, line, bare) IN
         /\ r \in Readings
         /\ NodesInv(ns) => NodesInv(r.nodes)
         /\ Fresh(ns) => Fresh(r.nodes)
<1> DEFINE r == initLineContext(ns, line, bare)
<1>0. ns \in Seq(Nodes) /\ TypedNodes(ns)
  BY DEF TypedLists
<1>1. Ignored(ns, r) \/ Begins(ns, r) \/ Enters(ns, r)
  BY <1>0, LineCases
<1> HIDE DEF r
<1>2. CASE Ignored(ns, r)
  <2>1. r \in Readings /\ r.nodes = ns
    BY <1>2 DEF Ignored, Readings, Result
  <2> QED BY <2>1 DEF r
<1>3. CASE Begins(ns, r)
  <2>1. PICK note \in BOOLEAN, name \in Strings :
           /\ Tailed(Node(note, name)) /\ NodeFits(ns, note, name)
           /\ r = Result(0, listIniFileNode_insert(ns, Node(note, name)))
    BY <1>3 DEF Begins
  <2> DEFINE ms == listIniFileNode_insert(ns, Node(note, name))
  <2>2. ms \in Seq(Nodes) /\ TypedNodes(ms)
    BY <1>0, <2>1, AppendNode, AppendNodeTyped, Zenon
  <2>3. NodesInv(ns) => NodesInv(ms)
    BY <1>0, <2>1, AppendNodeInv, Zenon
  <2>4. Fresh(ns) => Fresh(ms)
    <3>1. /\ DOMAIN ms = 1 .. Len(ns) + 1 /\ ms[Len(ns) + 1] = Node(note, name) /\ DOMAIN ns = 1 .. Len(ns)
          /\ \A i \in 1 .. Len(ns) : ms[i] = ns[i]
      BY <1>0, AppendNode
    <3>2. DOMAIN Node(note, name).pairs = {}
      BY DEF Node
    <3>3. \A j \in 1 .. Len(ns) + 1 : j \in 1 .. Len(ns) \/ j = Len(ns) + 1
      BY <1>0
    <3> HIDE DEF ms
    <3> QED BY <3>1, <3>2, <3>3 DEF Fresh
  <2>5. r = Result(0, ms)
    BY <2>1
  <2> HIDE DEF ms
  <2> QED BY <2>2, <2>3, <2>4, <2>5 DEF Readings, Result, TypedLists, r
<1>4. CASE Enters(ns, r)
  <2>1. PICK pair \in Pairs :
           /\ Tailed(pair) /\ ~pair.nl /\ PairFits(ns[Len(ns)].pairs, pair)
           /\ r = Result(0, listkeyValueNode_insert(ns, Len(ns), pair))
    BY <1>4 DEF Enters
  <2>2. Len(ns) \in 1 .. Len(ns) /\ ~ns[Len(ns)].note
    BY <1>0, <1>4, LastIs DEF Enters
  <2>3. ~Sealed(ns[Len(ns)])
    BY <2>2 DEF Sealed
  <2> DEFINE ms == listkeyValueNode_insert(ns, Len(ns), pair)
  <2>4. ms \in Seq(Nodes) /\ TypedNodes(ms) /\ (NodesInv(ns) => NodesInv(ms)) /\ (Fresh(ns) => Fresh(ms))
    BY <1>0, <2>1, <2>2, <2>3, InsertPairInv, Zenon
  <2>5. r = Result(0, ms)
    BY <2>1
  <2> HIDE DEF ms
  <2> QED BY <2>4, <2>5 DEF Readings, Result, TypedLists, r
<1> QED BY <1>1, <1>2, <1>3, <1>4

-----------------------------------------------------------------------------
(* Induction over an interval, and the functions it defines                *)

LEMMA Induct ==
  ASSUME NEW L \in Nat, NEW T, 0 \in T, \A i \in 0 .. L : (i < L /\ i \in T) => i + 1 \in T
  PROVE  \A i \in 0 .. L : i \in T
<1> DEFINE U == {i \in 0 .. L : i \notin T}
<1> SUFFICES ASSUME U # {} PROVE FALSE
  OBVIOUS
<1>1. U \in SUBSET Nat
  OBVIOUS
<1> HIDE DEF U
<1>2. PICK K \in U : \A y \in U : K <= y
  BY <1>1, LeastExists
<1>3. K \in 0 .. L /\ K \notin T /\ K # 0
  BY <1>2 DEF U
<1>4. K - 1 \in 0 .. L /\ K - 1 < L /\ ~(K <= K - 1) /\ (K - 1) + 1 = K
  BY <1>3
<1>5. K - 1 \notin U
  BY <1>2, <1>4
<1>6. K - 1 \in T
  BY <1>4, <1>5 DEF U
<1> QED BY <1>3, <1>4, <1>6

Solves(f, L, V, v0, step) ==
  f \in [0 .. L -> V] /\ f[0] = v0 /\ \A i \in 1 .. L : f[i] = step[i][f[i - 1]]

LEMMA FcnExists ==
  ASSUME NEW L \in Nat, NEW V, NEW v0 \in V, NEW step \in [1 .. L -> [V -> V]]
  PROVE  \E f : Solves(f, L, V, v0, step)
<1> DEFINE Sol(K, f) == /\ f \in [0 .. K -> V] /\ f[0] = v0
                        /\ \A i \in 1 .. K : f[i] = step[i][f[i - 1]]
           T == {K \in 0 .. L : \E f : Sol(K, f)}
<1>1. 0 \in T
  <2> DEFINE z == [i \in 0 .. 0 |-> v0]
  <2>1. z \in [0 .. 0 -> V] /\ z[0] = v0 /\ \A i \in 1 .. 0 : FALSE
    OBVIOUS
  <2> HIDE DEF z
  <2>2. Sol(0, z)
    BY <2>1
  <2> HIDE DEF Sol
  <2> QED BY <2>2
<1>2. ASSUME NEW K \in 0 .. L, K < L, K \in T PROVE K + 1 \in T
  <2>1. PICK f : Sol(K, f)
    BY <1>2
  <2> DEFINE g == [i \in 0 .. K + 1 |-> IF i = K + 1 THEN step[K + 1][f[K]] ELSE f[i]]
  <2>2. f[K] \in V /\ K + 1 \in 1 .. L /\ K + 1 \in 0 .. L
    BY <1>2, <2>1
  <2>3. step[K + 1][f[K]] \in V
    BY <2>2
  <2>4. g \in [0 .. K + 1 -> V] /\ g[0] = v0
    BY <2>1, <2>3
  <2>5. ASSUME NEW i \in 1 .. K + 1 PROVE g[i] = step[i][g[i - 1]]
    <3>1. i - 1 \in 0 .. K /\ i - 1 # K + 1 /\ i \in 0 .. K + 1 /\ i - 1 \in 0 .. K + 1
      BY <1>2
    <3>2. g[i - 1] = f[i - 1]
      BY <3>1
    <3>3. CASE i = K + 1
      BY <3>1, <3>2, <3>3
    <3>4. CASE i # K + 1
      <4>1. i \in 1 .. K /\ g[i] = f[i]
        BY <3>1, <3>4
      <4> QED BY <2>1, <3>2, <4>1
    <3> QED BY <3>3, <3>4
  <2>6. Sol(K + 1, g)
    BY <2>4, <2>5
  <2> HIDE DEF Sol
  <2> QED BY <2>2, <2>6
<1> HIDE DEF T
<1>3. \A i \in 0 .. L : i \in T
  BY <1>1, <1>2, Induct
<1> QED BY <1>3 DEF T, Solves

-----------------------------------------------------------------------------
(* Reading a file                                                          *)

LEMMA ContinueKeeps ==
  ASSUME NEW acc \in Readings, NEW line \in Lines, NEW bare \in BOOLEAN
  PROVE  LET r == Continue(acc, line, bare) IN
         /\ r \in Readings
         /\ NodesInv(acc.nodes) => NodesInv(r.nodes)
         /\ Fresh(acc.nodes) => Fresh(r.nodes)
<1>1. acc.nodes \in TypedLists
  BY DEF Readings
<1>2. LET r == initLineContext(acc.nodes, line, bare) IN
      /\ r \in Readings
      /\ NodesInv(acc.nodes) => NodesInv(r.nodes)
      /\ Fresh(acc.nodes) => Fresh(r.nodes)
  BY <1>1, LineKeeps, Zenon
<1> QED BY <1>2 DEF Continue

(* A split line is read as two.                                            *)
LEMMA ReadLineKeeps ==
  ASSUME NEW acc \in Readings, NEW line \in Lines, NEW bare \in BOOLEAN
  PROVE  LET r == ReadLine(acc, line, bare) IN
         /\ r \in Readings
         /\ NodesInv(acc.nodes) => NodesInv(r.nodes)
         /\ Fresh(acc.nodes) => Fresh(r.nodes)
<1>1. CASE ~Split(line)
  BY <1>1, ContinueKeeps DEF ReadLine
<1>2. CASE Split(line)
  <2> DEFINE first == [line EXCEPT !.value = Taken(line.value)]
             rest == Rest(line.value)
             mid == Continue(acc, first, TRUE)
  <2>1. first \in Lines /\ rest \in Lines
    BY TextsAssumption, FilesAssumption DEF Lines
  <2>2. ReadLine(acc, line, bare) = Continue(mid, rest, bare)
    BY <1>2 DEF ReadLine
  <2> HIDE DEF first, rest
  <2>3. /\ mid \in Readings
        /\ NodesInv(acc.nodes) => NodesInv(mid.nodes)
        /\ Fresh(acc.nodes) => Fresh(mid.nodes)
    BY <2>1, ContinueKeeps
  <2> HIDE DEF mid
  <2>4. LET r == Continue(mid, rest, bare) IN
        /\ r \in Readings
        /\ NodesInv(mid.nodes) => NodesInv(r.nodes)
        /\ Fresh(mid.nodes) => Fresh(r.nodes)
    BY <2>1, <2>3, ContinueKeeps, Zenon
  <2> QED BY <2>2, <2>3, <2>4
<1> QED BY <1>1, <1>2

(* The reading is the function its recursion says, and what it goes        *)
(* through are lists a file can carry.                                     *)
LEMMA ReadingIs ==
  ASSUME NEW file \in Files
  PROVE  LET R == Reading(file)
             n == Len(file.lines)
         IN  /\ n \in Nat /\ R[0] = Result(0, <<>>)
             /\ \A i \in 1 .. n : R[i] = ReadLine(R[i - 1], file.lines[i], file.bare /\ i = n)
             /\ \A i \in 0 .. n : R[i] \in Readings /\ NodesInv(R[i].nodes) /\ Fresh(R[i].nodes)
<1> DEFINE n == Len(file.lines)
           lines == file.lines
           R == Reading(file)
           Bare(i) == file.bare /\ i = n
           v0 == Result(0, <<>>)
           Is(g) == g = [i \in 0 .. n |-> IF i = 0 THEN v0 ELSE ReadLine(g[i - 1], lines[i], Bare(i))]
<1>1. lines \in Seq(Lines) /\ file.bare \in BOOLEAN
  BY DEF Files
<1>2. n \in Nat /\ \A i \in 1 .. n : lines[i] \in Lines /\ Bare(i) \in BOOLEAN
  BY <1>1, ElementOfSeq
<1>3. v0 \in Readings
  <2>1. <<>> \in Seq(Nodes) /\ TypedNodes(<<>>)
    BY DEF TypedNodes
  <2> QED BY <2>1 DEF Readings, Result, TypedLists
<1>0. R = CHOOSE g : Is(g)
  BY DEF Reading
<1> HIDE DEF n, lines, v0, R, Bare
<1>4. \A i \in 1 .. n : \A v \in Readings : ReadLine(v, lines[i], Bare(i)) \in Readings
  BY <1>2, ReadLineKeeps
<1> DEFINE step == [i \in 1 .. n |-> [v \in Readings |-> ReadLine(v, lines[i], Bare(i))]]
<1>5. step \in [1 .. n -> [Readings -> Readings]]
  BY <1>4
<1>n. n \in Nat
  BY <1>2
<1>s. \E f : Solves(f, n, Readings, v0, step)
  <2> HIDE DEF step
  <2> QED BY <1>n, <1>3, <1>5, FcnExists
<1>6. PICK f \in [0 .. n -> Readings] : f[0] = v0 /\ \A i \in 1 .. n : f[i] = step[i][f[i - 1]]
  BY <1>s DEF Solves
<1>7. \A i \in 1 .. n : f[i] = ReadLine(f[i - 1], lines[i], Bare(i))
  <2> SUFFICES ASSUME NEW i \in 1 .. n PROVE f[i] = ReadLine(f[i - 1], lines[i], Bare(i))
    OBVIOUS
  <2>1. i - 1 \in 0 .. n
    BY <1>2
  <2>2. f[i - 1] \in Readings
    BY <1>6, <2>1
  <2> QED BY <1>6, <2>2
<1> HIDE DEF step
<1>8. Is(f)
  <2>1. \A i \in 0 .. n : f[i] = IF i = 0 THEN v0 ELSE ReadLine(f[i - 1], lines[i], Bare(i))
    BY <1>2, <1>6, <1>7
  <2>2. DOMAIN f = 0 .. n /\ f = [i \in DOMAIN f |-> f[i]]
    BY <1>6
  <2> QED BY <2>1, <2>2
<1>9. Is(R)
  <2> HIDE DEF Is
  <2> QED BY <1>0, <1>8
<1>10. R[0] = v0
  BY <1>2, <1>9
<1>11. \A i \in 1 .. n : R[i] = ReadLine(R[i - 1], lines[i], Bare(i))
  BY <1>2, <1>9
<1> HIDE DEF Is
<1> DEFINE Good(v) == v \in Readings /\ NodesInv(v.nodes) /\ Fresh(v.nodes)
           T == {i \in 0 .. n : Good(R[i])}
<1>12. 0 \in T
  <2>1. v0.nodes = <<>>
    BY DEF v0, Result
  <2>2. NodesInv(<<>>) /\ Fresh(<<>>)
    BY DEF NodesInv, Fresh
  <2> QED BY <1>2, <1>3, <1>10, <2>1, <2>2
<1>13. ASSUME NEW i \in 0 .. n, i < n, i \in T PROVE i + 1 \in T
  <2>1. i + 1 \in 1 .. n /\ (i + 1) - 1 = i /\ i + 1 \in 0 .. n
    BY <1>2, <1>13
  <2>2. R[i + 1] = ReadLine(R[i], lines[i + 1], Bare(i + 1))
    BY <1>11, <2>1
  <2>3. lines[i + 1] \in Lines /\ Bare(i + 1) \in BOOLEAN /\ Good(R[i])
    BY <1>2, <1>13, <2>1
  <2>4. Good(R[i + 1])
    BY <2>2, <2>3, ReadLineKeeps
  <2> QED BY <2>1, <2>4
<1> HIDE DEF T
<1>14. \A i \in 0 .. n : i \in T
  BY <1>2, <1>12, <1>13, Induct
<1>15. \A i \in 0 .. n : Good(R[i])
  BY <1>14 DEF T
<1> QED BY <1>2, <1>10, <1>11, <1>15 DEF n, lines, R, Bare, v0

LEMMA ReadFileIs ==
  ASSUME NEW file \in Files
  PROVE  LET r == readIniFile(file) IN
         r \in Readings /\ NodesInv(r.nodes) /\ Fresh(r.nodes)
<1>1. Len(file.lines) \in 0 .. Len(file.lines)
  BY ReadingIs
<1> QED BY <1>1, ReadingIs DEF readIniFile

-----------------------------------------------------------------------------
(* The image of a list                                                     *)

LEMMA NodeLinesIs ==
  ASSUME NEW n \in Nodes, Tailed(n), TypedPairs(n.pairs)
  PROVE  /\ NodeLines(n) \in Seq(Lines) /\ Len(NodeLines(n)) = 1 + Len(n.pairs)
         /\ NodeLines(n)[1] = NodeLine(n)
         /\ \A j \in 1 .. Len(n.pairs) : NodeLines(n)[1 + j] = PairLine(n.pairs[j])
<1> DEFINE ps == n.pairs
           a == <<NodeLine(n)>>
           b == [j \in DOMAIN ps |-> PairLine(ps[j])]
<1>1. ps \in Seq(Pairs) /\ n.name \in Strings /\ n.note \in BOOLEAN
  BY DEF Nodes
<1>2. NodeLine(n) \in Lines
  BY <1>1, TextsAssumption DEF NodeLine, NoteLine, Line, Lines, Exact, Str, Strings, Tailed
<1>3. ASSUME NEW j \in 1 .. Len(ps) PROVE PairLine(ps[j]) \in Lines
  <2> DEFINE p == ps[j]
  <2>1. p \in Pairs
    BY <1>1, ElementOfSeq
  <2>2. Tailed(p)
    BY <1>1 DEF TypedPairs
  <2> HIDE DEF p, ps
  <2>3. PairLine(p) \in Lines
    BY <2>1, <2>2, TextsAssumption DEF PairLine, NoteLine, Line, Lines, Exact, Str, Strings, Tailed, Pairs
  <2> QED BY <2>3 DEF p
<1>0. NodeLines(n) = a \o b
  BY DEF NodeLines
<1> HIDE DEF ps
<1>4. b \in Seq(Lines) /\ Len(b) = Len(ps) /\ \A j \in 1 .. Len(ps) : b[j] = PairLine(ps[j])
  BY <1>1, <1>3
<1>5. a \in Seq(Lines) /\ Len(a) = 1 /\ a[1] = NodeLine(n)
  BY <1>2
<1> HIDE DEF a, b
<1>6. /\ a \o b \in Seq(Lines) /\ Len(a \o b) = Len(a) + Len(b)
      /\ \A j \in 1 .. Len(a) + Len(b) : (a \o b)[j] = IF j <= Len(a) THEN a[j] ELSE b[j - Len(a)]
  <2>1. a \in Seq(Lines) /\ b \in Seq(Lines)
    BY <1>4, <1>5
  <2> QED BY <2>1, ConcatProperties, Zenon
<1>7. Len(ps) \in Nat
  BY <1>1
<1>8. (a \o b)[1] = NodeLine(n)
  BY <1>4, <1>5, <1>6, <1>7
<1>9. ASSUME NEW j \in 1 .. Len(ps) PROVE (a \o b)[1 + j] = PairLine(ps[j])
  <2>1. 1 + j \in 1 .. Len(a) + Len(b) /\ ~(1 + j <= Len(a)) /\ (1 + j) - Len(a) = j
    BY <1>4, <1>5, <1>7
  <2> QED BY <1>4, <1>6, <2>1
<1> QED BY <1>0, <1>4, <1>5, <1>6, <1>8, <1>9 DEF ps

(* The image after each node.                                              *)
Builds(f, ns) ==
  /\ f \in [0 .. Len(ns) -> Seq(Lines)] /\ f[0] = <<>>
  /\ \A i \in 1 .. Len(ns) : f[i] = f[i - 1] \o NodeLines(ns[i])
  /\ Image(ns) = f[Len(ns)]

LEMMA NodeLinesOf ==
  ASSUME NEW ns \in TypedLists, NEW i \in 1 .. Len(ns)
  PROVE  /\ NodeLines(ns[i]) \in Seq(Lines) /\ Len(NodeLines(ns[i])) = 1 + Len(ns[i].pairs)
         /\ NodeLines(ns[i])[1] = NodeLine(ns[i])
         /\ \A j \in 1 .. Len(ns[i].pairs) : NodeLines(ns[i])[1 + j] = PairLine(ns[i].pairs[j])
<1>1. ns \in Seq(Nodes) /\ TypedNodes(ns)
  BY DEF TypedLists
<1>2. ns[i] \in Nodes /\ Tailed(ns[i]) /\ TypedPairs(ns[i].pairs)
  BY <1>1, ElementOfSeq DEF TypedNodes
<1> QED BY <1>2, NodeLinesIs

LEMMA ImageIs ==
  ASSUME NEW ns \in TypedLists
  PROVE  \E f : Builds(f, ns)
<1> DEFINE n == Len(ns)
           V == Seq(Lines)
           seqs == [i \in DOMAIN ns |-> NodeLines(ns[i])]
           Is(g) == g = [i \in 1 .. n |-> IF i = 1 THEN seqs[i] ELSE g[i - 1] \o seqs[i]]
           step == [i \in 1 .. n |-> [v \in V |-> v \o NodeLines(ns[i])]]
<1>1. ns \in Seq(Nodes) /\ n \in Nat /\ DOMAIN ns = 1 .. n
  BY DEF TypedLists
<1>2. \A i \in 1 .. n : NodeLines(ns[i]) \in V
  BY NodeLinesOf
<1>3. Len(seqs) = n /\ seqs \in Seq(V)
  BY <1>1, <1>2
<1> HIDE DEF n
<1>4. CASE n = 0
  <2>1. Image(ns) = <<>>
    BY <1>1, <1>3, <1>4 DEF Image, FlattenSeq
  <2>2. Builds([i \in 0 .. 0 |-> <<>>], ns)
    BY <1>1, <1>4, <2>1 DEF Builds, n
  <2> QED BY <2>2
<1>5. CASE n # 0
  <2>1. Image(ns) = (CHOOSE g : Is(g))[n]
    BY <1>3, <1>5 DEF Image, FlattenSeq
  <2>2. \A v \in V : \A i \in 1 .. n : v \o NodeLines(ns[i]) \in V
    BY <1>2, ConcatProperties
  <2>3. step \in [1 .. n -> [V -> V]] /\ <<>> \in V
    BY <2>2
  <2>4. \E f : Solves(f, n, V, <<>>, step)
    <3> HIDE DEF step, V
    <3> QED BY <1>1, <2>3, FcnExists
  <2>5. PICK f \in [0 .. n -> V] : f[0] = <<>> /\ \A i \in 1 .. n : f[i] = step[i][f[i - 1]]
    BY <2>4 DEF Solves
  <2>6. \A i \in 1 .. n : i - 1 \in 0 .. n
    BY <1>1
  <2>7. \A i \in 1 .. n : f[i] = f[i - 1] \o NodeLines(ns[i])
    BY <2>5, <2>6
  <2> DEFINE h == [i \in 1 .. n |-> f[i]]
  <2>8. Is(h)
    <3>1. ASSUME NEW i \in 1 .. n PROVE h[i] = IF i = 1 THEN seqs[i] ELSE h[i - 1] \o seqs[i]
      <4>1. seqs[i] = NodeLines(ns[i]) /\ seqs[i] \in V
        BY <1>1, <1>2
      <4>2. CASE i = 1
        <5>0. i - 1 = 0
          BY <4>2
        <5>3. f[i] = f[i - 1] \o NodeLines(ns[i])
          BY <2>7
        <5>1. f[1] = <<>> \o NodeLines(ns[1])
          BY <2>5, <4>2, <5>0, <5>3
        <5>2. <<>> \o NodeLines(ns[1]) = NodeLines(ns[1])
          BY <1>2, <4>2, ConcatEmptySeq
        <5> QED BY <4>1, <4>2, <5>1, <5>2
      <4>3. CASE i # 1
        <5>1. i - 1 \in 1 .. n
          BY <1>1, <4>3
        <5> QED BY <2>7, <4>1, <4>3, <5>1
      <4> QED BY <4>2, <4>3
    <3> QED BY <3>1
  <2>9. Is(CHOOSE g : Is(g))
    <3> HIDE DEF Is
    <3> QED BY <2>8
  <2> DEFINE G == CHOOSE g : Is(g)
             F == [i \in 0 .. n |-> IF i = 0 THEN <<>> ELSE G[i]]
  <2> HIDE DEF G
  <2>10. \A i \in 1 .. n : G[i] = IF i = 1 THEN seqs[i] ELSE G[i - 1] \o seqs[i]
    BY <2>9 DEF G
  <2> HIDE DEF Is
  <2>11. ASSUME NEW i \in 1 .. n PROVE F[i] = F[i - 1] \o NodeLines(ns[i])
    <3>1. seqs[i] = NodeLines(ns[i])
      BY <1>1
    <3>2. F[i] = G[i] /\ F[0] = <<>>
      BY <1>1
    <3>3. CASE i = 1
      <4>1. <<>> \o NodeLines(ns[1]) = NodeLines(ns[1])
        BY <1>2, <3>3, ConcatEmptySeq
      <4>2. i - 1 = 0
        BY <3>3
      <4>4. G[i] = seqs[i]
        <5> HIDE DEF seqs
        <5> QED BY <2>10, <3>3
      <4>3. F[i - 1] = <<>> /\ F[i] = NodeLines(ns[i])
        BY <3>1, <3>2, <4>2, <4>4
      <4> QED BY <3>3, <4>1, <4>3
    <3>4. CASE i # 1
      <4>1. F[i - 1] = G[i - 1]
        BY <1>1, <3>4
      <4> QED BY <2>10, <3>1, <3>2, <3>4, <4>1
    <3> QED BY <3>3, <3>4
  <2>12. F[0] = <<>> /\ F[n] = G[n] /\ DOMAIN F = 0 .. n
    BY <1>1, <1>5
  <2>0. F = [i \in 0 .. n |-> F[i]]
    OBVIOUS
  <2> HIDE DEF F
  <2> DEFINE T == {i \in 0 .. n : F[i] \in V}
  <2>13. 0 \in T
    <3>1. 0 \in 0 .. n /\ F[0] \in V
      BY <1>1, <2>3, <2>12
    <3> HIDE DEF V
    <3> QED BY <3>1
  <2>14. ASSUME NEW i \in 0 .. n, i < n, i \in T PROVE i + 1 \in T
    <3>1. i + 1 \in 1 .. n /\ (i + 1) - 1 = i /\ i + 1 \in 0 .. n
      BY <1>1, <2>14
    <3>2. F[i + 1] = F[i] \o NodeLines(ns[i + 1])
      BY <2>11, <3>1
    <3>3. F[i] \in V
      BY <2>14
    <3>4. F[i + 1] \in V
      BY <2>2, <3>1, <3>2, <3>3
    <3> QED BY <3>1, <3>4
  <2> HIDE DEF T
  <2>15. \A i \in 0 .. n : i \in T
    BY <1>1, <2>13, <2>14, Induct
  <2>16. F \in [0 .. n -> V]
    BY <2>0, <2>15 DEF T
  <2>17. Image(ns) = F[n]
    BY <2>1, <2>12 DEF G
  <2>18. Builds(F, ns)
    BY <2>11, <2>12, <2>16, <2>17 DEF Builds, n
  <2> QED BY <2>18
<1> QED BY <1>4, <1>5

(* What is written of the first nodes is the beginning of the image.       *)
LEMMA ImagePrefix ==
  ASSUME NEW ns \in TypedLists, NEW f, Builds(f, ns)
  PROVE  \A i \in 0 .. Len(ns) :
           /\ f[i] \in Seq(Lines) /\ Len(f[i]) \in Nat /\ Len(f[i]) <= Len(Image(ns))
           /\ \A x \in 1 .. Len(f[i]) : Image(ns)[x] = f[i][x]
<1> DEFINE n == Len(ns)
           I == Image(ns)
           P(i) == Len(f[i]) <= Len(I) /\ \A x \in 1 .. Len(f[i]) : I[x] = f[i][x]
           T == {d \in 0 .. n : P(n - d)}
<1>1. n \in Nat /\ f \in [0 .. n -> Seq(Lines)] /\ I = f[n]
      /\ \A i \in 1 .. n : f[i] = f[i - 1] \o NodeLines(ns[i])
  BY DEF Builds, TypedLists
<1>2. \A i \in 0 .. n : f[i] \in Seq(Lines) /\ Len(f[i]) \in Nat
  BY <1>1
<1>0. \A i \in 1 .. n : NodeLines(ns[i]) \in Seq(Lines)
  BY NodeLinesOf
<1> HIDE DEF n, I
<1>3. 0 \in T
  BY <1>1, <1>2
<1>4. ASSUME NEW d \in 0 .. n, d < n, d \in T PROVE d + 1 \in T
  <2> DEFINE i == n - d
             a == f[i - 1]
             b == NodeLines(ns[i])
  <2>1. i \in 1 .. n /\ i - 1 \in 0 .. n /\ i \in 0 .. n /\ n - (d + 1) = i - 1 /\ d + 1 \in 0 .. n
    BY <1>1, <1>4
  <2>2. f[i] = a \o b /\ a \in Seq(Lines) /\ b \in Seq(Lines) /\ P(i)
    BY <1>0, <1>1, <1>2, <1>4, <2>1
  <2> HIDE DEF i, a, b
  <2>3. /\ Len(a \o b) = Len(a) + Len(b) /\ Len(a) \in Nat /\ Len(b) \in Nat
        /\ \A j \in 1 .. Len(a) + Len(b) : (a \o b)[j] = IF j <= Len(a) THEN a[j] ELSE b[j - Len(a)]
    BY <2>2, ConcatProperties
  <2>l. Len(I) \in Nat
    BY <1>1, <1>2
  <2>4. Len(a) <= Len(I)
    BY <2>l, <2>2, <2>3
  <2>5. \A x \in 1 .. Len(a) : I[x] = a[x]
    BY <2>2, <2>3
  <2>6. P(i - 1)
    BY <2>4, <2>5 DEF a
  <2> HIDE DEF P
  <2> QED BY <2>1, <2>6
<1>5. \A d \in 0 .. n : d \in T
  <2> HIDE DEF T
  <2> QED BY <1>1, <1>3, <1>4, Induct
<1>6. ASSUME NEW i \in 0 .. n PROVE P(i)
  <2>1. n - i \in 0 .. n /\ n - (n - i) = i
    BY <1>1
  <2>2. P(n - (n - i))
    BY <1>5, <2>1
  <2> QED BY <2>1, <2>2
<1> QED BY <1>2, <1>6 DEF n, I

(* Where the lines of node i are.                                          *)
LEMMA ImageAt ==
  ASSUME NEW ns \in TypedLists, NEW f, Builds(f, ns), NEW i \in 1 .. Len(ns)
  PROVE  LET k == Len(f[i - 1]) IN
         /\ k \in Nat /\ Len(f[i]) = k + 1 + Len(ns[i].pairs) /\ Len(f[i]) <= Len(Image(ns))
         /\ Image(ns)[k + 1] = NodeLine(ns[i])
         /\ \A j \in 1 .. Len(ns[i].pairs) : Image(ns)[k + 1 + j] = PairLine(ns[i].pairs[j])
<1> DEFINE a == f[i - 1]
           b == NodeLines(ns[i])
           ps == ns[i].pairs
           I == Image(ns)
<1>1. i - 1 \in 0 .. Len(ns) /\ i \in 0 .. Len(ns) /\ ns \in Seq(Nodes)
  BY DEF TypedLists
<1>2. f[i] = a \o b
  BY DEF Builds
<1>3. /\ a \in Seq(Lines) /\ Len(a) \in Nat /\ Len(f[i]) <= Len(I)
      /\ \A x \in 1 .. Len(f[i]) : I[x] = f[i][x]
  BY <1>1, ImagePrefix
<1>4. /\ b \in Seq(Lines) /\ Len(b) = 1 + Len(ps) /\ b[1] = NodeLine(ns[i])
      /\ \A j \in 1 .. Len(ps) : b[1 + j] = PairLine(ps[j])
  BY NodeLinesOf
<1>5. Len(ps) \in Nat
  <2>1. ps \in Seq(Pairs)
    BY <1>1, PairsOf
  <2> QED BY <2>1
<1> HIDE DEF a, b, ps, I
<1>6. /\ Len(a \o b) = Len(a) + Len(b)
      /\ \A j \in 1 .. Len(a) + Len(b) : (a \o b)[j] = IF j <= Len(a) THEN a[j] ELSE b[j - Len(a)]
  <2>1. a \in Seq(Lines) /\ b \in Seq(Lines)
    BY <1>3, <1>4
  <2> QED BY <2>1, ConcatProperties, Zenon
<1>7. I[Len(a) + 1] = NodeLine(ns[i])
  <2>1. Len(a) + 1 \in 1 .. Len(a) + Len(b) /\ ~(Len(a) + 1 <= Len(a)) /\ (Len(a) + 1) - Len(a) = 1
    BY <1>3, <1>4, <1>5
  <2>2. (a \o b)[Len(a) + 1] = b[1]
    BY <1>6, <2>1
  <2> QED BY <1>2, <1>3, <1>4, <1>6, <2>1, <2>2
<1>8. ASSUME NEW j \in 1 .. Len(ps) PROVE I[Len(a) + 1 + j] = PairLine(ps[j])
  <2>1. /\ Len(a) + 1 + j \in 1 .. Len(a) + Len(b) /\ ~(Len(a) + 1 + j <= Len(a))
        /\ (Len(a) + 1 + j) - Len(a) = 1 + j
    BY <1>3, <1>4, <1>5
  <2>2. (a \o b)[Len(a) + 1 + j] = b[1 + j]
    BY <1>6, <2>1
  <2> QED BY <1>2, <1>3, <1>4, <1>6, <2>1, <2>2
<1>9. Len(f[i]) = Len(a) + 1 + Len(ps)
  BY <1>2, <1>3, <1>4, <1>5, <1>6
<1> QED BY <1>3, <1>7, <1>8, <1>9 DEF a, ps, I

LEMMA ImageTyped ==
  ASSUME NEW ns \in TypedLists
  PROVE  Image(ns) \in Seq(Lines) /\ Len(Image(ns)) \in Nat
<1>1. PICK f : Builds(f, ns)
  BY ImageIs
<1>2. Len(ns) \in 0 .. Len(ns) /\ Image(ns) = f[Len(ns)]
  BY <1>1 DEF Builds, TypedLists
<1> QED BY <1>1, <1>2, ImagePrefix

-----------------------------------------------------------------------------
(* The operations                                                          *)

(* Node p is the first that answers to s.                                  *)
FirstNode(ns, p, s) ==
  /\ Answers(ns[p].name, Exact(s))
  /\ \A i \in DOMAIN ns : Answers(ns[i].name, Exact(s)) => p <= i

(* What an operation that returns 0 makes of the list.                     *)
PairOf(o) == Pair(Str(o.key, "blank"), o.value, TRUE)

Updated(ns, ms, o, p, q) ==
  /\ o.name = "update" /\ o.value \in Values
  /\ q \in 1 .. Len(ns[p].pairs) /\ FirstFor(ns[p].pairs, q, o.key)
  /\ ms = WithPairs(ns, p, WithValue(ns[p].pairs, q, o.value))

Added(ns, ms, o, p) ==
  /\ o.name = "add" /\ o.value \in Values
  /\ \A j \in DOMAIN ns[p].pairs : ~Answers(ns[p].pairs[j].name, Exact(o.key))
  /\ ms = WithPairs(ns, p, Append(ns[p].pairs, PairOf(o)))

Deleted(ns, ms, o, p, q) ==
  /\ o.name = "delete"
  /\ q \in 1 .. Len(ns[p].pairs) /\ FirstFor(ns[p].pairs, q, o.key)
  /\ ms = WithPairs(ns, p, RemoveAt(ns[p].pairs, q))

PairChanged(ns, ms, o, p) ==
  /\ p \in 1 .. Len(ns) /\ FirstNode(ns, p, o.section)
  /\ o.section \in Sections /\ o.key \in Keys
  /\ Added(ns, ms, o, p) \/ \E q : Updated(ns, ms, o, p, q) \/ Deleted(ns, ms, o, p, q)

SectionAdded(ns, ms, o) ==
  /\ o.name = "addSection" /\ o.section \in Sections
  /\ \A i \in DOMAIN ns : ~Answers(ns[i].name, Exact(o.section))
  /\ ms = listIniFileNode_insert(ns, Node(FALSE, Exact(o.section)))

SectionDeleted(ns, ms, o, p) ==
  /\ o.name = "deleteSection" /\ o.section \in Sections
  /\ p \in 1 .. Len(ns) /\ FirstNode(ns, p, o.section)
  /\ ms = RemoveAt(ns, p)

OnlyFreed(ns, ms, o) ==
  /\ o.name = "deleteSection" /\ o.section \in Sections /\ Len(ns) = 1
  /\ FirstNode(ns, 1, o.section)
  /\ \E left \in {ns[1].name, Exact(Garbage)} : ms = [ns EXCEPT ![1].name = left]

Changed(ns, ms, o) ==
  \/ \E p : PairChanged(ns, ms, o, p) \/ SectionDeleted(ns, ms, o, p)
  \/ SectionAdded(ns, ms, o)

ValueAt(ns, p, q, v) == [ns EXCEPT ![p].pairs[q].value = v, ![p].pairs[q].nl = TRUE]

LEMMA UpdateIs ==
  ASSUME NEW ns \in Seq(Nodes), NEW p \in 1 .. Len(ns), NEW q \in 1 .. Len(ns[p].pairs), NEW v
  PROVE  ValueAt(ns, p, q, v) = WithPairs(ns, p, WithValue(ns[p].pairs, q, v))
<1> DEFINE n == ns[p]
           ps == n.pairs
           one == [ps[q] EXCEPT !.value = v]
           two == [ps[q] EXCEPT !.value = v, !.nl = TRUE]
           m1 == [n EXCEPT !.pairs = [ps EXCEPT ![q] = one]]
           ns1 == [ns EXCEPT ![p] = m1]
           m2 == [m1 EXCEPT !.pairs = [m1.pairs EXCEPT ![q] = [m1.pairs[q] EXCEPT !.nl = TRUE]]]
<1>1. n \in Nodes /\ ps \in Seq(Pairs) /\ p \in DOMAIN ns
  BY PairsOf
<1>2. q \in DOMAIN ps
  BY <1>1
<1>3. [ns EXCEPT ![p].pairs[q].value = v] = ns1
  OBVIOUS
<1>4. ns1[p] = m1 /\ DOMAIN ns1 = DOMAIN ns
  BY <1>1
<1>5. m1.pairs = [ps EXCEPT ![q] = one] /\ m1.pairs[q] = one
  BY <1>1, <1>2 DEF Nodes
<1>6. [one EXCEPT !.nl = TRUE] = two
  OBVIOUS
<1> HIDE DEF one, two
<1>7. m2.pairs = [ps EXCEPT ![q] = two] /\ m2 = [n EXCEPT !.pairs = [ps EXCEPT ![q] = two]]
  BY <1>1, <1>2, <1>5, <1>6 DEF Nodes
<1>8. [ns1 EXCEPT ![p].pairs[q].nl = TRUE] = [ns1 EXCEPT ![p] = m2]
  <2> HIDE DEF m1, ns1
  <2> QED BY <1>4
<1>9. [ns1 EXCEPT ![p] = m2] = [ns EXCEPT ![p] = m2]
  <2> HIDE DEF m1, m2
  <2> QED OBVIOUS
<1>10. WithPairs(ns, p, WithValue(ps, q, v)) = [ns EXCEPT ![p] = [n EXCEPT !.pairs = [ps EXCEPT ![q] = two]]]
  BY DEF WithPairs, WithValue, two
<1>11. [ns EXCEPT ![p].pairs[q].value = v, ![p].pairs[q].nl = TRUE] = [ns1 EXCEPT ![p].pairs[q].nl = TRUE]
  BY <1>3
<1> HIDE DEF m2, ns1, n, ps
<1>12. WithPairs(ns, p, WithValue(ps, q, v)) = [ns EXCEPT ![p] = m2]
  BY <1>7, <1>10
<1>13. ValueAt(ns, p, q, v) = [ns1 EXCEPT ![p].pairs[q].nl = TRUE]
  BY <1>11 DEF ValueAt
<1> QED BY <1>8, <1>9, <1>12, <1>13 DEF n, ps

(* How a call ends.                                                        *)
Called ==
  /\ pc = "idle" /\ ~freed /\ ops < MaxOps /\ ops' = ops + 1
  /\ disk' = disk /\ faults' = faults /\ out' = out

Refused == ret' \in -3 .. -1 /\ nodes' = nodes /\ freed' = freed /\ pc' = pc /\ wret' = wret

Written == ret' = 0 /\ pc' = "open" /\ wret' = 0

Done == Written /\ freed' = freed /\ Changed(nodes, nodes', op')

Dangles == Written /\ freed' = TRUE /\ OnlyFreed(nodes, nodes', op')

LEMMA FoundNode ==
  ASSUME NEW ns \in Seq(Nodes), NEW s
  PROVE  LET p == findIniFileNode(ns, Exact(s)) IN
         /\ p = 0 => \A i \in DOMAIN ns : ~Answers(ns[i].name, Exact(s))
         /\ p # 0 => p \in 1 .. Len(ns) /\ FirstNode(ns, p, s)
  BY FindNode DEF FirstNode

LEMMA FoundPair ==
  ASSUME NEW ns \in Seq(Nodes), NEW p \in 1 .. Len(ns), NEW k
  PROVE  LET q == findIniKeyValue(ns[p], Exact(k)) IN
         /\ q = 0 => \A j \in DOMAIN ns[p].pairs : ~Answers(ns[p].pairs[j].name, Exact(k))
         /\ q # 0 => q \in 1 .. Len(ns[p].pairs) /\ FirstFor(ns[p].pairs, q, k)
<1>1. ns[p] \in Nodes
  BY PairsOf
<1> QED BY <1>1, FindPair DEF FirstFor

LEMMA CallIs ==
  ASSUME nodes \in Seq(Nodes), Call
  PROVE  Called /\ (Refused \/ Done \/ Dangles)
<1> USE DEF Refused, Written, Called
<1> DEFINE P(s) == findIniFileNode(nodes, Exact(s))
           Q(s, k) == findIniKeyValue(nodes[P(s)], Exact(k))
<1>1. ASSUME NEW s \in Sections, NEW k \in Keys, NEW v \in Values, updateValueOfKey(s, k, v)
      PROVE  Called /\ (Refused \/ Done)
  <2> DEFINE p == P(s)
             q == Q(s, k)
             acc == [nodes EXCEPT ![p].pairs[q].value = v, ![p].pairs[q].nl = TRUE]
             o == [name |-> "update", section |-> s, key |-> k, value |-> v]
  <2>1. Operation(o)
    BY <1>1 DEF updateValueOfKey
  <2>2. \/ Refuse(-1) \/ Refuse(-2) \/ Refuse(-3)
        \/ p # 0 /\ q # 0 /\ Accept(acc)
    BY <1>1 DEF updateValueOfKey
  <2>3. CASE Refuse(-1) \/ Refuse(-2) \/ Refuse(-3)
    BY <2>1, <2>3 DEF Refuse, Operation
  <2>4. CASE p # 0 /\ q # 0 /\ Accept(acc)
    <3>1. p \in 1 .. Len(nodes) /\ FirstNode(nodes, p, s)
      BY <2>4, FoundNode
    <3>2. q \in 1 .. Len(nodes[p].pairs) /\ FirstFor(nodes[p].pairs, q, k)
      BY <2>4, <3>1, FoundPair
    <3>3. acc = WithPairs(nodes, p, WithValue(nodes[p].pairs, q, v))
      <4> HIDE DEF p, q
      <4>1. p \in 1 .. Len(nodes) /\ q \in 1 .. Len(nodes[p].pairs)
        BY <3>1, <3>2
      <4>2. acc = ValueAt(nodes, p, q, v)
        BY DEF ValueAt
      <4> HIDE DEF acc
      <4> QED BY <4>1, <4>2, UpdateIs
    <3>4. Written /\ nodes' = acc /\ freed' = freed /\ out' = out /\ op' = o /\ Called
      BY <2>1, <2>4 DEF Accept, Operation
    <3> HIDE DEF p, q, acc
    <3>5. Updated(nodes, nodes', op', p, q)
      BY <3>2, <3>3, <3>4 DEF Updated
    <3>6. PairChanged(nodes, nodes', op', p)
      BY <3>1, <3>4, <3>5 DEF PairChanged
    <3> QED BY <3>4, <3>6 DEF Done, Changed
  <2> QED BY <2>2, <2>3, <2>4
<1>2. ASSUME NEW s \in Sections, NEW k \in Keys, NEW v \in Values, addValueOfKey(s, k, v)
      PROVE  Called /\ (Refused \/ Done)
  <2> DEFINE p == P(s)
             q == Q(s, k)
             acc == listkeyValueNode_insert(nodes, p, Pair(Str(k, "blank"), v, TRUE))
             o == [name |-> "add", section |-> s, key |-> k, value |-> v]
  <2>1. Operation(o)
    BY <1>2 DEF addValueOfKey
  <2>2. \/ Refuse(-1) \/ Refuse(-2) \/ Refuse(-3)
        \/ p # 0 /\ q = 0 /\ Accept(acc)
    BY <1>2 DEF addValueOfKey
  <2>3. CASE Refuse(-1) \/ Refuse(-2) \/ Refuse(-3)
    BY <2>1, <2>3 DEF Refuse, Operation
  <2>4. CASE p # 0 /\ q = 0 /\ Accept(acc)
    <3>1. p \in 1 .. Len(nodes) /\ FirstNode(nodes, p, s)
      BY <2>4, FoundNode
    <3>2. \A j \in DOMAIN nodes[p].pairs : ~Answers(nodes[p].pairs[j].name, Exact(k))
      BY <2>4, <3>1, FoundPair
    <3>3. acc = WithPairs(nodes, p, Append(nodes[p].pairs, PairOf(o)))
      BY DEF listkeyValueNode_insert, WithPairs, PairOf
    <3>4. Written /\ nodes' = acc /\ freed' = freed /\ out' = out /\ op' = o /\ Called
      BY <2>1, <2>4 DEF Accept, Operation
    <3> HIDE DEF p, q, acc
    <3>5. Added(nodes, nodes', op', p)
      BY <3>2, <3>3, <3>4 DEF Added
    <3>6. PairChanged(nodes, nodes', op', p)
      BY <3>1, <3>4, <3>5 DEF PairChanged
    <3> QED BY <3>4, <3>6 DEF Done, Changed
  <2> QED BY <2>2, <2>3, <2>4
<1>3. ASSUME NEW s \in Sections, NEW k \in Keys, deleteValueOfKey(s, k)
      PROVE  Called /\ (Refused \/ Done)
  <2> DEFINE p == P(s)
             q == Q(s, k)
             acc == listkeyValueNode_delete(nodes, p, q)
             o == [name |-> "delete", section |-> s, key |-> k]
  <2>1. Operation(o)
    BY <1>3 DEF deleteValueOfKey
  <2>2. \/ Refuse(-1) \/ Refuse(-2) \/ Refuse(-3)
        \/ p # 0 /\ q # 0 /\ Accept(acc)
    BY <1>3 DEF deleteValueOfKey
  <2>3. CASE Refuse(-1) \/ Refuse(-2) \/ Refuse(-3)
    BY <2>1, <2>3 DEF Refuse, Operation
  <2>4. CASE p # 0 /\ q # 0 /\ Accept(acc)
    <3>1. p \in 1 .. Len(nodes) /\ FirstNode(nodes, p, s)
      BY <2>4, FoundNode
    <3>2. q \in 1 .. Len(nodes[p].pairs) /\ FirstFor(nodes[p].pairs, q, k)
      BY <2>4, <3>1, FoundPair
    <3>3. acc = WithPairs(nodes, p, RemoveAt(nodes[p].pairs, q))
      BY DEF listkeyValueNode_delete, WithPairs
    <3>4. Written /\ nodes' = acc /\ freed' = freed /\ out' = out /\ op' = o /\ Called
      BY <2>1, <2>4 DEF Accept, Operation
    <3> HIDE DEF p, q, acc
    <3>5. Deleted(nodes, nodes', op', p, q)
      BY <3>2, <3>3, <3>4 DEF Deleted
    <3>6. PairChanged(nodes, nodes', op', p)
      BY <3>1, <3>4, <3>5 DEF PairChanged
    <3> QED BY <3>4, <3>6 DEF Done, Changed
  <2> QED BY <2>2, <2>3, <2>4
<1>4. ASSUME NEW s \in Sections, addSetction(s)
      PROVE  Called /\ (Refused \/ Done)
  <2> DEFINE p == P(s)
             acc == listIniFileNode_insert(nodes, Node(FALSE, Exact(s)))
             o == [name |-> "addSection", section |-> s]
  <2>1. Operation(o)
    BY <1>4 DEF addSetction
  <2>2. \/ Refuse(-1) \/ Refuse(-2)
        \/ ini_parameter_check({s}) /\ p = 0 /\ Accept(acc)
    BY <1>4 DEF addSetction
  <2>3. CASE Refuse(-1) \/ Refuse(-2)
    BY <2>1, <2>3 DEF Refuse, Operation
  <2>4. CASE ini_parameter_check({s}) /\ p = 0 /\ Accept(acc)
    <3>1. \A i \in DOMAIN nodes : ~Answers(nodes[i].name, Exact(s))
      BY <2>4, FoundNode
    <3>4. Written /\ nodes' = acc /\ freed' = freed /\ out' = out /\ op' = o /\ Called
      BY <2>1, <2>4 DEF Accept, Operation
    <3> HIDE DEF p
    <3>5. SectionAdded(nodes, nodes', op')
      BY <3>1, <3>4 DEF SectionAdded
    <3> QED BY <3>4, <3>5 DEF Done, Changed
  <2> QED BY <2>2, <2>3, <2>4
<1>5. ASSUME NEW s \in Sections, deleteSection(s)
      PROVE  Called /\ (Refused \/ Done \/ Dangles)
  <2> DEFINE p == P(s)
             acc == listIniFileNode_delete(nodes, p)
             o == [name |-> "deleteSection", section |-> s]
  <2>1. Operation(o)
    BY <1>5 DEF deleteSection
  <2>2. \/ Refuse(-1) \/ Refuse(-2)
        \/ p # 0 /\ Len(nodes) = 1 /\ FreeOnlyNode
        \/ p # 0 /\ Len(nodes) # 1 /\ Accept(acc)
    BY <1>5 DEF deleteSection
  <2>3. CASE Refuse(-1) \/ Refuse(-2)
    BY <2>1, <2>3 DEF Refuse, Operation
  <2>4. CASE p # 0 /\ Len(nodes) # 1 /\ Accept(acc)
    <3>1. p \in 1 .. Len(nodes) /\ FirstNode(nodes, p, s)
      BY <2>4, FoundNode
    <3>4. Written /\ nodes' = acc /\ freed' = freed /\ out' = out /\ op' = o /\ Called
      BY <2>1, <2>4 DEF Accept, Operation
    <3> HIDE DEF p
    <3>5. SectionDeleted(nodes, nodes', op', p)
      BY <3>1, <3>4 DEF SectionDeleted, listIniFileNode_delete
    <3> QED BY <3>4, <3>5 DEF Done, Changed
  <2>5. CASE p # 0 /\ Len(nodes) = 1 /\ FreeOnlyNode
    <3>1. p \in 1 .. Len(nodes) /\ FirstNode(nodes, p, s)
      BY <2>5, FoundNode
    <3>2. p = 1
      BY <2>5, <3>1
    <3>3. Written /\ freed' = TRUE /\ out' = out /\ op' = o /\ Called
      BY <2>1, <2>5 DEF FreeOnlyNode, Operation
    <3>4. \E left \in {nodes[1].name, Exact(Garbage)} : nodes' = [nodes EXCEPT ![1].name = left]
      BY <2>5 DEF FreeOnlyNode
    <3> HIDE DEF p
    <3>5. OnlyFreed(nodes, nodes', op')
      BY <2>5, <3>1, <3>2, <3>3, <3>4 DEF OnlyFreed
    <3> QED BY <3>3, <3>5 DEF Dangles
  <2> QED BY <2>2, <2>3, <2>4, <2>5
<1> QED BY <1>1, <1>2, <1>3, <1>4, <1>5 DEF Call

LEMMA PairOfIs ==
  ASSUME NEW o, o.key \in Keys, o.value \in Values
  PROVE  PairOf(o) \in Pairs /\ Tailed(PairOf(o)) /\ ~PairOf(o).note /\ PairOf(o).value = o.value
         /\ PairOf(o).name = Str(o.key, "blank")
  BY TextsAssumption DEF PairOf, Pair, Pairs, Strings, Str, Tailed

(* The entries of the section after an operation on a key.                 *)
Keeps(ps, qs) ==
  /\ qs \in Seq(Pairs) /\ TypedPairs(qs)
  /\ PairsInv(ps) => PairsInv(qs)
  /\ Noteless(ps) => Noteless(qs)

LEMMA AddedKeeps ==
  ASSUME NEW ps \in Seq(Pairs), TypedPairs(ps), NEW o, o.key \in Keys, o.value \in Values,
         \A j \in DOMAIN ps : ~Answers(ps[j].name, Exact(o.key))
  PROVE  Keeps(ps, Append(ps, PairOf(o)))
<1> DEFINE pair == PairOf(o)
           qs == Append(ps, pair)
<1>1. pair \in Pairs /\ Tailed(pair) /\ ~pair.note /\ pair.name = Str(o.key, "blank")
  BY PairOfIs
<1> HIDE DEF pair
<1>2. qs \in Seq(Pairs) /\ TypedPairs(qs)
  BY <1>1, AppendPair, AppendPairTyped, Zenon
<1>3. \A a \in DOMAIN ps : ps[a].name.tail \in {"none", "blank", "blanks", "nl"}
  BY DEF TypedPairs, Tailed
<1>4. PairFits(ps, pair)
  BY <1>1, <1>3 DEF PairFits, Sealed, Answers, Exact, Str
<1>5. PairsInv(ps) => PairsInv(qs)
  BY <1>1, <1>4, AppendPairInv, Zenon
<1>6. /\ DOMAIN qs = 1 .. Len(ps) + 1 /\ DOMAIN ps = 1 .. Len(ps) /\ qs[Len(ps) + 1] = pair
      /\ \A j \in 1 .. Len(ps) : qs[j] = ps[j]
  BY <1>1, AppendPair, LenProperties, Zenon
<1>7. \A j \in 1 .. Len(ps) + 1 : j \in 1 .. Len(ps) \/ j = Len(ps) + 1
  OBVIOUS
<1> HIDE DEF qs
<1>8. Noteless(ps) => Noteless(qs)
  BY <1>1, <1>6, <1>7 DEF Noteless
<1> QED BY <1>2, <1>5, <1>8 DEF Keeps, qs, pair

LEMMA UpdatedKeeps ==
  ASSUME NEW ps \in Seq(Pairs), TypedPairs(ps), NEW q \in 1 .. Len(ps), NEW k, NEW v \in Values, FirstFor(ps, q, k)
  PROVE  Keeps(ps, WithValue(ps, q, v))
<1> DEFINE qs == WithValue(ps, q, v)
<1>1. v \in Texts
  BY TextsAssumption
<1>2. /\ qs \in Seq(Pairs) /\ DOMAIN qs = 1 .. Len(ps)
      /\ \A j \in 1 .. Len(ps) : qs[j].note = ps[j].note
  BY <1>1, WithValueIs, ZenonT(60)
<1>3. TypedPairs(qs) /\ (PairsInv(ps) => PairsInv(qs))
  BY <1>1, WithValueInv, Zenon
<1>4. DOMAIN ps = 1 .. Len(ps)
  OBVIOUS
<1> HIDE DEF qs
<1>5. Noteless(ps) => Noteless(qs)
  BY <1>2, <1>4 DEF Noteless
<1> QED BY <1>2, <1>3, <1>5 DEF Keeps, qs

LEMMA DeletedKeeps ==
  ASSUME NEW ps \in Seq(Pairs), TypedPairs(ps), NEW q \in 1 .. Len(ps)
  PROVE  Keeps(ps, RemoveAt(ps, q))
<1> DEFINE qs == RemoveAt(ps, q)
<1>1. /\ qs \in Seq(Pairs) /\ DOMAIN qs = 1 .. Len(ps) - 1
      /\ \A j \in 1 .. Len(ps) - 1 : qs[j] = IF j < q THEN ps[j] ELSE ps[j + 1]
  BY RemoveAtIs, Zenon
<1>2. TypedPairs(qs) /\ (PairsInv(ps) => PairsInv(qs))
  BY RemovePairInv, Zenon
<1>3. DOMAIN ps = 1 .. Len(ps) /\ Len(ps) \in Nat
  OBVIOUS
<1>4. \A j \in 1 .. Len(ps) - 1 : j \in 1 .. Len(ps) /\ j + 1 \in 1 .. Len(ps)
  BY <1>3
<1> HIDE DEF qs
<1>5. Noteless(ps) => Noteless(qs)
  BY <1>1, <1>3, <1>4 DEF Noteless
<1> QED BY <1>1, <1>2, <1>5 DEF Keeps, qs

LEMMA PairChangedKeeps ==
  ASSUME NEW ns \in TypedLists, NEW ms, NEW o, NEW p, PairChanged(ns, ms, o, p)
  PROVE  \E qs : Keeps(ns[p].pairs, qs) /\ ms = WithPairs(ns, p, qs)
<1> DEFINE ps == ns[p].pairs
<1>1. p \in 1 .. Len(ns) /\ o.key \in Keys /\ ns \in Seq(Nodes) /\ TypedNodes(ns)
  BY DEF PairChanged, TypedLists
<1>2. ps \in Seq(Pairs) /\ TypedPairs(ps)
  BY <1>1, PairsOf DEF TypedNodes
<1>0. Added(ns, ms, o, p) \/ \E q : Updated(ns, ms, o, p, q) \/ Deleted(ns, ms, o, p, q)
  BY DEF PairChanged
<1>3. CASE Added(ns, ms, o, p)
  <2>1. Keeps(ps, Append(ps, PairOf(o)))
    <3>1. o.value \in Values /\ \A j \in DOMAIN ps : ~Answers(ps[j].name, Exact(o.key))
      BY <1>3 DEF Added
    <3> HIDE DEF ps
    <3> QED BY <1>1, <1>2, <3>1, AddedKeeps
  <2> QED BY <1>3, <2>1 DEF Added
<1>4. ASSUME NEW q, Updated(ns, ms, o, p, q) PROVE \E qs : Keeps(ps, qs) /\ ms = WithPairs(ns, p, qs)
  <2>1. Keeps(ps, WithValue(ps, q, o.value))
    BY <1>2, <1>4, UpdatedKeeps DEF Updated
  <2> QED BY <1>4, <2>1 DEF Updated
<1>5. ASSUME NEW q, Deleted(ns, ms, o, p, q) PROVE \E qs : Keeps(ps, qs) /\ ms = WithPairs(ns, p, qs)
  <2>1. Keeps(ps, RemoveAt(ps, q))
    BY <1>2, <1>5, DeletedKeeps DEF Deleted
  <2> QED BY <1>5, <2>1 DEF Deleted
<1> QED BY <1>0, <1>3, <1>4, <1>5

LEMMA ChangedKeeps ==
  ASSUME NEW ns \in TypedLists, NEW ms, NEW o, Changed(ns, ms, o)
  PROVE  ms \in TypedLists /\ (NodesInv(ns) => NodesInv(ms))
<1>0. ns \in Seq(Nodes) /\ TypedNodes(ns)
  BY DEF TypedLists
<1>1. ASSUME NEW p, PairChanged(ns, ms, o, p)
      PROVE  ms \in TypedLists /\ (NodesInv(ns) => NodesInv(ms))
  <2>1. PICK qs : Keeps(ns[p].pairs, qs) /\ ms = WithPairs(ns, p, qs)
    BY <1>1, PairChangedKeeps
  <2>2. p \in 1 .. Len(ns) /\ FirstNode(ns, p, o.section) /\ p \in DOMAIN ns
    BY <1>0, <1>1 DEF PairChanged
  <2>3. ~Sealed(ns[p])
    BY <2>2 DEF FirstNode, Answers, Exact, Str, Sealed
  <2>4. ms \in TypedLists
    <3>1. qs \in Seq(Pairs) /\ TypedPairs(qs)
      BY <2>1 DEF Keeps
    <3>2. ms \in Seq(Nodes) /\ TypedNodes(ms)
      BY <1>0, <2>1, <2>2, <3>1, WithPairsIs, WithPairsTyped
    <3> QED BY <3>2 DEF TypedLists
  <2>5. ASSUME NodesInv(ns) PROVE NodesInv(ms)
    <3>1. PairsInv(ns[p].pairs) /\ (ns[p].note => Noteless(ns[p].pairs))
      BY <2>2, <2>5 DEF NodesInv
    <3>2. qs \in Seq(Pairs) /\ PairsInv(qs) /\ (ns[p].note => Noteless(qs))
      BY <2>1, <3>1 DEF Keeps
    <3> QED BY <1>0, <2>1, <2>2, <2>3, <2>5, <3>2, WithPairsInv
  <2> QED BY <2>4, <2>5
<1>2. ASSUME NEW p, SectionDeleted(ns, ms, o, p)
      PROVE  ms \in TypedLists /\ (NodesInv(ns) => NodesInv(ms))
  <2>1. p \in 1 .. Len(ns) /\ ms = RemoveAt(ns, p)
    BY <1>2 DEF SectionDeleted
  <2>2. ms \in Seq(Nodes)
    BY <1>0, <2>1, RemoveAtIs
  <2>3. TypedNodes(ms) /\ (NodesInv(ns) => NodesInv(ms))
    BY <1>0, <2>1, RemoveNodeInv
  <2> QED BY <2>2, <2>3 DEF TypedLists
<1>3. ASSUME SectionAdded(ns, ms, o)
      PROVE  ms \in TypedLists /\ (NodesInv(ns) => NodesInv(ms))
  <2> DEFINE name == Exact(o.section)
  <2>1. name \in Strings /\ Tailed(Node(FALSE, name)) /\ o.section \in Sections
    BY <1>3, TextsAssumption DEF SectionAdded, Exact, Str, Strings, Tailed, Node
  <2>2. ms = listIniFileNode_insert(ns, Node(FALSE, name))
    BY <1>3 DEF SectionAdded
  <2>3. NodeFits(ns, FALSE, name)
    BY <1>3, <2>1 DEF SectionAdded, NodeFits, Exact, Str
  <2> HIDE DEF name
  <2>4. ms \in Seq(Nodes) /\ TypedNodes(ms)
    BY <1>0, <2>1, <2>2, AppendNode, AppendNodeTyped
  <2>5. NodesInv(ns) => NodesInv(ms)
    BY <1>0, <2>1, <2>2, <2>3, AppendNodeInv
  <2> QED BY <2>4, <2>5 DEF TypedLists
<1> QED BY <1>1, <1>2, <1>3 DEF Changed

LEMMA FreedKeeps ==
  ASSUME NEW ns \in TypedLists, NEW ms, NEW o, OnlyFreed(ns, ms, o)
  PROVE  ms \in TypedLists /\ Len(ms) = 1 /\ (NodesInv(ns) => NodesInv(ms))
<1>0. ns \in Seq(Nodes) /\ TypedNodes(ns) /\ Len(ns) = 1 /\ 1 \in 1 .. Len(ns) /\ DOMAIN ns = {1}
  BY DEF TypedLists, OnlyFreed
<1>1. PICK left \in {ns[1].name, Exact(Garbage)} : ms = [ns EXCEPT ![1].name = left]
  BY DEF OnlyFreed
<1> DEFINE n == ns[1]
           m == [n EXCEPT !.name = left]
<1>2. n \in Nodes /\ n.name \in Strings /\ n.note \in BOOLEAN /\ n.pairs \in Seq(Pairs)
  BY <1>0, PairsOf
<1>3. left \in Strings
  <2>1. Exact(Garbage) \in Strings
    BY TextsAssumption DEF Exact, Str, Strings
  <2> QED BY <1>1, <1>2, <2>1
<1>4. m \in Nodes /\ m.name = left /\ m.note = n.note /\ m.pairs = n.pairs
  BY <1>2, <1>3 DEF Nodes
<1>5. ms = [ns EXCEPT ![1] = m]
  BY <1>1
<1>6. Tailed(n) /\ TypedPairs(n.pairs)
  BY <1>0 DEF TypedNodes
<1>7. Tailed(m)
  BY <1>1, <1>4, <1>6 DEF Tailed, Exact, Str
<1> HIDE DEF m
<1>8. ms \in Seq(Nodes) /\ Len(ms) = 1 /\ DOMAIN ms = {1} /\ ms[1] = m
  BY <1>0, <1>4, <1>5
<1>9. TypedNodes(ms)
  BY <1>4, <1>6, <1>7, <1>8 DEF TypedNodes
<1>10. ASSUME NodesInv(ns) PROVE NodesInv(ms)
  <2>1. PairsInv(n.pairs) /\ (Sealed(n) => n.pairs = <<>>) /\ (n.note => Noteless(n.pairs))
    BY <1>0, <1>10 DEF NodesInv
  <2>2. Sealed(m) => Sealed(n)
    BY <1>1, <1>4 DEF Sealed, Exact, Str
  <2> QED BY <1>4, <1>8, <2>1, <2>2 DEF NodesInv
<1> QED BY <1>8, <1>9, <1>10 DEF TypedLists

-----------------------------------------------------------------------------
(* Types                                                                   *)

LEMMA TypeInit == Init => TypeInv
<1> SUFFICES ASSUME Init PROVE TypeInv
  OBVIOUS
<1>1. disk \in Files /\ nodes = <<>> /\ <<>> \in Seq(Nodes) /\ TypedNodes(<<>>)
  BY FilesAssumption DEF Init, TypedNodes
<1>2. 0 \in 0 .. 0 /\ 0 \in -3 .. 0 /\ 0 \in 0 .. MaxOps /\ 0 \in 0 .. MaxFaults
  BY BoundsAssumption
<1> QED BY <1>1, <1>2 DEF Init, TypeInv, TypeOK

LEMMA FragmentsAreLines ==
  ASSUME NEW line \in Lines
  PROVE  \A part \in Fragments(line) : part \in Lines
<1>1. line.name.text \in Texts /\ line.name.tail \in {"none", "blank", "blanks"} /\ line.value \in Texts
  BY DEF Lines
<1>2. CutStr(line.name) \in [text : Texts, tail : {"none", "blank", "blanks"}]
  BY <1>1, TextsAssumption DEF CutStr, Exact, Str
<1>3. Exact("") \in [text : Texts, tail : {"none", "blank", "blanks"}] /\ Cut(line.value) \in Texts
  BY <1>1, TextsAssumption DEF Exact, Str
<1>4. /\ [line EXCEPT !.name = CutStr(line.name)] \in Lines
      /\ [line EXCEPT !.name = Exact("")] \in Lines
      /\ [line EXCEPT !.value = Cut(line.value)] \in Lines
      /\ [line EXCEPT !.kind = "junk"] \in Lines
  BY <1>2, <1>3 DEF Lines
<1> QED BY <1>4 DEF Fragments

(* An unfinished write leaves a file.                                      *)
LEMMA TornIs ==
  ASSUME TypeInv, pc = "write", out < Len(Image(nodes)), Torn
  PROVE  disk' \in Files
<1>1. nodes \in TypedLists /\ disk \in Files
  BY DEF TypeInv, TypeOK, TypedLists
<1>2. Image(nodes) \in Seq(Lines) /\ Len(Image(nodes)) \in Nat /\ out \in 0 .. Len(Image(nodes))
  BY <1>1, ImageTyped DEF TypeInv, TypeOK
<1>3. out + 1 \in 1 .. Len(Image(nodes))
  BY <1>2
<1>4. Image(nodes)[out + 1] \in Lines
  BY <1>2, <1>3, ElementOfSeq
<1>5. disk.lines \in Seq(Lines)
  BY <1>1 DEF Files
<1>6. disk' = disk \/ \E line \in Lines : disk' = [lines |-> Append(disk.lines, line), bare |-> TRUE]
  BY <1>4, FragmentsAreLines DEF Torn
<1>7. ASSUME NEW line \in Lines PROVE [lines |-> Append(disk.lines, line), bare |-> TRUE] \in Files
  <2> DEFINE more == Append(disk.lines, line)
  <2>1. more \in Seq(Lines) /\ more # <<>>
    BY <1>5, AppendProperties
  <2> HIDE DEF more
  <2>2. [lines |-> more, bare |-> TRUE] \in Files
    BY <2>1 DEF Files
  <2> QED BY <2>2 DEF more
<1> QED BY <1>1, <1>6, <1>7

LEMMA TypeNext == TypeInv /\ [Next]_vars => TypeInv'
<1> SUFFICES ASSUME TypeInv, [Next]_vars PROVE TypeInv'
  OBVIOUS
<1> USE DEF TypeInv, TypeOK
<1>0. nodes \in TypedLists /\ Len(nodes) \in Nat
  BY DEF TypedLists
<1>i. Image(nodes) \in Seq(Lines) /\ Len(Image(nodes)) \in Nat
  BY <1>0, ImageTyped
<1>z. 0 \in 0 .. 0 /\ <<>> \in Seq(Nodes) /\ TypedNodes(<<>>) /\ 0 \in -3 .. 0 /\ -3 .. -1 \subseteq -3 .. 0
  BY DEF TypedNodes
<1>1. CASE initIniFile
  <2>1. readIniFile(disk) \in Readings
    BY ReadFileIs
  <2>2. readIniFile(disk).nodes \in Seq(Nodes) /\ TypedNodes(readIniFile(disk).nodes)
    BY <2>1 DEF Readings, TypedLists
  <2>3. ~freed /\ out = 0
    BY <1>1, <1>z DEF initIniFile
  <2>4. CASE readIniFile(disk).ret < 0
    BY <1>1, <1>z, <2>3, <2>4 DEF initIniFile
  <2>5. CASE ~(readIniFile(disk).ret < 0)
    BY <1>1, <1>z, <2>2, <2>3, <2>5 DEF initIniFile
  <2> QED BY <2>4, <2>5
<1>2. CASE Call
  <2>1. Called /\ (Refused \/ Done \/ Dangles)
    BY <1>2, CallIs
  <2>2. ops' \in 0 .. MaxOps /\ out' = 0 /\ disk' \in Files /\ faults' \in 0 .. MaxFaults
    BY <2>1, BoundsAssumption DEF Called
  <2>3. CASE Refused
    BY <1>z, <2>1, <2>2, <2>3 DEF Refused, Called
  <2>4. CASE Done
    <3>1. nodes' \in TypedLists
      BY <1>0, <2>4, ChangedKeeps DEF Done
    <3>2. nodes' \in Seq(Nodes) /\ TypedNodes(nodes')
      BY <3>1 DEF TypedLists
    <3> QED BY <1>z, <2>1, <2>2, <2>4, <3>2 DEF Done, Written, Called
  <2>5. CASE Dangles
    <3>1. nodes' \in TypedLists /\ Len(nodes') = 1
      BY <1>0, <2>5, FreedKeeps DEF Dangles
    <3>2. nodes' \in Seq(Nodes) /\ TypedNodes(nodes')
      BY <3>1 DEF TypedLists
    <3> QED BY <1>z, <2>1, <2>2, <2>5, <3>1, <3>2 DEF Dangles, Written, Called
  <2> QED BY <2>1, <2>3, <2>4, <2>5
<1>3. CASE Truncate
  <2>1. disk' \in Files /\ out' = 0 /\ nodes' = nodes /\ pc' = "write"
    BY <1>3 DEF Truncate, Files
  <2>2. out' \in 0 .. Len(Image(nodes'))
    BY <1>i, <2>1
  <2> QED BY <1>3, <2>1, <2>2 DEF Truncate
<1>4. CASE WriteLine
  <2>1. out \in 0 .. Len(Image(nodes)) /\ out < Len(Image(nodes))
    BY <1>4 DEF WriteLine
  <2>2. out' \in 0 .. Len(Image(nodes)) /\ out + 1 \in 1 .. Len(Image(nodes))
    BY <1>4, <1>i, <2>1 DEF WriteLine
  <2>3. Image(nodes)[out + 1] \in Lines
    BY <1>i, <2>2, ElementOfSeq
  <2>4. disk.lines \in Seq(Lines)
    BY DEF Files
  <2>5. Append(disk.lines, Image(nodes)[out + 1]) \in Seq(Lines) /\ Append(disk.lines, Image(nodes)[out + 1]) # <<>>
    BY <2>3, <2>4, AppendProperties
  <2>6. disk' \in Files
    BY <1>4, <2>5 DEF WriteLine, Files
  <2> QED BY <1>4, <2>2, <2>6 DEF WriteLine
<1>5. CASE CloseFile
  BY <1>5, <1>z DEF CloseFile
<1>6. CASE OpenFails
  <2>1. faults' \in 0 .. MaxFaults
    BY <1>6, BoundsAssumption DEF OpenFails
  <2> QED BY <1>6, <1>z, <2>1 DEF OpenFails
<1>7. CASE WriteFails
  <2>1. faults' \in 0 .. MaxFaults
    BY <1>7, BoundsAssumption DEF WriteFails
  <2>2. disk' \in Files
    BY <1>7, TornIs DEF WriteFails
  <2> QED BY <1>7, <1>z, <2>1, <2>2 DEF WriteFails
<1>8. CASE exitOperationIniFile
  BY <1>8, <1>z DEF exitOperationIniFile, Closed
<1>9. CASE Crash
  <2>1. faults' \in 0 .. MaxFaults
    BY <1>9, BoundsAssumption DEF Crash
  <2>2. disk' \in Files
    BY <1>9, TornIs DEF Crash
  <2> QED BY <1>9, <1>z, <2>1, <2>2 DEF Crash, Closed
<1>10. CASE UNCHANGED vars
  BY <1>10 DEF vars
<1> QED BY <1>1, <1>2, <1>3, <1>4, <1>5, <1>6, <1>7, <1>8, <1>9, <1>10 DEF Next, updateIniFile

LEMMA TypeAlways == Spec => []TypeInv
  BY TypeInit, TypeNext, PTL DEF Spec

(* Type correctness: whatever file it starts from and whatever fails, the  *)
(* library keeps a list of well formed nodes, a file of lines and its      *)
(* place in the update of it.                                              *)
THEOREM TypeCorrect == Spec => []TypeOK
<1>1. TypeInv => TypeOK
  BY DEF TypeInv
<1> QED BY <1>1, TypeAlways, PTL

-----------------------------------------------------------------------------
(* What is read of what was written.  A note is read with its newline, and *)
(* the entries of a note and the newline behind a value are lost.          *)

KeptPair(p) == IF p.note THEN Note(Str(p.name.text, "nl")) ELSE Pair(p.name, p.value, FALSE)

KeptPairs(ps, j) == [x \in 1 .. j |-> KeptPair(ps[x])]

Kept(n, j) ==
  IF n.note THEN Node(TRUE, Str(n.name.text, "nl"))
  ELSE [note |-> FALSE, name |-> n.name, pairs |-> KeptPairs(n.pairs, j)]

Back(ns, i) == [x \in 1 .. i |-> Kept(ns[x], Len(ns[x].pairs))]

Partial(ns, i, j) == Append(Back(ns, i - 1), Kept(ns[i], j))

LEMMA KeptPairsIs ==
  ASSUME NEW ps \in Seq(Pairs), NEW j \in 0 .. Len(ps)
  PROVE  /\ KeptPairs(ps, j) \in Seq(Pairs) /\ Len(KeptPairs(ps, j)) = j /\ DOMAIN KeptPairs(ps, j) = 1 .. j
         /\ \A x \in 1 .. j : KeptPairs(ps, j)[x] = KeptPair(ps[x]) /\ KeptPair(ps[x]) \in Pairs
<1>1. ASSUME NEW x \in 1 .. j PROVE KeptPair(ps[x]) \in Pairs
  <2> DEFINE p == ps[x]
  <2>1. p \in Pairs
    BY ElementOfSeq
  <2> HIDE DEF p
  <2>2. KeptPair(p) \in Pairs
    BY <2>1, TextsAssumption DEF KeptPair, Note, Pair, Str, Strings, Pairs
  <2> QED BY <2>2 DEF p
<1>2. j \in Nat
  OBVIOUS
<1> QED BY <1>1, <1>2 DEF KeptPairs

LEMMA KeptPairsStep ==
  ASSUME NEW ps \in Seq(Pairs), NEW j \in 1 .. Len(ps)
  PROVE  KeptPairs(ps, j) = Append(KeptPairs(ps, j - 1), KeptPair(ps[j])) /\ KeptPairs(ps, 0) = <<>>
<1> DEFINE a == KeptPairs(ps, j - 1)
           b == KeptPairs(ps, j)
           e == KeptPair(ps[j])
<1>0. j - 1 \in 0 .. Len(ps) /\ j \in 0 .. Len(ps) /\ 0 \in 0 .. Len(ps) /\ j \in 1 .. j /\ j \in Nat
  OBVIOUS
<1>1. a \in Seq(Pairs) /\ Len(a) = j - 1 /\ \A x \in 1 .. j - 1 : a[x] = KeptPair(ps[x])
  BY <1>0, KeptPairsIs
<1>2. b \in Seq(Pairs) /\ Len(b) = j /\ \A x \in 1 .. j : b[x] = KeptPair(ps[x])
  BY <1>0, KeptPairsIs
<1>3. e \in Pairs
  BY <1>0, KeptPairsIs
<1>4. KeptPairs(ps, 0) = <<>>
  BY <1>0, KeptPairsIs, EmptySeq
<1> HIDE DEF a, b
<1>5. /\ Append(a, e) \in Seq(Pairs) /\ Len(Append(a, e)) = j
      /\ \A x \in 1 .. j - 1 : Append(a, e)[x] = a[x]
      /\ Append(a, e)[j] = e
  BY <1>0, <1>1, <1>3, AppendProperties
<1>6. \A x \in 1 .. j : b[x] = Append(a, e)[x]
  BY <1>0, <1>1, <1>2, <1>5
<1>7. b = Append(a, e)
  <2>1. b \in Seq(Pairs) /\ Append(a, e) \in Seq(Pairs) /\ Len(b) = Len(Append(a, e))
    BY <1>2, <1>5
  <2>2. \A x \in 1 .. Len(b) : b[x] = Append(a, e)[x]
    BY <1>2, <1>6
  <2> HIDE DEF e
  <2> QED BY <2>1, <2>2, SeqEqual
<1> QED BY <1>4, <1>7 DEF a, b

LEMMA KeptIs ==
  ASSUME NEW n \in Nodes, NEW j \in 0 .. Len(n.pairs)
  PROVE  /\ Kept(n, j) \in Nodes /\ Kept(n, j).note = n.note
         /\ Kept(n, j).name = IF n.note THEN Str(n.name.text, "nl") ELSE n.name
         /\ ~n.note => Kept(n, j).pairs = KeptPairs(n.pairs, j)
<1>1. n.pairs \in Seq(Pairs) /\ n.name \in Strings /\ n.note \in BOOLEAN
  BY DEF Nodes
<1>2. KeptPairs(n.pairs, j) \in Seq(Pairs)
  BY <1>1, KeptPairsIs
<1>3. CASE n.note
  BY <1>1, <1>3 DEF Kept, Node, Nodes, Str, Strings
<1>4. CASE ~n.note
  BY <1>1, <1>2, <1>4 DEF Kept, Nodes
<1> QED BY <1>3, <1>4

LEMMA BackIs ==
  ASSUME NEW ns \in Seq(Nodes), NEW i \in 0 .. Len(ns)
  PROVE  /\ Back(ns, i) \in Seq(Nodes) /\ Len(Back(ns, i)) = i /\ DOMAIN Back(ns, i) = 1 .. i
         /\ \A x \in 1 .. i : Back(ns, i)[x] = Kept(ns[x], Len(ns[x].pairs))
<1>1. ASSUME NEW x \in 1 .. i PROVE Kept(ns[x], Len(ns[x].pairs)) \in Nodes
  <2>1. x \in 1 .. Len(ns)
    OBVIOUS
  <2>2. ns[x] \in Nodes /\ ns[x].pairs \in Seq(Pairs)
    BY <2>1, PairsOf
  <2>3. Len(ns[x].pairs) \in 0 .. Len(ns[x].pairs)
    BY <2>2
  <2> QED BY <2>2, <2>3, KeptIs
<1>2. i \in Nat
  OBVIOUS
<1> QED BY <1>1, <1>2 DEF Back

LEMMA PartialIs ==
  ASSUME NEW ns \in Seq(Nodes), NEW i \in 1 .. Len(ns), NEW j \in 0 .. Len(ns[i].pairs)
  PROVE  /\ Partial(ns, i, j) \in Seq(Nodes) /\ Len(Partial(ns, i, j)) = i /\ Partial(ns, i, j) # <<>>
         /\ Partial(ns, i, j)[i] = Kept(ns[i], j) /\ Last(Partial(ns, i, j)) = Kept(ns[i], j)
         /\ \A x \in 1 .. i - 1 : Partial(ns, i, j)[x] = Back(ns, i - 1)[x]
<1> DEFINE a == Back(ns, i - 1)
           e == Kept(ns[i], j)
<1>1. i - 1 \in 0 .. Len(ns) /\ i \in Nat
  OBVIOUS
<1>2. a \in Seq(Nodes) /\ Len(a) = i - 1
  BY <1>1, BackIs
<1>3. ns[i] \in Nodes
  BY PairsOf
<1>4. e \in Nodes
  BY <1>3, KeptIs
<1> HIDE DEF a, e
<1>5. /\ Append(a, e) \in Seq(Nodes) /\ Len(Append(a, e)) = i /\ Append(a, e) # <<>>
      /\ \A x \in 1 .. i - 1 : Append(a, e)[x] = a[x]
      /\ Append(a, e)[i] = e
  BY <1>1, <1>2, <1>4, AppendProperties
<1>6. Last(Append(a, e)) = e
  BY <1>5 DEF Last
<1> QED BY <1>5, <1>6 DEF Partial, a, e

LEMMA PartialFull ==
  ASSUME NEW ns \in Seq(Nodes), NEW i \in 1 .. Len(ns)
  PROVE  Partial(ns, i, Len(ns[i].pairs)) = Back(ns, i)
<1> DEFINE j == Len(ns[i].pairs)
           a == Partial(ns, i, j)
           b == Back(ns, i)
           c == Back(ns, i - 1)
<1>0. ns[i].pairs \in Seq(Pairs)
  BY PairsOf
<1>1. j \in 0 .. j /\ i \in 0 .. Len(ns) /\ i - 1 \in 0 .. Len(ns) /\ i \in Nat
  BY <1>0
<1>2. a \in Seq(Nodes) /\ Len(a) = i /\ a[i] = Kept(ns[i], j) /\ \A x \in 1 .. i - 1 : a[x] = c[x]
  BY <1>1, PartialIs
<1>3. b \in Seq(Nodes) /\ Len(b) = i /\ \A x \in 1 .. i : b[x] = Kept(ns[x], Len(ns[x].pairs))
  BY <1>1, BackIs
<1>4. \A x \in 1 .. i - 1 : c[x] = Kept(ns[x], Len(ns[x].pairs))
  BY <1>1, BackIs
<1> HIDE DEF a, b, c
<1>5. \A x \in 1 .. i : x = i \/ x \in 1 .. i - 1
  BY <1>1
<1>6. \A x \in 1 .. i : a[x] = b[x]
  BY <1>2, <1>3, <1>4, <1>5
<1>7. a = b
  BY <1>2, <1>3, <1>6, SeqEqual
<1> QED BY <1>7 DEF a, b

(* A name that is found nowhere in the list is found nowhere in what is    *)
(* read of it: a note with its newline answers to none.                    *)
LEMMA NotAnswered ==
  ASSUME NEW stored, NEW name, name.tail \in {"none", "blank", "blanks"}, ~Answers(stored, name)
  PROVE  ~Answers(Str(stored.text, "nl"), name)
  BY DEF Answers, Str

(* A line that fits is not refused for its length and read in one piece.   *)
LineFits(line) ==
  /\ line.kind = "head" => ~HeaderTooLong(line.name, FALSE)
  /\ line.kind = "note" => ~NoteTooLong(line.name.text, FALSE)
  /\ ~Split(line)

LEMMA HeadStep ==
  ASSUME NEW ns \in TypedLists, NodesInv(ns), NEW i \in 1 .. Len(ns), LineFits(NodeLine(ns[i]))
  PROVE  initLineContext(Back(ns, i - 1), NodeLine(ns[i]), FALSE) = Result(0, Partial(ns, i, 0))
<1> DEFINE n == ns[i]
           B == Back(ns, i - 1)
           line == NodeLine(n)
<1>0. ns \in Seq(Nodes) /\ TypedNodes(ns) /\ i \in DOMAIN ns /\ DOMAIN ns = 1 .. Len(ns)
  BY DEF TypedLists
<1>1. n \in Nodes /\ n.pairs \in Seq(Pairs) /\ Tailed(n)
  BY <1>0, PairsOf DEF TypedNodes, NodesInv
<1>2. i - 1 \in 0 .. Len(ns) /\ i \in Nat /\ Len(n.pairs) \in Nat
  BY <1>1
<1>3. /\ B \in Seq(Nodes) /\ Len(B) = i - 1 /\ DOMAIN B = 1 .. i - 1
      /\ \A x \in 1 .. i - 1 : B[x] = Kept(ns[x], Len(ns[x].pairs))
  BY <1>0, <1>2, BackIs
<1>4. ASSUME NEW x \in 1 .. i - 1
      PROVE  /\ x \in DOMAIN ns /\ x < i
             /\ B[x].note = ns[x].note
             /\ B[x].name = IF ns[x].note THEN Str(ns[x].name.text, "nl") ELSE ns[x].name
  <2>1. x \in 1 .. Len(ns) /\ x < i
    BY <1>2
  <2>2. ns[x] \in Nodes /\ ns[x].pairs \in Seq(Pairs)
    BY <1>0, <2>1, PairsOf
  <2>3. Len(ns[x].pairs) \in 0 .. Len(ns[x].pairs)
    BY <2>2
  <2>4. LET k == Kept(ns[x], Len(ns[x].pairs)) IN
        k.note = ns[x].note /\ k.name = IF ns[x].note THEN Str(ns[x].name.text, "nl") ELSE ns[x].name
    BY <2>2, <2>3, KeptIs
  <2>5. B[x] = Kept(ns[x], Len(ns[x].pairs))
    BY <1>3
  <2> HIDE DEF B
  <2> QED BY <1>0, <2>1, <2>4, <2>5
<1>5. CASE n.note
  <2> DEFINE name == Str(n.name.text, "nl")
  <2>0. LineFits(line)
    OBVIOUS
  <2>1. line.kind = "note" /\ line.name.text = n.name.text
    BY <1>5 DEF NodeLine, NoteLine, Line, Exact, Str
  <2>2. initLineContext(B, line, FALSE) = Result(0, initLineNotes(B, line, FALSE))
    <3> HIDE DEF line, B
    <3> QED BY <2>0, <2>1 DEF initLineContext, LineFits
  <2>3. B = <<>> \/ Last(B).note
    <3>1. CASE i = 1
      BY <1>3, <3>1, EmptySeq
    <3>2. CASE i # 1
      <4>1. i - 1 \in 1 .. i - 1
        BY <1>2, <3>2
      <4>2. Last(B) = B[i - 1]
        BY <1>3 DEF Last
      <4>3. i - 1 \in DOMAIN ns /\ i - 1 < i /\ B[i - 1].note = ns[i - 1].note
        BY <1>4, <4>1
      <4>4. ns[i - 1].note
        BY <1>0, <1>5, <4>3 DEF NodesInv
      <4> QED BY <4>2, <4>3, <4>4
    <3> QED BY <3>1, <3>2
  <2>4. initLineNotes(B, line, FALSE) = Append(B, Node(TRUE, name))
    <3> HIDE DEF B, line
    <3> QED BY <2>1, <2>3 DEF initLineNotes, listIniFileNode_insert
  <2>5. Kept(n, 0) = Node(TRUE, name)
    BY <1>5 DEF Kept
  <2> QED BY <2>2, <2>4, <2>5 DEF Partial
<1>6. CASE ~n.note
  <2>1. line.kind = "head" /\ line.name = n.name /\ n.name.tail \in {"none", "blank", "blanks"}
    BY <1>1, <1>6 DEF NodeLine, Line, Tailed
  <2>2. ~HeaderTooLong(line.name, FALSE)
    BY <2>1 DEF LineFits
  <2>3. ASSUME NEW x \in DOMAIN B PROVE ~Answers(B[x].name, n.name)
    <3>1. x \in DOMAIN ns /\ x < i /\ B[x].name = IF ns[x].note THEN Str(ns[x].name.text, "nl") ELSE ns[x].name
      BY <1>3, <1>4
    <3>2. ~Answers(ns[x].name, n.name)
      BY <1>0, <1>6, <3>1 DEF NodesInv
    <3> QED BY <2>1, <3>1, <3>2, NotAnswered
  <2>4. findIniFileNode(B, n.name) = 0
    <3> HIDE DEF B, n
    <3>1. \/ findIniFileNode(B, n.name) = 0
          \/ findIniFileNode(B, n.name) \in 1 .. Len(B) /\ Answers(B[findIniFileNode(B, n.name)].name, n.name)
      BY <1>3, FindNode
    <3> QED BY <1>3, <2>3, <3>1
  <2>5. initLineNode(B, line, FALSE) = Result(0, Append(B, Node(FALSE, n.name)))
    <3> HIDE DEF B, n, line
    <3> QED BY <2>1, <2>2, <2>4 DEF initLineNode, listIniFileNode_insert
  <2>6. KeptPairs(n.pairs, 0) = <<>>
    <3>1. 0 \in 0 .. Len(n.pairs)
      BY <1>2
    <3>2. KeptPairs(n.pairs, 0) \in Seq(Pairs) /\ Len(KeptPairs(n.pairs, 0)) = 0
      BY <1>1, <3>1, KeptPairsIs
    <3> QED BY <3>2, EmptySeq
  <2>7. Kept(n, 0) = Node(FALSE, n.name)
    BY <1>6, <2>6 DEF Kept, Node
  <2>8. initLineContext(B, line, FALSE) = initLineNode(B, line, FALSE)
    <3> HIDE DEF B, line
    <3> QED BY <2>1 DEF initLineContext
  <2> QED BY <2>5, <2>7, <2>8 DEF Partial
<1> QED BY <1>5, <1>6

(* An entry added to the section read last.                                *)
LEMMA ExtendLast ==
  ASSUME NEW ns \in TypedLists, NEW i \in 1 .. Len(ns), ~ns[i].note, NEW j \in 1 .. Len(ns[i].pairs)
  PROVE  listkeyValueNode_insert(Partial(ns, i, j - 1), i, KeptPair(ns[i].pairs[j])) = Partial(ns, i, j)
<1> DEFINE n == ns[i]
           P == Partial(ns, i, j - 1)
           Z == Partial(ns, i, j)
           e == KeptPair(n.pairs[j])
           qs == Append(P[i].pairs, e)
           W == WithPairs(P, i, qs)
<1>0. ns \in Seq(Nodes) /\ n \in Nodes /\ n.pairs \in Seq(Pairs)
  BY PairsOf DEF TypedLists
<1>1. j - 1 \in 0 .. Len(n.pairs) /\ j \in 0 .. Len(n.pairs) /\ j \in 1 .. j /\ i \in Nat
  BY <1>0
<1>2. P \in Seq(Nodes) /\ Len(P) = i /\ P[i] = Kept(n, j - 1) /\ \A x \in 1 .. i - 1 : P[x] = Back(ns, i - 1)[x]
  BY <1>0, <1>1, PartialIs
<1>3. Z \in Seq(Nodes) /\ Len(Z) = i /\ Z[i] = Kept(n, j) /\ \A x \in 1 .. i - 1 : Z[x] = Back(ns, i - 1)[x]
  BY <1>0, <1>1, PartialIs
<1>4. e \in Pairs
  BY <1>0, <1>1, KeptPairsIs
<1>5. P[i].pairs = KeptPairs(n.pairs, j - 1) /\ P[i].note = FALSE /\ P[i].name = n.name
  BY <1>2 DEF Kept
<1>6. KeptPairs(n.pairs, j) = qs
  BY <1>0, <1>5, KeptPairsStep
<1>7. qs \in Seq(Pairs)
  <2>1. KeptPairs(n.pairs, j) \in Seq(Pairs)
    BY <1>0, <1>1, KeptPairsIs
  <2> QED BY <1>6, <2>1
<1>8. listkeyValueNode_insert(P, i, e) = W
  BY <1>4, <1>2, <1>1, InsertPair
<1> HIDE DEF P, Z, e, qs
<1>9. i \in 1 .. Len(P)
  BY <1>1, <1>2
<1>10. /\ W \in Seq(Nodes) /\ Len(W) = i /\ \A x \in 1 .. i : x # i => W[x] = P[x]
       /\ W[i].pairs = qs /\ W[i].name = n.name /\ W[i].note = FALSE
  BY <1>2, <1>5, <1>7, <1>9, WithPairsIs
<1> HIDE DEF W
<1>11. W[i] \in Nodes
  BY <1>2, <1>9, <1>10, ElementOfSeq
<1>12. W[i] = [note |-> FALSE, name |-> n.name, pairs |-> qs]
  BY <1>10, <1>11 DEF Nodes
<1>13. W[i] = Z[i]
  BY <1>3, <1>6, <1>12 DEF Kept
<1>14. \A x \in 1 .. i : x = i \/ x \in 1 .. i - 1
  BY <1>1
<1>15. \A x \in 1 .. i : W[x] = Z[x]
  BY <1>2, <1>3, <1>10, <1>13, <1>14
<1>16. W = Z
  BY <1>3, <1>10, <1>15, SeqEqual
<1> QED BY <1>8, <1>16 DEF P, Z, e

LEMMA PairStep ==
  ASSUME NEW ns \in TypedLists, NodesInv(ns), NEW i \in 1 .. Len(ns), NEW j \in 1 .. Len(ns[i].pairs),
         LineFits(PairLine(ns[i].pairs[j]))
  PROVE  initLineContext(Partial(ns, i, j - 1), PairLine(ns[i].pairs[j]), FALSE) = Result(0, Partial(ns, i, j))
<1> DEFINE n == ns[i]
           ps == n.pairs
           p == ps[j]
           P == Partial(ns, i, j - 1)
           line == PairLine(p)
<1>0. ns \in Seq(Nodes) /\ TypedNodes(ns) /\ i \in DOMAIN ns
  BY DEF TypedLists
<1>1. n \in Nodes /\ ps \in Seq(Pairs) /\ TypedPairs(ps) /\ PairsInv(ps) /\ (n.note => Noteless(ps))
  BY <1>0, PairsOf DEF TypedNodes, NodesInv
<1>2. j - 1 \in 0 .. Len(ps) /\ j \in DOMAIN ps /\ DOMAIN ps = 1 .. Len(ps)
  BY <1>1
<1>3. /\ P \in Seq(Nodes) /\ Len(P) = i /\ P # <<>> /\ Last(P) = Kept(n, j - 1)
      /\ Kept(n, j - 1).note = n.note /\ Kept(n, j - 1) \in Nodes
  BY <1>0, <1>1, <1>2, PartialIs, KeptIs
<1>4. CASE n.note
  <2>1. line.kind = "pair"
    BY <1>1, <1>2, <1>4 DEF PairLine, Line, Noteless
  <2>2. P = Partial(ns, i, j)
    BY <1>4 DEF Partial, Kept
  <2>3. initLineContext(P, line, FALSE) = Result(0, P)
    <3> HIDE DEF P, line
    <3> QED BY <1>3, <1>4, <2>1 DEF initLineContext, initLineKeyValue
  <2> QED BY <2>2, <2>3
<1>5. CASE ~n.note /\ p.note
  <2>0. LineFits(line)
    OBVIOUS
  <2>1. line.kind = "note" /\ line.name.text = p.name.text
    BY <1>5 DEF PairLine, NoteLine, Line, Exact, Str
  <2>2. initLineContext(P, line, FALSE) = Result(0, initLineNotes(P, line, FALSE))
    <3> HIDE DEF line, P, p
    <3> QED BY <2>0, <2>1 DEF initLineContext, LineFits
  <2>3. KeptPair(p) = Note(Str(p.name.text, "nl"))
    BY <1>5 DEF KeptPair
  <2>4. initLineNotes(P, line, FALSE) = listkeyValueNode_insert(P, i, KeptPair(p))
    <3> HIDE DEF P, line, p
    <3> QED BY <1>3, <1>5, <2>1, <2>3 DEF initLineNotes
  <2> QED BY <1>5, <2>2, <2>4, ExtendLast
<1>6. CASE ~n.note /\ ~p.note
  <2>1. line.kind = "pair" /\ line.name = p.name /\ line.value = p.value
    BY <1>6 DEF PairLine, Line
  <2>2. p.name.tail \in {"none", "blank", "blanks"}
    BY <1>1, <1>2, <1>6 DEF TypedPairs, Tailed
  <2> DEFINE K == Kept(n, j - 1)
  <2>3. /\ K.pairs = KeptPairs(ps, j - 1) /\ DOMAIN K.pairs = 1 .. j - 1
        /\ \A x \in 1 .. j - 1 : K.pairs[x] = KeptPair(ps[x])
    BY <1>1, <1>2, <1>6, KeptPairsIs DEF Kept
  <2>4. ASSUME NEW x \in DOMAIN K.pairs PROVE ~Answers(K.pairs[x].name, p.name)
    <3>0. x \in 1 .. j - 1
      BY <2>3
    <3>4. x \in DOMAIN ps /\ x < j
      BY <1>2, <3>0
    <3>5. K.pairs[x] = KeptPair(ps[x])
      <4> HIDE DEF K
      <4> QED BY <2>3, <3>0
    <3>1. x \in DOMAIN ps /\ x < j /\ K.pairs[x] = KeptPair(ps[x])
      BY <3>4, <3>5
    <3>2. ~Answers(ps[x].name, p.name)
      BY <1>1, <1>2, <1>6, <3>1 DEF PairsInv
    <3>3. KeptPair(ps[x]).name = IF ps[x].note THEN Str(ps[x].name.text, "nl") ELSE ps[x].name
      BY DEF KeptPair, Note, Pair
    <3> QED BY <2>2, <3>1, <3>2, <3>3, NotAnswered
  <2>5. findIniKeyValue(K, p.name) = 0
    <3> HIDE DEF K, p
    <3>1. K \in Nodes
      BY <1>3 DEF K
    <3>2. \/ findIniKeyValue(K, p.name) = 0
          \/ findIniKeyValue(K, p.name) \in 1 .. Len(K.pairs) /\ Answers(K.pairs[findIniKeyValue(K, p.name)].name, p.name)
      BY <3>1, FindPair
    <3>3. DOMAIN K.pairs = 1 .. Len(K.pairs)
      BY <3>1 DEF Nodes
    <3> QED BY <2>4, <3>2, <3>3
  <2>6. KeptPair(p) = Pair(p.name, p.value, FALSE)
    BY <1>6 DEF KeptPair
  <2>7. initLineKeyValue(P, line, FALSE) = Result(0, listkeyValueNode_insert(P, i, KeptPair(p)))
    <3> HIDE DEF P, line, p
    <3> QED BY <1>3, <1>6, <2>1, <2>5, <2>6 DEF initLineKeyValue
  <2>8. initLineContext(P, line, FALSE) = initLineKeyValue(P, line, FALSE)
    <3> HIDE DEF P, line
    <3> QED BY <2>1 DEF initLineContext
  <2> QED BY <1>6, <2>7, <2>8, ExtendLast
<1> QED BY <1>4, <1>5, <1>6

LEMMA WholeReading ==
  ASSUME NEW lines \in Seq(Lines)
  PROVE  LET R == Reading(Whole(lines)) IN
         /\ Whole(lines) \in Files /\ Len(lines) \in Nat /\ readIniFile(Whole(lines)) = R[Len(lines)]
         /\ R[0] = Result(0, <<>>)
         /\ \A i \in 1 .. Len(lines) : R[i] = ReadLine(R[i - 1], lines[i], FALSE)
         /\ \A i \in 0 .. Len(lines) : R[i] \in Readings
<1> DEFINE file == Whole(lines)
<1>1. file \in Files /\ file.lines = lines /\ file.bare = FALSE
  BY DEF Whole, Files
<1>2. readIniFile(file) = Reading(file)[Len(lines)]
  BY <1>1 DEF readIniFile
<1> HIDE DEF file
<1>3. /\ Len(file.lines) \in Nat /\ Reading(file)[0] = Result(0, <<>>)
      /\ \A i \in 1 .. Len(file.lines) :
            Reading(file)[i] = ReadLine(Reading(file)[i - 1], file.lines[i], file.bare /\ i = Len(file.lines))
      /\ \A i \in 0 .. Len(file.lines) : Reading(file)[i] \in Readings
  BY <1>1, ReadingIs, Zenon
<1>4. \A i \in 1 .. Len(lines) : (file.bare /\ i = Len(file.lines)) = FALSE
  BY <1>1
<1>5. \A i \in 1 .. Len(lines) : Reading(file)[i] = ReadLine(Reading(file)[i - 1], lines[i], FALSE)
  BY <1>1, <1>3, <1>4
<1> QED BY <1>1, <1>2, <1>3, <1>5 DEF file

(* The beginning of a file is read as it is read in the file.              *)
LEMMA SamePrefix ==
  ASSUME NEW lines \in Seq(Lines), NEW m \in 0 .. Len(lines)
  PROVE  readIniFile(Whole(SubSeq(lines, 1, m))) = Reading(Whole(lines))[m]
<1> DEFINE part == SubSeq(lines, 1, m)
           R == Reading(Whole(lines))
           Q == Reading(Whole(part))
           T == {x \in 0 .. m : Q[x] = R[x]}
<1>0. m \in Nat /\ Len(lines) \in Nat /\ m <= Len(lines)
  OBVIOUS
<1>1. part \in Seq(Lines) /\ Len(part) = m /\ \A x \in 1 .. m : part[x] = lines[x]
  BY <1>0, SubSeqProperties
<1>2. R[0] = Result(0, <<>>) /\ \A i \in 1 .. Len(lines) : R[i] = ReadLine(R[i - 1], lines[i], FALSE)
  BY WholeReading
<1> HIDE DEF part
<1>3. /\ Q[0] = Result(0, <<>>) /\ \A i \in 1 .. m : Q[i] = ReadLine(Q[i - 1], part[i], FALSE)
      /\ readIniFile(Whole(part)) = Q[m]
  BY <1>1, WholeReading
<1> HIDE DEF R, Q
<1>4. 0 \in T
  BY <1>0, <1>2, <1>3
<1>5. ASSUME NEW x \in 0 .. m, x < m, x \in T PROVE x + 1 \in T
  <2>1. x + 1 \in 1 .. m /\ x + 1 \in 1 .. Len(lines) /\ (x + 1) - 1 = x /\ x + 1 \in 0 .. m
    BY <1>0, <1>5
  <2>2. Q[x + 1] = ReadLine(Q[x], part[x + 1], FALSE)
    BY <1>3, <2>1
  <2>3. R[x + 1] = ReadLine(R[x], lines[x + 1], FALSE)
    BY <1>2, <2>1
  <2>4. Q[x] = R[x] /\ part[x + 1] = lines[x + 1]
    BY <1>1, <1>5, <2>1
  <2> QED BY <2>1, <2>2, <2>3, <2>4
<1> HIDE DEF T
<1>6. \A x \in 0 .. m : x \in T
  BY <1>0, <1>4, <1>5, Induct
<1>7. Q[m] = R[m]
  BY <1>0, <1>6 DEF T
<1> QED BY <1>3, <1>7 DEF R, Q, part

(* The round trip: what updateIniFile writes is read as far as its lines   *)
(* fit, and every node and every entry comes back in its place.            *)
LEMMA ReadsTo ==
  ASSUME NEW ns \in TypedLists, NodesInv(ns), NEW m \in 0 .. Len(Image(ns)),
         \A x \in 1 .. m : LineFits(Image(ns)[x])
  PROVE  /\ \A x \in 0 .. m : Reading(Whole(Image(ns)))[x].ret = 0
         /\ m = Len(Image(ns)) => readIniFile(Whole(Image(ns))) = Result(0, Back(ns, Len(ns)))
<1> DEFINE I == Image(ns)
           R == Reading(Whole(I))
           n == Len(ns)
<1>0. ns \in Seq(Nodes) /\ n \in Nat
  BY DEF TypedLists
<1>1. I \in Seq(Lines) /\ Len(I) \in Nat
  BY ImageTyped
<1>2. PICK f : Builds(f, ns)
  BY ImageIs
<1>m. m \in 0 .. Len(I) /\ \A x \in 1 .. m : LineFits(I[x])
  OBVIOUS
<1> HIDE DEF I
<1>3. /\ readIniFile(Whole(I)) = R[Len(I)] /\ R[0] = Result(0, <<>>)
      /\ \A i \in 1 .. Len(I) : R[i] = ReadLine(R[i - 1], I[i], FALSE)
  BY <1>1, WholeReading
<1>4. f[0] = <<>> /\ I = f[n]
  BY <1>2 DEF Builds, I
<1> HIDE DEF R, n
<1> DEFINE Good(i) == /\ Len(f[i]) <= m => R[Len(f[i])] = Result(0, Back(ns, i))
                      /\ \A x \in 1 .. Len(f[i]) : x <= m => R[x].ret = 0
           T == {i \in 0 .. n : Good(i)}
<1>r. \A ms : Result(0, ms).ret = 0
  BY DEF Result
<1>g. ASSUME NEW x \in 1 .. m, NEW ms, R[x - 1] = Result(0, ms)
      PROVE  R[x] = initLineContext(ms, I[x], FALSE)
  <2>3. ~Split(I[x])
    BY <1>m, Zenon DEF LineFits
  <2>0. x \in 1 .. Len(I) /\ ~Split(I[x])
    BY <1>1, <1>m, <2>3
  <2>1. R[x] = ReadLine(Result(0, ms), I[x], FALSE)
    BY <1>3, <1>g, <2>0
  <2>2. Result(0, ms).ret = 0 /\ Result(0, ms).nodes = ms /\ ~(0 < 0)
    BY DEF Result
  <2> QED BY <2>0, <2>1, <2>2 DEF ReadLine, Continue
<1>5. 0 \in T
  <2>1. Back(ns, 0) \in Seq(Nodes) /\ Len(Back(ns, 0)) = 0
    BY <1>0, BackIs DEF n
  <2>2. Back(ns, 0) = <<>>
    BY <2>1, EmptySeq
  <2>3. Len(f[0]) = 0
    BY <1>4
  <2> QED BY <1>0, <1>3, <2>2, <2>3
<1>6. ASSUME NEW i0 \in 0 .. n, i0 < n, i0 \in T PROVE i0 + 1 \in T
  <2> DEFINE i == i0 + 1
             k == Len(f[i0])
             J == Len(ns[i].pairs)
             Read(j) == k + 1 + j <= m => R[k + 1 + j] = Result(0, Partial(ns, i, j))
             U == {j \in 0 .. J : Read(j)}
  <2>1. i \in 1 .. Len(ns) /\ i - 1 = i0 /\ i \in 0 .. n
    BY <1>0, <1>6 DEF n
  <2>2. /\ k \in Nat /\ Len(f[i]) = k + 1 + J /\ Len(f[i]) <= Len(I)
        /\ I[k + 1] = NodeLine(ns[i])
        /\ \A j \in 1 .. J : I[k + 1 + j] = PairLine(ns[i].pairs[j])
    <3>1. LET kk == Len(f[i - 1]) IN
          /\ kk \in Nat /\ Len(f[i]) = kk + 1 + J /\ Len(f[i]) <= Len(I)
          /\ I[kk + 1] = NodeLine(ns[i])
          /\ \A j \in 1 .. J : I[kk + 1 + j] = PairLine(ns[i].pairs[j])
      <4> HIDE DEF i
      <4> QED BY <1>2, <2>1, ImageAt DEF I
    <3>2. f[i - 1] = f[i0]
      BY <2>1
    <3> QED BY <3>1, <3>2
  <2>3. J \in Nat
    <3>1. ns[i].pairs \in Seq(Pairs)
      BY <1>0, <2>1, PairsOf
    <3> QED BY <3>1
  <2>4. /\ k <= m => R[k] = Result(0, Back(ns, i - 1))
        /\ \A x \in 1 .. k : x <= m => R[x].ret = 0
    BY <1>6, <2>1
  <2>5. LineFits(NodeLine(ns[i])) =>
          initLineContext(Back(ns, i - 1), NodeLine(ns[i]), FALSE) = Result(0, Partial(ns, i, 0))
    BY <2>1, HeadStep
  <2>6. \A j \in 1 .. J : LineFits(PairLine(ns[i].pairs[j])) =>
          initLineContext(Partial(ns, i, j - 1), PairLine(ns[i].pairs[j]), FALSE) = Result(0, Partial(ns, i, j))
    BY <2>1, PairStep
  <2>7. Partial(ns, i, J) = Back(ns, i)
    BY <1>0, <2>1, PartialFull
  <2> HIDE DEF i, k, J
  <2>a. k \in Nat /\ k + 1 + J <= Len(I)
    BY <2>2
  <2>8. 0 \in U
    <3> SUFFICES ASSUME k + 1 <= m PROVE R[k + 1] = Result(0, Partial(ns, i, 0))
      BY <2>a, <2>3
    <3>1. k + 1 \in 1 .. m /\ (k + 1) - 1 = k /\ k <= m
      BY <1>m, <2>a
    <3>2. R[k + 1] = initLineContext(Back(ns, i - 1), I[k + 1], FALSE)
      BY <1>g, <2>4, <3>1
    <3>3. LineFits(NodeLine(ns[i]))
      BY <1>m, <2>2, <3>1
    <3> QED BY <2>2, <2>5, <3>2, <3>3
  <2>9. ASSUME NEW j0 \in 0 .. J, j0 < J, j0 \in U PROVE j0 + 1 \in U
    <3> DEFINE j == j0 + 1
               x == k + 1 + j
    <3> SUFFICES ASSUME x <= m PROVE R[x] = Result(0, Partial(ns, i, j))
      BY <2>3, <2>9
    <3>1. /\ j \in 1 .. J /\ j - 1 = j0 /\ x \in 1 .. m /\ x - 1 = k + 1 + j0 /\ x - 1 <= m
      BY <1>m, <2>a, <2>3, <2>9
    <3>2. R[x - 1] = Result(0, Partial(ns, i, j - 1))
      BY <2>9, <3>1
    <3>3. I[x] = PairLine(ns[i].pairs[j])
      BY <2>2, <3>1
    <3>5. initLineContext(Partial(ns, i, j - 1), PairLine(ns[i].pairs[j]), FALSE) = Result(0, Partial(ns, i, j))
      BY <1>m, <2>6, <3>1, <3>3
    <3> HIDE DEF x
    <3>4. R[x] = initLineContext(Partial(ns, i, j - 1), I[x], FALSE)
      BY <1>g, <3>1, <3>2
    <3> QED BY <3>3, <3>4, <3>5
  <2> HIDE DEF U
  <2>10. \A j \in 0 .. J : j \in U
    BY <2>3, <2>8, <2>9, Induct
  <2>11. \A j \in 0 .. J : Read(j)
    BY <2>10 DEF U
  <2>12. Len(f[i]) <= m => R[Len(f[i])] = Result(0, Back(ns, i))
    BY <2>2, <2>3, <2>7, <2>11
  <2>13. ASSUME NEW x \in 1 .. Len(f[i]), x <= m PROVE R[x].ret = 0
    <3>1. CASE x <= k
      BY <2>a, <2>4, <2>13, <3>1
    <3>2. CASE ~(x <= k)
      <4>1. x - k - 1 \in 0 .. J /\ k + 1 + (x - k - 1) = x
        BY <2>2, <2>3, <2>a, <3>2
      <4>2. R[x] = Result(0, Partial(ns, i, x - k - 1))
        BY <2>11, <2>13, <4>1
      <4> QED BY <1>r, <4>2
    <3> QED BY <3>1, <3>2
  <2>14. Good(i)
    BY <2>12, <2>13
  <2> QED BY <2>1, <2>14 DEF i
<1> HIDE DEF T
<1>7. \A i \in 0 .. n : i \in T
  BY <1>0, <1>5, <1>6, Induct
<1>8. Good(n)
  BY <1>0, <1>7 DEF T
<1>9. ASSUME NEW x \in 0 .. m PROVE R[x].ret = 0
  <2>1. CASE x = 0
    BY <1>3, <1>r, <2>1
  <2>2. CASE x # 0
    <3>1. x \in 1 .. Len(f[n]) /\ x <= m
      BY <1>1, <1>4, <1>m, <2>2
    <3> QED BY <1>8, <3>1
  <2> QED BY <2>1, <2>2
<1>10. m = Len(I) => readIniFile(Whole(I)) = Result(0, Back(ns, n))
  BY <1>1, <1>3, <1>4, <1>8
<1> QED BY <1>9, <1>10 DEF I, R, n

LEMMA ReadsBack ==
  ASSUME NEW ns \in TypedLists, NodesInv(ns), Fits(Image(ns))
  PROVE  readIniFile(Whole(Image(ns))) = Result(0, Back(ns, Len(ns)))
<1>1. Image(ns) \in Seq(Lines) /\ Len(Image(ns)) \in 0 .. Len(Image(ns))
  BY ImageTyped
<1>3. DOMAIN Image(ns) = 1 .. Len(Image(ns))
  BY <1>1
<1>2. \A x \in 1 .. Len(Image(ns)) : LineFits(Image(ns)[x])
  BY <1>3, Zenon DEF Fits, LineFits
<1> QED BY <1>1, <1>2, ReadsTo


LEMMA PrefixOpens ==
  ASSUME NEW ns \in TypedLists, NodesInv(ns), NEW m \in 0 .. Len(Image(ns)),
         Fits(SubSeq(Image(ns), 1, m))
  PROVE  readIniFile(Whole(SubSeq(Image(ns), 1, m))).ret = 0
<1>1. Image(ns) \in Seq(Lines)
  BY ImageTyped
<1> DEFINE I == Image(ns)
           a == SubSeq(I, 1, m)
<1>2. \A x \in 1 .. m : LineFits(I[x])
  <2>1. a \in Seq(Lines) /\ Len(a) = m /\ \A x \in 1 .. m : a[x] = I[x]
    BY <1>1, SubSeqProperties
  <2>2. Fits(a)
    OBVIOUS
  <2> HIDE DEF a, I
  <2>3. DOMAIN a = 1 .. m
    BY <2>1
  <2>4. \A x \in 1 .. m : LineFits(a[x])
    BY <2>2, <2>3, Zenon DEF Fits, LineFits
  <2> QED BY <2>1, <2>4, Zenon
<1>3. Reading(Whole(Image(ns)))[m].ret = 0
  BY <1>2, ReadsTo
<1> QED BY <1>1, <1>3, SamePrefix

-----------------------------------------------------------------------------
(* Wherever an update stops, the file opens                                *)

LEMMA FrontOfAppend ==
  ASSUME NEW s \in Seq(Lines), NEW e \in Lines
  PROVE  Front(Append(s, e)) = s
<1> DEFINE t == Append(s, e)
           u == SubSeq(t, 1, Len(s))
<1>1. t \in Seq(Lines) /\ Len(t) = Len(s) + 1 /\ Len(s) \in Nat /\ \A i \in 1 .. Len(s) : t[i] = s[i]
  BY AppendProperties
<1> HIDE DEF t
<1>2. \A i \in 1 .. Len(s) : t[i] \in Lines
  BY <1>1, ElementOfSeq
<1>3. u \in Seq(Lines) /\ Len(u) = Len(s) /\ \A i \in 1 .. Len(s) : u[i] = t[i]
  BY <1>1, <1>2, SubSeqProperties
<1> HIDE DEF u
<1>4. u = s
  BY <1>1, <1>3, SeqEqual
<1>5. Len(t) - 1 = Len(s)
  BY <1>1
<1>6. Front(t) = u
  BY <1>5 DEF Front, u
<1> QED BY <1>4, <1>6 DEF t

LEMMA PrefixStep ==
  ASSUME NEW I \in Seq(Lines), NEW m \in 0 .. Len(I), m < Len(I)
  PROVE  /\ Append(SubSeq(I, 1, m), I[m + 1]) = SubSeq(I, 1, m + 1)
         /\ SubSeq(I, 1, m) \in Seq(Lines) /\ I[m + 1] \in Lines /\ m + 1 \in 0 .. Len(I)
<1> DEFINE a == SubSeq(I, 1, m)
           b == SubSeq(I, 1, m + 1)
           e == I[m + 1]
<1>0. m \in Nat /\ Len(I) \in Nat /\ m + 1 \in 1 .. Len(I) /\ m + 1 \in 0 .. Len(I)
  OBVIOUS
<1>e. \A i \in 1 .. Len(I) : I[i] \in Lines
  BY ElementOfSeq
<1>1. a \in Seq(Lines) /\ Len(a) = m /\ \A i \in 1 .. m : a[i] = I[i]
  BY <1>0, <1>e, SubSeqProperties
<1>2. b \in Seq(Lines) /\ Len(b) = m + 1 /\ \A i \in 1 .. m + 1 : b[i] = I[i]
  BY <1>0, <1>e, SubSeqProperties
<1> HIDE DEF a, b
<1>3. /\ Append(a, e) \in Seq(Lines) /\ Len(Append(a, e)) = m + 1
      /\ \A i \in 1 .. m : Append(a, e)[i] = a[i]
      /\ Append(a, e)[m + 1] = e
  BY <1>0, <1>1, <1>e, AppendProperties
<1>4. \A i \in 1 .. m + 1 : i \in 1 .. m \/ i = m + 1
  BY <1>0
<1>5. \A i \in 1 .. m + 1 : Append(a, e)[i] = b[i]
  BY <1>0, <1>1, <1>2, <1>3, <1>4
<1>6. Append(a, e) = b
  BY <1>2, <1>3, <1>5, SeqEqual
<1> QED BY <1>0, <1>1, <1>6, <1>e DEF a, b

LEMMA FileInit == Init => FileInv
  BY DEF Init, FileInv, NodesInv, DiskInv, Opens

(* What an unfinished write leaves opens up to the last complete line.     *)
LEMMA TornOpens ==
  ASSUME TypeInv, FileInv, pc = "write", out < Len(Image(nodes)), Torn
  PROVE  Opens(disk')
<1> DEFINE I == Image(nodes)
           a == SubSeq(I, 1, out)
<1>1. nodes \in TypedLists
  BY DEF TypeInv, TypeOK, TypedLists
<1>2. I \in Seq(Lines) /\ Len(I) \in Nat /\ out \in 0 .. Len(I)
  BY <1>1, ImageTyped DEF TypeInv, TypeOK
<1>3. Fits(a) => readIniFile(Whole(a)).ret = 0
  BY <1>1, <1>2, PrefixOpens DEF FileInv
<1>4. disk = Whole(a)
  BY DEF FileInv, DiskInv
<1>5. a \in Seq(Lines) /\ I[out + 1] \in Lines
  BY <1>2, PrefixStep
<1>6. disk' = disk \/ \E line \in Lines : disk' = [lines |-> Append(a, line), bare |-> TRUE]
  BY <1>4, <1>5, FragmentsAreLines DEF Torn, Whole
<1>7. ASSUME NEW line \in Lines PROVE Front(Append(a, line)) = a
  BY <1>5, FrontOfAppend
<1> HIDE DEF a
<1>8. ASSUME NEW line \in Lines PROVE Complete([lines |-> Append(a, line), bare |-> TRUE]) = Whole(a)
  BY <1>7 DEF Complete
<1>9. Complete(disk) = Whole(a)
  BY <1>4 DEF Complete, Whole
<1>10. Complete(disk') = Whole(a) /\ Whole(a).lines = a
  BY <1>6, <1>8, <1>9 DEF Whole
<1> QED BY <1>3, <1>10 DEF Opens

LEMMA FileNext ==
  TypeInv /\ FileInv /\ [Next]_vars => FileInv'
<1> SUFFICES ASSUME TypeInv, FileInv, [Next]_vars PROVE FileInv'
  OBVIOUS
<1>0. nodes \in TypedLists /\ nodes \in Seq(Nodes) /\ NodesInv(nodes)
  BY DEF TypeInv, TypeOK, TypedLists, FileInv
<1>i. Image(nodes) \in Seq(Lines) /\ Len(Image(nodes)) \in Nat
  BY <1>0, ImageTyped
<1>z. NodesInv(<<>>)
  BY DEF NodesInv
<1>d. Opens(disk)
  BY DEF FileInv, DiskInv
<1> USE DEF FileInv, DiskInv
<1>1. CASE initIniFile
  <2>1. NodesInv(readIniFile(disk).nodes)
    BY ReadFileIs DEF TypeInv, TypeOK
  <2> QED BY <1>0, <1>1, <1>d, <2>1 DEF initIniFile
<1>2. CASE Call
  <2>1. Called /\ (Refused \/ Done \/ Dangles)
    BY <1>0, <1>2, CallIs
  <2>2. disk' = disk /\ pc' # "write"
    BY <2>1 DEF Called, Refused, Done, Dangles, Written
  <2>3. NodesInv(nodes')
    BY <1>0, <2>1, ChangedKeeps, FreedKeeps DEF Refused, Done, Dangles
  <2> QED BY <1>d, <2>2, <2>3
<1>3. CASE Truncate
  <2>1. out = 0 /\ out' = 0 /\ nodes' = nodes /\ disk' = Whole(<<>>)
    BY <1>3 DEF Truncate, Whole, TypeInv, TypeOK
  <2>2. SubSeq(Image(nodes), 1, 0) = <<>>
    BY SubSeqEmpty
  <2>3. 0 \in 0 .. Len(Image(nodes))
    BY <1>i
  <2>4. Fits(<<>>) => readIniFile(Whole(<<>>)).ret = 0
    BY <1>0, <2>2, <2>3, PrefixOpens
  <2>5. Complete(Whole(<<>>)) = Whole(<<>>) /\ Whole(<<>>).lines = <<>>
    BY DEF Complete, Whole
  <2>6. Opens(disk')
    BY <2>1, <2>4, <2>5 DEF Opens
  <2> QED BY <1>0, <2>1, <2>2, <2>6
<1>4. CASE WriteLine
  <2> DEFINE I == Image(nodes)
  <2>1. out \in 0 .. Len(I) /\ out < Len(I) /\ out' = out + 1 /\ nodes' = nodes /\ disk = Whole(SubSeq(I, 1, out))
    BY <1>4 DEF WriteLine, TypeInv, TypeOK
  <2>2. Append(SubSeq(I, 1, out), I[out + 1]) = SubSeq(I, 1, out + 1) /\ out + 1 \in 0 .. Len(I)
    BY <1>i, <2>1, PrefixStep
  <2>3. disk' = Whole(Append(SubSeq(I, 1, out), I[out + 1]))
    BY <1>4, <2>1 DEF WriteLine, Whole
  <2>4. Fits(SubSeq(I, 1, out + 1)) => readIniFile(Whole(SubSeq(I, 1, out + 1))).ret = 0
    BY <1>0, <2>2, PrefixOpens
  <2> HIDE DEF I
  <2>5. disk' = Whole(SubSeq(I, 1, out + 1))
    BY <2>2, <2>3
  <2>6. Complete(disk') = disk' /\ disk'.lines = SubSeq(I, 1, out + 1)
    BY <2>5 DEF Complete, Whole
  <2>7. Opens(disk')
    BY <2>4, <2>5, <2>6 DEF Opens
  <2> QED BY <1>0, <2>1, <2>5, <2>7 DEF I
<1>5. CASE CloseFile
  BY <1>0, <1>5, <1>d DEF CloseFile
<1>6. CASE OpenFails
  BY <1>0, <1>6, <1>d DEF OpenFails
<1>7. CASE WriteFails
  <2>1. Opens(disk')
    BY <1>7, TornOpens DEF WriteFails
  <2> QED BY <1>0, <1>7, <2>1 DEF WriteFails
<1>8. CASE exitOperationIniFile
  BY <1>8, <1>z, <1>d DEF exitOperationIniFile, Closed
<1>9. CASE Crash
  <2>1. Opens(disk')
    BY <1>9, <1>d, TornOpens DEF Crash
  <2> QED BY <1>9, <1>z, <2>1 DEF Crash, Closed
<1>10. CASE UNCHANGED vars
  BY <1>0, <1>10, <1>d DEF vars
<1> QED BY <1>1, <1>2, <1>3, <1>4, <1>5, <1>6, <1>7, <1>8, <1>9, <1>10 DEF Next, updateIniFile

LEMMA FileAlways == Spec => []FileInv
  BY FileNext, FileInit, TypeAlways, PTL DEF Spec

(* Wherever updateIniFile stops, by a failed open or write or by the death *)
(* of the process, the complete lines it has left are read by readIniFile  *)
(* without a refusal: for every list the operations can build from any     *)
(* file, every length of it and every number of faults, as long as every   *)
(* line fits what the reading takes of a line (Fits).                      *)
THEOREM EveryPrefixOpens == Spec => []AnyPrefixOpens
<1>1. FileInv => AnyPrefixOpens
  BY DEF FileInv, DiskInv, Opens, AnyPrefixOpens, Complete, Whole
<1> QED BY <1>1, FileAlways, PTL

-----------------------------------------------------------------------------
(* The file and the list agree                                             *)

CarriedPairs(ps) == [j \in DOMAIN ps |-> [ps[j] EXCEPT !.nl = FALSE]]

LEMMA CarriedIs ==
  ASSUME NEW ns \in Seq(Nodes)
  PROVE  /\ DOMAIN Carried(ns) = 1 .. Len(ns) /\ Len(ns) \in Nat
         /\ Carried(ns) = [i \in 1 .. Len(ns) |-> Carried(ns)[i]]
         /\ \A i \in 1 .. Len(ns) : Carried(ns)[i] = [ns[i] EXCEPT !.pairs = CarriedPairs(ns[i].pairs)]
<1> DEFINE F(i) == [ns[i] EXCEPT !.pairs = CarriedPairs(ns[i].pairs)]
<1>1. Carried(ns) = [i \in DOMAIN ns |-> F(i)]
  BY DEF Carried, CarriedPairs
<1>2. DOMAIN ns = 1 .. Len(ns) /\ Len(ns) \in Nat
  OBVIOUS
<1> HIDE DEF F
<1>3. /\ DOMAIN Carried(ns) = 1 .. Len(ns) /\ Carried(ns) = [i \in 1 .. Len(ns) |-> Carried(ns)[i]]
      /\ \A i \in 1 .. Len(ns) : Carried(ns)[i] = F(i)
  BY <1>1, <1>2
<1> QED BY <1>2, <1>3 DEF F

LEMMA PairExcept ==
  ASSUME NEW p \in Pairs, NEW b
  PROVE  [p EXCEPT !.nl = b] = [note |-> p.note, name |-> p.name, value |-> p.value, nl |-> b]
  BY DEF Pairs

LEMMA NodeExcept ==
  ASSUME NEW n \in Nodes, NEW qs
  PROVE  [n EXCEPT !.pairs = qs] = [note |-> n.note, name |-> n.name, pairs |-> qs]
  BY DEF Nodes

LEMMA CarriedPair ==
  ASSUME NEW p \in Pairs, Tailed(p), p.note => p.name.tail = "nl",
         Sealed(p) => p.value = "" /\ ~p.nl
  PROVE  KeptPair(p) = [p EXCEPT !.nl = FALSE]
<1>1. p = [note |-> p.note, name |-> p.name, value |-> p.value, nl |-> p.nl] /\ p.note \in BOOLEAN
  BY DEF Pairs
<1>2. p.name = [text |-> p.name.text, tail |-> p.name.tail]
  BY DEF Pairs, Strings
<1>3. CASE p.note
  <2>1. p.name = Str(p.name.text, "nl") /\ p.value = "" /\ p.note = TRUE
    BY <1>1, <1>2, <1>3 DEF Str, Sealed
  <2>2. [p EXCEPT !.nl = FALSE] = [note |-> TRUE, name |-> p.name, value |-> "", nl |-> FALSE]
    BY <2>1, PairExcept
  <2> QED BY <1>3, <2>1, <2>2 DEF KeptPair, Note
<1>4. CASE ~p.note
  <2>1. p.note = FALSE
    BY <1>1, <1>4
  <2>2. [p EXCEPT !.nl = FALSE] = [note |-> FALSE, name |-> p.name, value |-> p.value, nl |-> FALSE]
    BY <2>1, PairExcept
  <2> QED BY <1>4, <2>2 DEF KeptPair, Pair
<1> QED BY <1>3, <1>4

LEMMA CarriedNode ==
  ASSUME NEW ns \in TypedLists, NodesInv(ns), ~BareNote(ns), NEW i \in 1 .. Len(ns)
  PROVE  Kept(ns[i], Len(ns[i].pairs)) = [ns[i] EXCEPT !.pairs = CarriedPairs(ns[i].pairs)]
<1> DEFINE n == ns[i]
           ps == n.pairs
<1>0. ns \in Seq(Nodes) /\ TypedNodes(ns) /\ i \in DOMAIN ns
  BY DEF TypedLists
<1>1. n \in Nodes /\ ps \in Seq(Pairs) /\ Tailed(n) /\ TypedPairs(ps) /\ PairsInv(ps) /\ (Sealed(n) => ps = <<>>)
  BY <1>0, PairsOf DEF TypedNodes, NodesInv
<1>2. n.note => n.name.tail = "nl"
  BY <1>0, <1>1 DEF BareNote, Tailed
<1>3. \A j \in DOMAIN ps : ps[j].note => ps[j].name.tail = "nl"
  BY <1>0, <1>1 DEF BareNote, TypedPairs, Tailed
<1>4. DOMAIN ps = 1 .. Len(ps) /\ Len(ps) \in Nat /\ Len(ps) \in 0 .. Len(ps)
  BY <1>1
<1>n. n = [note |-> n.note, name |-> n.name, pairs |-> ps] /\ n.note \in BOOLEAN /\ n.name \in Strings
  BY <1>1 DEF Nodes
<1>5. CASE n.note
  <2>1. Sealed(n) /\ ps = <<>>
    BY <1>1, <1>2, <1>5 DEF Sealed
  <2>2. n.name = Str(n.name.text, "nl")
    BY <1>2, <1>5, <1>n DEF Str, Strings
  <2>3. CarriedPairs(ps) = <<>>
    BY <2>1 DEF CarriedPairs
  <2>4. [n EXCEPT !.pairs = CarriedPairs(ps)] = [note |-> TRUE, name |-> n.name, pairs |-> <<>>]
    <3>1. n.note = TRUE
      BY <1>5, <1>n
    <3> QED BY <1>1, <2>3, <3>1, NodeExcept
  <2> QED BY <1>5, <2>2, <2>4 DEF Kept, Node
<1>6. CASE ~n.note
  <2>1. ASSUME NEW j \in 1 .. Len(ps) PROVE KeptPair(ps[j]) = [ps[j] EXCEPT !.nl = FALSE]
    <3> DEFINE p == ps[j]
    <3>1. p \in Pairs /\ j \in DOMAIN ps
      BY <1>1, <1>4, ElementOfSeq
    <3>2. Tailed(p) /\ (p.note => p.name.tail = "nl") /\ (Sealed(p) => p.value = "" /\ ~p.nl)
      BY <1>1, <1>3, <3>1 DEF TypedPairs, PairsInv
    <3> HIDE DEF p
    <3>3. KeptPair(p) = [p EXCEPT !.nl = FALSE]
      BY <3>1, <3>2, CarriedPair
    <3> QED BY <3>3 DEF p
  <2>2. KeptPairs(ps, Len(ps)) = CarriedPairs(ps)
    BY <1>4, <2>1 DEF KeptPairs, CarriedPairs
  <2>3. [n EXCEPT !.pairs = CarriedPairs(ps)] = [note |-> FALSE, name |-> n.name, pairs |-> CarriedPairs(ps)]
    <3>1. n.note = FALSE
      BY <1>6, <1>n
    <3> QED BY <1>1, <3>1, NodeExcept
  <2> QED BY <1>6, <2>2, <2>3 DEF Kept
<1> QED BY <1>5, <1>6

LEMMA CarriedBack ==
  ASSUME NEW ns \in TypedLists, NodesInv(ns), ~BareNote(ns)
  PROVE  Back(ns, Len(ns)) = Carried(ns)
<1>0. ns \in Seq(Nodes)
  BY DEF TypedLists
<1>1. \A i \in 1 .. Len(ns) : Kept(ns[i], Len(ns[i].pairs)) = Carried(ns)[i]
  <2> SUFFICES ASSUME NEW i \in 1 .. Len(ns) PROVE Kept(ns[i], Len(ns[i].pairs)) = Carried(ns)[i]
    OBVIOUS
  <2>1. Kept(ns[i], Len(ns[i].pairs)) = [ns[i] EXCEPT !.pairs = CarriedPairs(ns[i].pairs)]
    BY CarriedNode
  <2>2. Carried(ns)[i] = [ns[i] EXCEPT !.pairs = CarriedPairs(ns[i].pairs)]
    BY <1>0, CarriedIs
  <2> QED BY <2>1, <2>2
<1>2. Carried(ns) = [i \in 1 .. Len(ns) |-> Carried(ns)[i]]
  BY <1>0, CarriedIs
<1> QED BY <1>1, <1>2 DEF Back

LEMMA FreshCarried ==
  ASSUME NEW ns \in Seq(Nodes), Fresh(ns)
  PROVE  Carried(ns) = ns
<1>1. ASSUME NEW i \in 1 .. Len(ns) PROVE [ns[i] EXCEPT !.pairs = CarriedPairs(ns[i].pairs)] = ns[i]
  <2> DEFINE n == ns[i]
             ps == n.pairs
  <2>1. n \in Nodes /\ ps \in Seq(Pairs)
    BY PairsOf
  <2>2. \A j \in DOMAIN ps : ps[j] \in Pairs /\ ~ps[j].nl
    BY <2>1, ElementOfSeq DEF Fresh
  <2>3. n = [note |-> n.note, name |-> n.name, pairs |-> ps]
    BY <2>1 DEF Nodes
  <2>4. ps = [j \in DOMAIN ps |-> ps[j]]
    BY <2>1
  <2> HIDE DEF ps
  <2>5. \A j \in DOMAIN ps : [ps[j] EXCEPT !.nl = FALSE] = ps[j]
    BY <2>2 DEF Pairs
  <2>6. CarriedPairs(ps) = ps
    BY <2>4, <2>5 DEF CarriedPairs
  <2> QED BY <2>3, <2>6 DEF ps
<1>2. Carried(ns) = [i \in 1 .. Len(ns) |-> ns[i]]
  BY <1>1, CarriedIs
<1>3. ns = [i \in 1 .. Len(ns) |-> ns[i]]
  OBVIOUS
<1> QED BY <1>2, <1>3

LEMMA AgreeNext == TypeInv /\ FileInv /\ AgreeInv /\ [Next]_vars => AgreeInv'
<1> SUFFICES ASSUME TypeInv, FileInv, AgreeInv, [Next]_vars PROVE AgreeInv'
  OBVIOUS
<1>0. nodes \in TypedLists /\ nodes \in Seq(Nodes)
  BY DEF TypeInv, TypeOK, TypedLists
<1>1. CASE initIniFile
  <2> DEFINE r == readIniFile(disk)
  <2>1. r \in Readings /\ Fresh(r.nodes)
    BY ReadFileIs DEF TypeInv, TypeOK
  <2>2. CASE r.ret < 0
    BY <1>1, <2>2 DEF initIniFile, AgreeInv
  <2>3. CASE ~(r.ret < 0)
    <3> HIDE DEF r
    <3>1. r.ret = 0
      BY <2>1, <2>3 DEF Readings, DIES, REPEATNODEKEY, TOOLONG
    <3>2. r = Result(0, r.nodes)
      BY <2>1, <3>1 DEF Readings, Result
    <3>3. nodes' = r.nodes /\ disk' = disk
      BY <1>1, <2>3 DEF initIniFile, r
    <3> QED BY <2>1, <3>2, <3>3 DEF AgreeInv, r
  <2> QED BY <2>2, <2>3
<1>2. CASE Call
  <2>1. Called /\ (Refused \/ Done \/ Dangles)
    BY <1>0, <1>2, CallIs
  <2> QED BY <2>1 DEF Called, Refused, Done, Dangles, Written, AgreeInv
<1>3. CASE Truncate
  BY <1>3 DEF Truncate, AgreeInv
<1>4. CASE WriteLine
  BY <1>4 DEF WriteLine, AgreeInv
<1>5. CASE CloseFile
  <2>1. Image(nodes) \in Seq(Lines)
    BY <1>0, ImageTyped
  <2>2. disk = Whole(SubSeq(Image(nodes), 1, Len(Image(nodes))))
    BY <1>5 DEF CloseFile, FileInv, DiskInv
  <2>3. disk = Whole(Image(nodes))
    BY <2>1, <2>2, SubSeqFull
  <2> QED BY <1>5, <2>3 DEF CloseFile, AgreeInv
<1>6. CASE OpenFails
  BY <1>6 DEF OpenFails, AgreeInv, OPENFILEERROR
<1>7. CASE WriteFails
  BY <1>7 DEF WriteFails, AgreeInv, WRITEERROR
<1>8. CASE exitOperationIniFile
  BY <1>8 DEF exitOperationIniFile, Closed, AgreeInv
<1>9. CASE Crash
  BY <1>9 DEF Crash, Closed, AgreeInv
<1>10. CASE UNCHANGED vars
  BY <1>10 DEF vars, AgreeInv
<1> QED BY <1>1, <1>2, <1>3, <1>4, <1>5, <1>6, <1>7, <1>8, <1>9, <1>10 DEF Next, updateIniFile

LEMMA AgreeAlways == Spec => []AgreeInv
<1>1. Init => AgreeInv
  BY DEF Init, AgreeInv
<1> QED BY <1>1, FileAlways, AgreeNext, TypeAlways, PTL DEF Spec

LEMMA Agrees == TypeInv /\ FileInv /\ AgreeInv => ReopenAgrees
<1> SUFFICES ASSUME TypeInv, FileInv, AgreeInv,
                    pc = "idle" /\ wret = 0 /\ ~freed /\ ~BareNote(nodes) /\ Fits(disk.lines)
             PROVE  readIniFile(disk) = Result(0, Carried(nodes))
  BY DEF ReopenAgrees
<1>0. nodes \in TypedLists /\ nodes \in Seq(Nodes) /\ NodesInv(nodes)
  BY DEF TypeInv, TypeOK, TypedLists, FileInv
<1>1. CASE disk = Whole(Image(nodes))
  <2>1. Fits(Image(nodes))
    BY <1>1 DEF Whole
  <2> QED BY <1>0, <1>1, <2>1, ReadsBack, CarriedBack
<1>2. CASE readIniFile(disk) = Result(0, nodes) /\ Fresh(nodes)
  BY <1>0, <1>2, FreshCarried
<1> QED BY <1>1, <1>2 DEF AgreeInv

(* Between calls, after an update that completed and whatever failed       *)
(* before it, initIniFile would give the list in memory again: every node  *)
(* and entry in its place, notes included, as long as the lines written    *)
(* fit what the reading takes of a line (Fits).                            *)
THEOREM ReopeningAgrees == Spec => []ReopenAgrees
  BY Agrees, TypeAlways, FileAlways, AgreeAlways, PTL

-----------------------------------------------------------------------------
(* What getValueOfKey gives                                                *)

Lookup(ps, k, v) ==
  \/ (\A j \in DOMAIN ps : ~Answers(ps[j].name, Exact(k))) /\ v = ""
  \/ \E q \in DOMAIN ps : FirstFor(ps, q, k) /\ v = ps[q].value

Get(ns, s, k, v) ==
  \/ (\A i \in DOMAIN ns : ~Answers(ns[i].name, Exact(s))) /\ v = ""
  \/ \E p \in DOMAIN ns : FirstNode(ns, p, s) /\ Lookup(ns[p].pairs, k, v)

LEMMA OneFirst ==
  ASSUME NEW L \in Nat, NEW p \in 1 .. L, NEW q \in 1 .. L, p <= q, q <= p
  PROVE  p = q
  OBVIOUS

LEMMA LookupIs ==
  ASSUME NEW n \in Nodes, NEW k, NEW v
  PROVE  LET q == findIniKeyValue(n, Exact(k)) IN
         Lookup(n.pairs, k, v) <=> v = IF q = 0 THEN "" ELSE n.pairs[q].value
<1> DEFINE ps == n.pairs
           q == findIniKeyValue(n, Exact(k))
<1>0. DOMAIN ps = 1 .. Len(ps) /\ Len(ps) \in Nat
  BY DEF Nodes
<1>1. \/ q = 0 /\ \A j \in DOMAIN ps : ~Answers(ps[j].name, Exact(k))
      \/ /\ q \in 1 .. Len(ps) /\ Answers(ps[q].name, Exact(k))
         /\ \A j \in DOMAIN ps : Answers(ps[j].name, Exact(k)) => q <= j
  BY FindPair
<1> HIDE DEF ps, q
<1>2. CASE q = 0 /\ \A j \in DOMAIN ps : ~Answers(ps[j].name, Exact(k))
  BY <1>2 DEF Lookup, FirstFor, ps, q
<1>3. CASE q \in 1 .. Len(ps) /\ FirstFor(ps, q, k)
  <2>1. q # 0 /\ q \in DOMAIN ps /\ Answers(ps[q].name, Exact(k))
    BY <1>0, <1>3 DEF FirstFor
  <2>2. ASSUME NEW r \in DOMAIN ps, FirstFor(ps, r, k) PROVE r = q
    <3>1. q <= r /\ r <= q
      BY <1>3, <2>1, <2>2 DEF FirstFor
    <3> QED BY <1>0, <1>3, <3>1, OneFirst
  <2>3. Lookup(ps, k, v) <=> v = ps[q].value
    BY <1>3, <2>1, <2>2 DEF Lookup
  <2> QED BY <2>1, <2>3 DEF ps, q
<1> QED BY <1>1, <1>2, <1>3 DEF FirstFor

LEMMA GetIs ==
  ASSUME NEW ns \in Seq(Nodes), NEW s, NEW k, NEW v
  PROVE  Get(ns, s, k, v) <=> v = getValueOfKey(ns, s, k)
<1> DEFINE p == findIniFileNode(ns, Exact(s))
           q == findIniKeyValue(ns[p], Exact(k))
<1>0. DOMAIN ns = 1 .. Len(ns) /\ Len(ns) \in Nat
  OBVIOUS
<1>1. /\ p = 0 => \A i \in DOMAIN ns : ~Answers(ns[i].name, Exact(s))
      /\ p # 0 => p \in 1 .. Len(ns) /\ FirstNode(ns, p, s)
  BY FoundNode
<1>2. getValueOfKey(ns, s, k) = IF p = 0 THEN "" ELSE IF q = 0 THEN "" ELSE ns[p].pairs[q].value
  BY DEF getValueOfKey
<1> HIDE DEF p, q
<1>3. CASE p = 0
  BY <1>1, <1>2, <1>3 DEF Get, FirstNode
<1>4. CASE p # 0
  <2> DEFINE found == IF q = 0 THEN "" ELSE ns[p].pairs[q].value
  <2>1. p \in DOMAIN ns /\ FirstNode(ns, p, s) /\ Answers(ns[p].name, Exact(s)) /\ ns[p] \in Nodes
    BY <1>0, <1>1, <1>4, PairsOf DEF FirstNode
  <2>2. Lookup(ns[p].pairs, k, v) <=> v = found
    BY <2>1, LookupIs DEF q
  <2>3. ASSUME NEW r \in DOMAIN ns, FirstNode(ns, r, s) PROVE r = p
    <3>1. p <= r /\ r <= p
      BY <2>1, <2>3 DEF FirstNode
    <3> QED BY <1>0, <2>1, <3>1, OneFirst
  <2>4. Get(ns, s, k, v) <=> Lookup(ns[p].pairs, k, v)
    BY <2>1, <2>3 DEF Get
  <2>5. getValueOfKey(ns, s, k) = found
    BY <1>2, <1>4
  <2> HIDE DEF found
  <2> QED BY <2>2, <2>4, <2>5, Zenon
<1> QED BY <1>3, <1>4

(* In the entries of a section.                                            *)
LEMMA LookupAppend ==
  ASSUME NEW ps \in Seq(Pairs), NEW pair \in Pairs, NEW k, NEW v
  PROVE  /\ (Lookup(ps, k, v) /\ ~Answers(pair.name, Exact(k))) => Lookup(Append(ps, pair), k, v)
         /\ ((\A j \in DOMAIN ps : ~Answers(ps[j].name, Exact(k))) /\ Answers(pair.name, Exact(k)))
              => Lookup(Append(ps, pair), k, pair.value)
<1> DEFINE qs == Append(ps, pair)
           L == Len(ps)
<1>1. /\ DOMAIN qs = 1 .. L + 1 /\ qs[L + 1] = pair
      /\ \A j \in 1 .. L : qs[j] = ps[j]
  BY AppendPair
<1>2. DOMAIN ps = 1 .. L /\ L \in Nat
  OBVIOUS
<1> HIDE DEF qs, L
<1>3. \A j \in 1 .. L + 1 : j \in 1 .. L \/ j = L + 1
  BY <1>2
<1>7. \A j \in 1 .. L : j \in 1 .. L + 1 /\ j <= L + 1
  BY <1>2
<1>4. ASSUME Lookup(ps, k, v), ~Answers(pair.name, Exact(k)) PROVE Lookup(qs, k, v)
  <2>1. CASE (\A j \in DOMAIN ps : ~Answers(ps[j].name, Exact(k))) /\ v = ""
    BY <1>1, <1>2, <1>3, <1>4, <2>1 DEF Lookup
  <2>2. ASSUME NEW q \in DOMAIN ps, FirstFor(ps, q, k), v = ps[q].value PROVE Lookup(qs, k, v)
    <3>1. q \in DOMAIN qs /\ qs[q] = ps[q]
      BY <1>1, <1>2, <1>7
    <3>2. \A j \in DOMAIN qs : Answers(qs[j].name, Exact(k)) => q <= j
      BY <1>1, <1>2, <1>3, <1>4, <2>2 DEF FirstFor
    <3>3. FirstFor(qs, q, k)
      BY <2>2, <3>1, <3>2 DEF FirstFor
    <3> QED BY <2>2, <3>1, <3>3 DEF Lookup
  <2> QED BY <1>4, <2>1, <2>2 DEF Lookup
<1>5. ASSUME \A j \in DOMAIN ps : ~Answers(ps[j].name, Exact(k)), Answers(pair.name, Exact(k))
      PROVE  Lookup(qs, k, pair.value)
  <2>1. L + 1 \in DOMAIN qs
    BY <1>1, <1>2
  <2>2. \A j \in DOMAIN qs : Answers(qs[j].name, Exact(k)) => L + 1 <= j
    BY <1>1, <1>2, <1>3, <1>5
  <2>3. FirstFor(qs, L + 1, k)
    BY <1>1, <1>5, <2>2 DEF FirstFor
  <2> QED BY <1>1, <2>1, <2>3 DEF Lookup
<1> QED BY <1>4, <1>5 DEF qs

LEMMA LookupValue ==
  ASSUME NEW ps \in Seq(Pairs), NEW q \in 1 .. Len(ps), NEW k, NEW k2, NEW v, NEW w \in Texts, FirstFor(ps, q, k2)
  PROVE  /\ (Lookup(ps, k, v) /\ k # k2) => Lookup(WithValue(ps, q, w), k, v)
         /\ Lookup(WithValue(ps, q, w), k2, w)
<1> DEFINE qs == WithValue(ps, q, w)
<1>1. /\ DOMAIN qs = 1 .. Len(ps)
      /\ \A j \in 1 .. Len(ps) : j # q => qs[j] = ps[j]
      /\ \A j \in 1 .. Len(ps) : qs[j].name = ps[j].name
      /\ qs[q].value = w
  BY WithValueIs, ZenonT(60)
<1>2. DOMAIN ps = 1 .. Len(ps)
  OBVIOUS
<1> HIDE DEF qs
<1>3. \A r \in 1 .. Len(ps) : \A kk : FirstFor(ps, r, kk) => FirstFor(qs, r, kk)
  BY <1>1, <1>2 DEF FirstFor
<1>4. Lookup(qs, k2, w)
  BY <1>1, <1>3 DEF Lookup
<1>5. ASSUME Lookup(ps, k, v), k # k2 PROVE Lookup(qs, k, v)
  <2>1. CASE (\A j \in DOMAIN ps : ~Answers(ps[j].name, Exact(k))) /\ v = ""
    BY <1>1, <1>2, <2>1 DEF Lookup
  <2>2. ASSUME NEW r \in DOMAIN ps, FirstFor(ps, r, k), v = ps[r].value PROVE Lookup(qs, k, v)
    <3>1. r # q
      BY <1>5, <2>2 DEF FirstFor, Answers, Exact, Str
    <3>2. qs[r] = ps[r] /\ r \in DOMAIN qs /\ FirstFor(qs, r, k)
      BY <1>1, <1>2, <1>3, <2>2, <3>1
    <3> QED BY <2>2, <3>2 DEF Lookup
  <2> QED BY <1>5, <2>1, <2>2 DEF Lookup
<1> QED BY <1>4, <1>5 DEF qs

LEMMA LookupRemove ==
  ASSUME NEW ps \in Seq(Pairs), NEW q \in 1 .. Len(ps), NEW k, NEW v, ~Answers(ps[q].name, Exact(k)), Lookup(ps, k, v)
  PROVE  Lookup(RemoveAt(ps, q), k, v)
<1> DEFINE qs == RemoveAt(ps, q)
           L == Len(ps)
           Old(j) == IF j < q THEN j ELSE j + 1
           New(j) == IF j < q THEN j ELSE j - 1
<1>1. /\ DOMAIN qs = 1 .. L - 1
      /\ \A j \in 1 .. L - 1 : qs[j] = IF j < q THEN ps[j] ELSE ps[j + 1]
  BY RemoveAtIs, Zenon
<1>2. DOMAIN ps = 1 .. L /\ L \in Nat /\ q \in 1 .. L
  OBVIOUS
<1> HIDE DEF qs, L
<1>3. \A j \in DOMAIN qs : Old(j) \in DOMAIN ps /\ qs[j] = ps[Old(j)]
  BY <1>1, <1>2
<1>4. \A r \in DOMAIN ps : r # q => New(r) \in DOMAIN qs /\ qs[New(r)] = ps[r]
  BY <1>1, <1>2
<1>5. \A r \in DOMAIN ps : \A j \in DOMAIN qs : (r # q /\ r <= Old(j)) => New(r) <= j
  BY <1>1, <1>2
<1> HIDE DEF Old, New
<1>6. CASE (\A j \in DOMAIN ps : ~Answers(ps[j].name, Exact(k))) /\ v = ""
  BY <1>3, <1>6 DEF Lookup, qs
<1>7. ASSUME NEW r \in DOMAIN ps, FirstFor(ps, r, k), v = ps[r].value PROVE Lookup(qs, k, v)
  <2>1. r # q
    BY <1>7 DEF FirstFor
  <2>2. New(r) \in DOMAIN qs /\ qs[New(r)] = ps[r]
    BY <1>4, <2>1
  <2>3. \A j \in DOMAIN qs : Answers(qs[j].name, Exact(k)) => New(r) <= j
    BY <1>3, <1>5, <1>7, <2>1 DEF FirstFor
  <2>4. FirstFor(qs, New(r), k)
    BY <1>7, <2>2, <2>3 DEF FirstFor
  <2> QED BY <1>7, <2>2, <2>4 DEF Lookup
<1> QED BY <1>6, <1>7 DEF Lookup, qs

(* In the list.                                                            *)
LEMMA GetWith ==
  ASSUME NEW ns \in Seq(Nodes), NEW p \in 1 .. Len(ns), NEW qs \in Seq(Pairs), NEW s, NEW k, NEW v,
         Get(ns, s, k, v),
         (Answers(ns[p].name, Exact(s)) /\ Lookup(ns[p].pairs, k, v)) => Lookup(qs, k, v)
  PROVE  Get(WithPairs(ns, p, qs), s, k, v)
<1> DEFINE ms == WithPairs(ns, p, qs)
<1>1. /\ DOMAIN ms = 1 .. Len(ns)
      /\ \A i \in 1 .. Len(ns) : i # p => ms[i] = ns[i]
      /\ ms[p].pairs = qs /\ ms[p].name = ns[p].name
  BY WithPairsIs, Zenon
<1>2. DOMAIN ns = 1 .. Len(ns)
  OBVIOUS
<1> HIDE DEF ms
<1>3. \A i \in 1 .. Len(ns) : ms[i].name = ns[i].name
  BY <1>1
<1>4. CASE (\A i \in DOMAIN ns : ~Answers(ns[i].name, Exact(s))) /\ v = ""
  BY <1>1, <1>2, <1>3, <1>4 DEF Get, ms
<1>5. ASSUME NEW r \in DOMAIN ns, FirstNode(ns, r, s), Lookup(ns[r].pairs, k, v) PROVE Get(ms, s, k, v)
  <2>1. FirstNode(ms, r, s) /\ r \in DOMAIN ms
    BY <1>1, <1>2, <1>3, <1>5 DEF FirstNode
  <2>2. Lookup(ms[r].pairs, k, v)
    BY <1>1, <1>2, <1>5 DEF FirstNode
  <2> QED BY <2>1, <2>2 DEF Get
<1> QED BY <1>4, <1>5 DEF Get, ms

LEMMA GetAppend ==
  ASSUME NEW ns \in Seq(Nodes), NEW name \in Strings, NEW s, NEW k, NEW v,
         Get(ns, s, k, v), ~Answers(name, Exact(s))
  PROVE  Get(listIniFileNode_insert(ns, Node(FALSE, name)), s, k, v)
<1> DEFINE ms == listIniFileNode_insert(ns, Node(FALSE, name))
           L == Len(ns)
<1>1. /\ DOMAIN ms = 1 .. L + 1 /\ ms[L + 1] = Node(FALSE, name)
      /\ \A i \in 1 .. L : ms[i] = ns[i]
  BY AppendNode, Zenon
<1>2. DOMAIN ns = 1 .. L /\ L \in Nat
  OBVIOUS
<1>n. Node(FALSE, name).name = name
  BY DEF Node
<1> HIDE DEF ms, L
<1>3. \A j \in 1 .. L + 1 : j \in 1 .. L \/ j = L + 1
  BY <1>2
<1>7. \A j \in 1 .. L : j \in 1 .. L + 1 /\ j <= L + 1
  BY <1>2
<1>4. CASE (\A i \in DOMAIN ns : ~Answers(ns[i].name, Exact(s))) /\ v = ""
  BY <1>1, <1>2, <1>3, <1>4, <1>n DEF Get, ms
<1>5. ASSUME NEW r \in DOMAIN ns, FirstNode(ns, r, s), Lookup(ns[r].pairs, k, v) PROVE Get(ms, s, k, v)
  <2>1. r \in DOMAIN ms /\ ms[r] = ns[r]
    BY <1>1, <1>2, <1>7
  <2>2. \A j \in DOMAIN ms : Answers(ms[j].name, Exact(s)) => r <= j
    BY <1>1, <1>2, <1>3, <1>5, <1>n DEF FirstNode
  <2>3. FirstNode(ms, r, s)
    BY <1>5, <2>1, <2>2 DEF FirstNode
  <2> QED BY <1>5, <2>1, <2>3 DEF Get
<1> QED BY <1>4, <1>5 DEF Get, ms

LEMMA GetRemove ==
  ASSUME NEW ns \in Seq(Nodes), NEW p \in 1 .. Len(ns), NEW s, NEW k, NEW v,
         ~Answers(ns[p].name, Exact(s)), Get(ns, s, k, v)
  PROVE  Get(RemoveAt(ns, p), s, k, v)
<1> DEFINE ms == RemoveAt(ns, p)
           L == Len(ns)
           Old(j) == IF j < p THEN j ELSE j + 1
           New(j) == IF j < p THEN j ELSE j - 1
<1>1. /\ DOMAIN ms = 1 .. L - 1
      /\ \A j \in 1 .. L - 1 : ms[j] = IF j < p THEN ns[j] ELSE ns[j + 1]
  BY RemoveAtIs, Zenon
<1>2. DOMAIN ns = 1 .. L /\ L \in Nat /\ p \in 1 .. L
  OBVIOUS
<1> HIDE DEF ms, L
<1>3. \A j \in DOMAIN ms : Old(j) \in DOMAIN ns /\ ms[j] = ns[Old(j)]
  BY <1>1, <1>2
<1>4. \A r \in DOMAIN ns : r # p => New(r) \in DOMAIN ms /\ ms[New(r)] = ns[r]
  BY <1>1, <1>2
<1>5. \A r \in DOMAIN ns : \A j \in DOMAIN ms : (r # p /\ r <= Old(j)) => New(r) <= j
  BY <1>1, <1>2
<1> HIDE DEF Old, New
<1>6. CASE (\A j \in DOMAIN ns : ~Answers(ns[j].name, Exact(s))) /\ v = ""
  BY <1>3, <1>6 DEF Get, ms
<1>7. ASSUME NEW r \in DOMAIN ns, FirstNode(ns, r, s), Lookup(ns[r].pairs, k, v) PROVE Get(ms, s, k, v)
  <2>1. r # p
    BY <1>7 DEF FirstNode
  <2>2. New(r) \in DOMAIN ms /\ ms[New(r)] = ns[r]
    BY <1>4, <2>1
  <2>3. \A j \in DOMAIN ms : Answers(ms[j].name, Exact(s)) => New(r) <= j
    BY <1>3, <1>5, <1>7, <2>1 DEF FirstNode
  <2>4. FirstNode(ms, New(r), s)
    BY <1>7, <2>2, <2>3 DEF FirstNode
  <2> QED BY <1>7, <2>2, <2>4 DEF Get
<1> QED BY <1>6, <1>7 DEF Get, ms

(* Section s, key k is not what the operation is about.                    *)
Another(o, s, k) == s # o.section \/ (o.name \in {"update", "add", "delete"} /\ k # o.key)

LEMMA PairChangedOnly ==
  ASSUME NEW ns \in TypedLists, NEW ms, NEW o, NEW p, PairChanged(ns, ms, o, p), NEW s, NEW k, NEW v,
         Another(o, s, k), Get(ns, s, k, v)
  PROVE  Get(ms, s, k, v)
<1> DEFINE ps == ns[p].pairs
<1>1. p \in 1 .. Len(ns) /\ FirstNode(ns, p, o.section) /\ ns \in Seq(Nodes) /\ o.key \in Keys
  BY DEF PairChanged, TypedLists
<1>2. ps \in Seq(Pairs)
  BY <1>1, PairsOf
<1>3. Answers(ns[p].name, Exact(s)) => k # o.key
  BY <1>1 DEF FirstNode, Answers, Exact, Str, Another
<1>0. Added(ns, ms, o, p) \/ \E q : Updated(ns, ms, o, p, q) \/ Deleted(ns, ms, o, p, q)
  BY DEF PairChanged
<1>4. CASE Added(ns, ms, o, p)
  <2> DEFINE qs == Append(ps, PairOf(o))
  <2>1. o.value \in Values /\ ms = WithPairs(ns, p, qs)
    BY <1>4 DEF Added
  <2>2. PairOf(o) \in Pairs /\ PairOf(o).name = Str(o.key, "blank")
    BY <1>1, <2>1, PairOfIs
  <2>3. k # o.key => ~Answers(PairOf(o).name, Exact(k))
    BY <2>2 DEF Answers, Exact, Str
  <2>4. (k # o.key /\ Lookup(ps, k, v)) => Lookup(qs, k, v)
    BY <1>2, <2>2, <2>3, LookupAppend
  <2>5. qs \in Seq(Pairs)
    BY <1>2, <2>2, AppendPair, Zenon
  <2> HIDE DEF qs
  <2> QED BY <1>1, <1>3, <2>1, <2>4, <2>5, GetWith
<1>5. ASSUME NEW q, Updated(ns, ms, o, p, q) PROVE Get(ms, s, k, v)
  <2> DEFINE qs == WithValue(ps, q, o.value)
  <2>1. o.value \in Texts /\ ms = WithPairs(ns, p, qs) /\ q \in 1 .. Len(ps) /\ FirstFor(ps, q, o.key)
    BY <1>5, TextsAssumption DEF Updated
  <2>2. ASSUME NEW es \in Seq(Pairs), NEW w \in Texts, NEW key, q \in 1 .. Len(es), FirstFor(es, q, key),
               k # key, Lookup(es, k, v)
        PROVE  Lookup(WithValue(es, q, w), k, v)
    BY <2>2, LookupValue
  <2>4. (k # o.key /\ Lookup(ps, k, v)) => Lookup(qs, k, v)
    BY <1>2, <2>1, <2>2
  <2>5. qs \in Seq(Pairs)
    BY <1>2, <2>1, WithValueIs
  <2> HIDE DEF qs
  <2> QED BY <1>1, <1>3, <2>1, <2>4, <2>5, GetWith
<1>6. ASSUME NEW q, Deleted(ns, ms, o, p, q) PROVE Get(ms, s, k, v)
  <2> DEFINE qs == RemoveAt(ps, q)
  <2>1. ms = WithPairs(ns, p, qs) /\ q \in 1 .. Len(ps) /\ FirstFor(ps, q, o.key)
    BY <1>6 DEF Deleted
  <2>3. k # o.key => ~Answers(ps[q].name, Exact(k))
    BY <2>1 DEF FirstFor, Answers, Exact, Str
  <2>4. (k # o.key /\ Lookup(ps, k, v)) => Lookup(qs, k, v)
    BY <1>2, <2>1, <2>3, LookupRemove
  <2>5. qs \in Seq(Pairs)
    BY <1>2, <2>1, RemoveAtIs
  <2> HIDE DEF qs
  <2> QED BY <1>1, <1>3, <2>1, <2>4, <2>5, GetWith
<1> QED BY <1>0, <1>4, <1>5, <1>6

LEMMA ChangedOnly ==
  ASSUME NEW ns \in TypedLists, NEW ms, NEW o, Changed(ns, ms, o), NEW s, NEW k, NEW v,
         Another(o, s, k), Get(ns, s, k, v)
  PROVE  Get(ms, s, k, v)
<1>0. ns \in Seq(Nodes)
  BY DEF TypedLists
<1>1. ASSUME NEW p, PairChanged(ns, ms, o, p) PROVE Get(ms, s, k, v)
  BY <1>1, PairChangedOnly
<1>2. ASSUME NEW p, SectionDeleted(ns, ms, o, p) PROVE Get(ms, s, k, v)
  <2>1. p \in 1 .. Len(ns) /\ FirstNode(ns, p, o.section) /\ ms = RemoveAt(ns, p) /\ s # o.section
    BY <1>2 DEF SectionDeleted, Another
  <2>2. ~Answers(ns[p].name, Exact(s))
    BY <2>1 DEF FirstNode, Answers, Exact, Str
  <2> QED BY <1>0, <2>1, <2>2, GetRemove
<1>3. CASE SectionAdded(ns, ms, o)
  <2>1. ms = listIniFileNode_insert(ns, Node(FALSE, Exact(o.section))) /\ s # o.section
    BY <1>3 DEF SectionAdded, Another
  <2>2. Exact(o.section) \in Strings /\ ~Answers(Exact(o.section), Exact(s))
    BY <1>3, <2>1, TextsAssumption DEF SectionAdded, Exact, Str, Strings, Answers
  <2> QED BY <1>0, <2>1, <2>2, GetAppend
<1> QED BY <1>1, <1>2, <1>3 DEF Changed

LEMMA FreedOnly ==
  ASSUME NEW ns \in TypedLists, NEW ms, NEW o, OnlyFreed(ns, ms, o), NEW s \in Sections, NEW k, NEW v,
         Another(o, s, k), Get(ns, s, k, v)
  PROVE  Get(ms, s, k, v)
<1>0. ns \in Seq(Nodes) /\ Len(ns) = 1 /\ DOMAIN ns = {1} /\ FirstNode(ns, 1, o.section) /\ s # o.section
  BY DEF TypedLists, OnlyFreed, Another
<1>1. PICK left \in {ns[1].name, Exact(Garbage)} : ms = [ns EXCEPT ![1].name = left]
  BY DEF OnlyFreed
<1>n. ns[1] \in Nodes
  BY <1>0, ElementOfSeq
<1>2. ~Answers(ns[1].name, Exact(s)) /\ ~Answers(Exact(Garbage), Exact(s))
  BY <1>0, GarbageAssumption DEF FirstNode, Answers, Exact, Str
<1>3. v = ""
  BY <1>0, <1>2 DEF Get, FirstNode
<1>4. DOMAIN ms = {1} /\ ms[1].name = left
  BY <1>0, <1>1, <1>n DEF Nodes
<1> QED BY <1>1, <1>2, <1>3, <1>4 DEF Get

(* An operation that is written leaves every other key of every other      *)
(* section as it was: getValueOfKey gives the same value for it, also when *)
(* the only section is deleted and its freed node stays in the list.       *)
THEOREM TouchesOnlyTheTarget == Spec => OnlyTheTarget
<1> DEFINE A == (pc = "idle" /\ pc' = "open") =>
             \A s \in Sections, k \in Keys :
               (s # op'.section \/ (op'.name \in {"update", "add", "delete"} /\ k # op'.key)) =>
                 getValueOfKey(nodes', s, k) = getValueOfKey(nodes, s, k)
<1>1. TypeInv /\ [Next]_vars => [A]_vars
  <2> SUFFICES ASSUME TypeInv, [Next]_vars, pc = "idle", pc' = "open",
                      NEW s \in Sections, NEW k \in Keys, Another(op', s, k)
               PROVE  getValueOfKey(nodes', s, k) = getValueOfKey(nodes, s, k)
    BY DEF Another
  <2>0. nodes \in TypedLists /\ nodes \in Seq(Nodes)
    BY DEF TypeInv, TypeOK, TypedLists
  <2>1. Call
    BY DEF Next, vars, initIniFile, updateIniFile, Truncate, WriteLine, CloseFile, OpenFails, WriteFails,
           exitOperationIniFile, Closed, Crash
  <2>2. Called /\ (Done \/ Dangles)
    BY <2>0, <2>1, CallIs DEF Refused
  <2> DEFINE v == getValueOfKey(nodes, s, k)
  <2>3. Get(nodes, s, k, v)
    BY <2>0, GetIs
  <2>4. Get(nodes', s, k, v)
    BY <2>0, <2>2, <2>3, ChangedOnly, FreedOnly DEF Done, Dangles
  <2>5. nodes' \in Seq(Nodes)
    <3>1. nodes' \in TypedLists
      BY <2>0, <2>2, ChangedKeeps, FreedKeeps DEF Done, Dangles
    <3> QED BY <3>1 DEF TypedLists
  <2> HIDE DEF v
  <2>6. v = getValueOfKey(nodes', s, k)
    BY <2>4, <2>5, GetIs
  <2> QED BY <2>6 DEF v
<1> QED BY <1>1, TypeAlways, PTL DEF Spec, OnlyTheTarget

-----------------------------------------------------------------------------
(* What an operation that returned 0 has done                              *)

Effect(ns, o) ==
  /\ o.name \in {"update", "add"} => Get(ns, o.section, o.key, o.value)
  /\ o.name = "delete" => Get(ns, o.section, o.key, "") \/ SecondOf(ns, o.section, o.key)
  /\ o.name = "addSection" => \E i \in DOMAIN ns : Answers(ns[i].name, Exact(o.section))
  /\ o.name = "deleteSection" => \/ \A i \in DOMAIN ns : ~Answers(ns[i].name, Exact(o.section))
                                 \/ SecondSection(ns, o.section)

EffectInv == (pc # "closed" /\ ret = 0 /\ ~freed /\ ~BareNote(nodes)) => Effect(nodes, op)

LEMMA StillFirst ==
  ASSUME NEW ns \in Seq(Nodes), NEW p \in 1 .. Len(ns), NEW qs \in Seq(Pairs), NEW s, FirstNode(ns, p, s)
  PROVE  LET ms == WithPairs(ns, p, qs) IN
         ms \in Seq(Nodes) /\ p \in DOMAIN ms /\ p \in 1 .. Len(ms) /\ FirstNode(ms, p, s) /\ ms[p].pairs = qs
<1> DEFINE ms == WithPairs(ns, p, qs)
<1>1. /\ ms \in Seq(Nodes) /\ Len(ms) = Len(ns) /\ DOMAIN ms = 1 .. Len(ns) /\ DOMAIN ns = 1 .. Len(ns)
      /\ \A i \in 1 .. Len(ns) : i # p => ms[i] = ns[i]
      /\ ms[p].pairs = qs /\ ms[p].name = ns[p].name
  <2>1. DOMAIN ns = 1 .. Len(ns)
    OBVIOUS
  <2>2. /\ ms \in Seq(Nodes) /\ Len(ms) = Len(ns) /\ DOMAIN ms = 1 .. Len(ns)
        /\ ms[p].pairs = qs /\ ms[p].name = ns[p].name
    BY WithPairsIs, Zenon
  <2>3. \A i \in 1 .. Len(ns) : i # p => ms[i] = ns[i]
    BY WithPairsIs, Zenon
  <2> QED BY <2>1, <2>2, <2>3
<1> HIDE DEF ms
<1>2. \A i \in 1 .. Len(ns) : ms[i].name = ns[i].name
  BY <1>1
<1>3. FirstNode(ms, p, s)
  BY <1>1, <1>2 DEF FirstNode
<1> QED BY <1>1, <1>3 DEF ms

LEMMA FirstFound ==
  ASSUME NEW ns \in Seq(Nodes), NEW p \in 1 .. Len(ns), NEW s, FirstNode(ns, p, s)
  PROVE  findIniFileNode(ns, Exact(s)) = p
<1> DEFINE f == findIniFileNode(ns, Exact(s))
<1>1. DOMAIN ns = 1 .. Len(ns) /\ Len(ns) \in Nat
  OBVIOUS
<1>2. /\ f = 0 => \A i \in DOMAIN ns : ~Answers(ns[i].name, Exact(s))
      /\ f # 0 => f \in 1 .. Len(ns) /\ FirstNode(ns, f, s)
  BY FoundNode
<1> HIDE DEF f
<1>3. f \in 1 .. Len(ns) /\ FirstNode(ns, f, s)
  BY <1>1, <1>2 DEF FirstNode
<1>4. f <= p /\ p <= f
  BY <1>1, <1>3 DEF FirstNode
<1>5. f = p
  BY <1>1, <1>3, <1>4, OneFirst
<1> QED BY <1>5 DEF f

(* Two stored names answer to one text, and the first not to the second.   *)
LEMMA SecondName ==
  ASSUME NEW x \in Strings, NEW y \in Strings, NEW t, Answers(x, Exact(t)), Answers(y, Exact(t)), ~Answers(x, y)
  PROVE  y \in {Str(t, "blank"), Str(t, "blanks")} /\ x.tail # "nl" /\ x.text = y.text
<1>1. x.tail \in {"none", "blank", "blanks"} /\ y.tail \in {"none", "blank", "blanks"} /\ x.text = t /\ y.text = t
  BY DEF Answers, Exact, Str
<1>2. y.tail \in {"blank", "blanks"}
  BY <1>1 DEF Answers
<1> QED BY <1>1, <1>2 DEF Str, Strings

LEMMA DeletedEffect ==
  ASSUME NEW ns \in TypedLists, NodesInv(ns), NEW ms, NEW o, NEW p \in 1 .. Len(ns), NEW q,
         FirstNode(ns, p, o.section), Deleted(ns, ms, o, p, q), ~BareNote(ms)
  PROVE  Get(ms, o.section, o.key, "") \/ SecondOf(ms, o.section, o.key)
<1> DEFINE ps == ns[p].pairs
           qs == RemoveAt(ps, q)
           k == o.key
           Old(j) == IF j < q THEN j ELSE j + 1
<1>0. ns \in Seq(Nodes) /\ TypedNodes(ns) /\ DOMAIN ns = 1 .. Len(ns)
  BY DEF TypedLists
<1>1. ps \in Seq(Pairs) /\ PairsInv(ps) /\ TypedPairs(ps)
  BY <1>0, PairsOf DEF NodesInv, TypedNodes
<1>2. q \in 1 .. Len(ps) /\ FirstFor(ps, q, k) /\ ms = WithPairs(ns, p, qs)
  BY DEF Deleted
<1> HIDE DEF ps, k
<1>3. /\ qs \in Seq(Pairs) /\ DOMAIN qs = 1 .. Len(ps) - 1 /\ DOMAIN ps = 1 .. Len(ps) /\ Len(ps) \in Nat
      /\ \A j \in 1 .. Len(ps) - 1 : qs[j] = IF j < q THEN ps[j] ELSE ps[j + 1]
  BY <1>1, <1>2, RemoveAtIs
<1>4. \A j \in DOMAIN qs : Old(j) \in DOMAIN ps /\ qs[j] = ps[Old(j)] /\ Old(j) # q
  BY <1>2, <1>3
<1> HIDE DEF qs, Old
<1>5. ms \in Seq(Nodes) /\ p \in DOMAIN ms /\ p \in 1 .. Len(ms) /\ FirstNode(ms, p, o.section) /\ ms[p].pairs = qs
  BY <1>0, <1>2, <1>3, StillFirst
<1>6. CASE \A j \in DOMAIN qs : ~Answers(qs[j].name, Exact(k))
  <2>1. Lookup(qs, k, "")
    BY <1>6 DEF Lookup
  <2> QED BY <1>5, <2>1 DEF Get, k
<1>7. ASSUME NEW j \in DOMAIN qs, Answers(qs[j].name, Exact(k)) PROVE SecondOf(ms, o.section, k)
  <2> DEFINE c == Old(j)
  <2>1. c \in DOMAIN ps /\ qs[j] = ps[c] /\ c # q /\ q \in DOMAIN ps
    BY <1>2, <1>3, <1>4
  <2> HIDE DEF c
  <2>2. q < c
    BY <1>2, <1>3, <1>7, <2>1 DEF FirstFor
  <2>3. ps[c] \in Pairs /\ ps[q] \in Pairs
    BY <1>1, <1>3, <2>1, ElementOfSeq
  <2>4. ps[c].name \in Strings /\ ps[q].name \in Strings
    BY <2>3 DEF Pairs
  <2>5. ~ps[c].note
    <3>1. ps[c].note => ps[c].name.tail = "none"
      BY <1>1, <1>7, <2>1 DEF TypedPairs, Tailed, Answers, Exact, Str
    <3>2. ~(qs[j].note /\ qs[j].name.tail = "none")
      BY <1>5, <1>7 DEF BareNote
    <3> QED BY <2>1, <3>1, <3>2
  <2>6. /\ ~Answers(ps[q].name, ps[c].name)
        /\ (ps[q].name.text = ps[c].name.text /\ ps[q].name.tail # "nl") => ~ps[c].nl
    BY <1>1, <2>1, <2>2, <2>5 DEF PairsInv
  <2>7. Answers(ps[q].name, Exact(k)) /\ Answers(ps[c].name, Exact(k))
    BY <1>2, <1>7, <2>1 DEF FirstFor
  <2>8. ps[c].name \in {Str(k, "blank"), Str(k, "blanks")} /\ ~ps[c].nl
    BY <2>4, <2>6, <2>7, SecondName
  <2>9. findIniFileNode(ms, Exact(o.section)) = p /\ p # 0
    BY <1>5, FirstFound
  <2> QED BY <1>5, <1>7, <2>1, <2>8, <2>9 DEF SecondOf
<1> QED BY <1>6, <1>7 DEF k

LEMMA UpdatedEffect ==
  ASSUME NEW ns \in Seq(Nodes), NEW ms, NEW o, NEW p \in 1 .. Len(ns), NEW q,
         FirstNode(ns, p, o.section), Updated(ns, ms, o, p, q)
  PROVE  Get(ms, o.section, o.key, o.value)
<1> DEFINE ps == ns[p].pairs
           w == o.value
           qs == WithValue(ps, q, w)
           k == o.key
<1>1. ps \in Seq(Pairs)
  BY PairsOf
<1>2. w \in Texts /\ q \in 1 .. Len(ps) /\ FirstFor(ps, q, k) /\ ms = WithPairs(ns, p, qs)
  BY TextsAssumption DEF Updated
<1> HIDE DEF ps, k, w
<1>3. qs \in Seq(Pairs)
  BY <1>1, <1>2, WithValueIs
<1>4. Lookup(qs, k, w)
  BY <1>1, <1>2, LookupValue
<1> HIDE DEF qs
<1>5. p \in DOMAIN ms /\ FirstNode(ms, p, o.section) /\ ms[p].pairs = qs
  BY <1>2, <1>3, StillFirst
<1> QED BY <1>4, <1>5 DEF Get, k, w

LEMMA AddedEffect ==
  ASSUME NEW ns \in Seq(Nodes), NEW ms, NEW o, NEW p \in 1 .. Len(ns), o.key \in Keys,
         FirstNode(ns, p, o.section), Added(ns, ms, o, p)
  PROVE  Get(ms, o.section, o.key, o.value)
<1> DEFINE ps == ns[p].pairs
           pair == PairOf(o)
           qs == Append(ps, pair)
           k == o.key
<1>1. ps \in Seq(Pairs)
  BY PairsOf
<1>2. /\ \A j \in DOMAIN ps : ~Answers(ps[j].name, Exact(k))
      /\ o.value \in Values /\ ms = WithPairs(ns, p, qs)
  BY DEF Added
<1>3. pair \in Pairs /\ pair.name = Str(k, "blank") /\ pair.value = o.value
  <2>1. pair \in Pairs /\ pair.name = Str(k, "blank")
    BY <1>2, PairOfIs
  <2> QED BY <2>1 DEF PairOf, Pair
<1> HIDE DEF ps, k, pair
<1>4. Answers(pair.name, Exact(k))
  BY <1>3 DEF Answers, Exact, Str
<1>5. qs \in Seq(Pairs)
  BY <1>1, <1>3, AppendPair, Zenon
<1>6. Lookup(qs, k, pair.value)
  BY <1>1, <1>2, <1>3, <1>4, LookupAppend
<1> HIDE DEF qs
<1>7. p \in DOMAIN ms /\ FirstNode(ms, p, o.section) /\ ms[p].pairs = qs
  BY <1>2, <1>5, StillFirst
<1> QED BY <1>3, <1>6, <1>7 DEF Get, k

LEMMA SectionDeletedEffect ==
  ASSUME NEW ns \in TypedLists, NodesInv(ns), NEW ms, NEW o, NEW p, SectionDeleted(ns, ms, o, p), ~BareNote(ms)
  PROVE  (\A i \in DOMAIN ms : ~Answers(ms[i].name, Exact(o.section))) \/ SecondSection(ms, o.section)
<1> DEFINE s == o.section
           Old(j) == IF j < p THEN j ELSE j + 1
<1>0. ns \in Seq(Nodes) /\ TypedNodes(ns) /\ DOMAIN ns = 1 .. Len(ns) /\ Len(ns) \in Nat
  BY DEF TypedLists
<1>1. p \in 1 .. Len(ns) /\ FirstNode(ns, p, s) /\ ms = RemoveAt(ns, p)
  BY DEF SectionDeleted
<1>2. /\ DOMAIN ms = 1 .. Len(ns) - 1
      /\ \A j \in 1 .. Len(ns) - 1 : ms[j] = IF j < p THEN ns[j] ELSE ns[j + 1]
  BY <1>0, <1>1, RemoveAtIs
<1>3. \A j \in DOMAIN ms : Old(j) \in DOMAIN ns /\ ms[j] = ns[Old(j)] /\ Old(j) # p
  BY <1>0, <1>1, <1>2
<1> HIDE DEF s, Old
<1>4. ASSUME NEW j \in DOMAIN ms, Answers(ms[j].name, Exact(s)) PROVE SecondSection(ms, s)
  <2> DEFINE c == Old(j)
  <2>1. c \in DOMAIN ns /\ ms[j] = ns[c] /\ c # p /\ p \in DOMAIN ns
    BY <1>0, <1>1, <1>3
  <2> HIDE DEF c
  <2>2. p < c
    BY <1>0, <1>1, <1>4, <2>1 DEF FirstNode
  <2>3. ns[c].name \in Strings /\ ns[p].name \in Strings
    BY <1>0, <2>1, PairsOf
  <2>4. ~ns[c].note
    <3>1. ns[c].note => ns[c].name.tail = "none"
      BY <1>0, <1>4, <2>1 DEF TypedNodes, Tailed, Answers, Exact, Str
    <3>2. ~(ms[j].note /\ ms[j].name.tail = "none")
      BY <1>4 DEF BareNote
    <3> QED BY <2>1, <3>1, <3>2
  <2>5. ~Answers(ns[p].name, ns[c].name)
    BY <2>1, <2>2, <2>4 DEF NodesInv
  <2>6. Answers(ns[p].name, Exact(s)) /\ Answers(ns[c].name, Exact(s))
    BY <1>1, <1>4, <2>1 DEF FirstNode
  <2>7. ns[c].name \in {Str(s, "blank"), Str(s, "blanks")}
    BY <2>3, <2>5, <2>6, SecondName
  <2> QED BY <1>4, <2>1, <2>7 DEF SecondSection
<1> QED BY <1>4 DEF s

LEMMA ChangedEffect ==
  ASSUME NEW ns \in TypedLists, NodesInv(ns), NEW ms, NEW o, Changed(ns, ms, o), ~BareNote(ms)
  PROVE  Effect(ms, o)
<1>0. ns \in Seq(Nodes)
  BY DEF TypedLists
<1>1. ASSUME NEW p, PairChanged(ns, ms, o, p) PROVE Effect(ms, o)
  <2>1. /\ p \in 1 .. Len(ns) /\ FirstNode(ns, p, o.section) /\ o.key \in Keys
        /\ Added(ns, ms, o, p) \/ \E q : Updated(ns, ms, o, p, q) \/ Deleted(ns, ms, o, p, q)
    BY <1>1 DEF PairChanged
  <2>2. CASE Added(ns, ms, o, p)
    <3>1. o.name = "add" /\ Get(ms, o.section, o.key, o.value)
      BY <1>0, <2>1, <2>2, AddedEffect DEF Added
    <3> QED BY <3>1 DEF Effect
  <2>3. ASSUME NEW q, Updated(ns, ms, o, p, q) PROVE Effect(ms, o)
    <3>1. o.name = "update" /\ Get(ms, o.section, o.key, o.value)
      BY <1>0, <2>1, <2>3, UpdatedEffect DEF Updated
    <3> QED BY <3>1 DEF Effect
  <2>4. ASSUME NEW q, Deleted(ns, ms, o, p, q) PROVE Effect(ms, o)
    <3>1. o.name = "delete" /\ (Get(ms, o.section, o.key, "") \/ SecondOf(ms, o.section, o.key))
      BY <2>1, <2>4, DeletedEffect DEF Deleted
    <3> QED BY <3>1 DEF Effect
  <2> QED BY <2>1, <2>2, <2>3, <2>4
<1>2. ASSUME NEW p, SectionDeleted(ns, ms, o, p) PROVE Effect(ms, o)
  <2>1. /\ o.name = "deleteSection"
        /\ (\A i \in DOMAIN ms : ~Answers(ms[i].name, Exact(o.section))) \/ SecondSection(ms, o.section)
    BY <1>2, SectionDeletedEffect DEF SectionDeleted
  <2> QED BY <2>1 DEF Effect
<1>3. CASE SectionAdded(ns, ms, o)
  <2> DEFINE L == Len(ns) + 1
             name == Exact(o.section)
  <2>1. o.name = "addSection" /\ name \in Strings /\ ms = listIniFileNode_insert(ns, Node(FALSE, name))
    BY <1>3, TextsAssumption DEF SectionAdded, Exact, Str, Strings
  <2>n. Answers(name, name) /\ Node(FALSE, name).name = name
    BY DEF Answers, Node
  <2> HIDE DEF name
  <2>2. DOMAIN ms = 1 .. L /\ ms[L] = Node(FALSE, name)
    BY <1>0, <2>1, AppendNode, Zenon
  <2>3. L \in DOMAIN ms
    BY <1>0, <2>2
  <2> HIDE DEF L
  <2>4. \E i \in DOMAIN ms : Answers(ms[i].name, name)
    BY <2>n, <2>2, <2>3
  <2> QED BY <2>1, <2>4 DEF Effect, name
<1> QED BY <1>1, <1>2, <1>3 DEF Changed

LEMMA EffectNext == TypeInv /\ FileInv /\ EffectInv /\ [Next]_vars => EffectInv'
<1> SUFFICES ASSUME TypeInv, FileInv, EffectInv, [Next]_vars PROVE EffectInv'
  OBVIOUS
<1>0. nodes \in TypedLists /\ nodes \in Seq(Nodes) /\ NodesInv(nodes)
  BY DEF TypeInv, TypeOK, TypedLists, FileInv
<1>1. CASE initIniFile
  <2>1. op'.name = "init"
    BY <1>1 DEF initIniFile
  <2> QED BY <2>1 DEF EffectInv, Effect
<1>2. CASE Call
  <2>1. Called /\ (Refused \/ Done \/ Dangles)
    BY <1>0, <1>2, CallIs
  <2>2. CASE Refused
    BY <2>2 DEF Refused, EffectInv
  <2>3. CASE Done
    <3>1. ~BareNote(nodes') => Effect(nodes', op')
      BY <1>0, <2>3, ChangedEffect DEF Done
    <3>2. ~BareNote(nodes)' => Effect(nodes, op)'
      BY <3>1 DEF BareNote, Effect
    <3> QED BY <3>2 DEF EffectInv
  <2>4. CASE Dangles
    BY <2>4 DEF Dangles, EffectInv
  <2> QED BY <2>1, <2>2, <2>3, <2>4
<1>3. CASE updateIniFile
  <2>1. nodes' = nodes /\ op' = op /\ ret' = ret /\ freed' = freed /\ pc # "closed"
    BY <1>3 DEF updateIniFile, Truncate, WriteLine, CloseFile, OpenFails, WriteFails
  <2> QED BY <2>1 DEF EffectInv
<1>4. CASE exitOperationIniFile \/ Crash
  BY <1>4 DEF exitOperationIniFile, Crash, Closed, EffectInv
<1>5. CASE UNCHANGED vars
  BY <1>5 DEF vars, EffectInv
<1> QED BY <1>1, <1>2, <1>3, <1>4, <1>5 DEF Next

LEMMA EffectAlways == Spec => []EffectInv
<1>1. Init => EffectInv
  BY DEF Init, EffectInv
<1> QED BY <1>1, FileAlways, EffectNext, TypeAlways, PTL DEF Spec

(* What is in the list is in what the file carries of it.                  *)
LEMMA CarriedPairsIs ==
  ASSUME NEW ps \in Seq(Pairs)
  PROVE  /\ CarriedPairs(ps) \in Seq(Pairs) /\ DOMAIN CarriedPairs(ps) = 1 .. Len(ps)
         /\ \A j \in 1 .. Len(ps) : /\ CarriedPairs(ps)[j].name = ps[j].name
                                    /\ CarriedPairs(ps)[j].value = ps[j].value
<1> DEFINE F(j) == [ps[j] EXCEPT !.nl = FALSE]
<1>1. CarriedPairs(ps) = [j \in 1 .. Len(ps) |-> F(j)] /\ Len(ps) \in Nat
  BY DEF CarriedPairs
<1>2. ASSUME NEW j \in 1 .. Len(ps) PROVE F(j) \in Pairs /\ F(j).name = ps[j].name /\ F(j).value = ps[j].value
  <2>1. ps[j] \in Pairs
    BY ElementOfSeq
  <2> QED BY <2>1 DEF Pairs
<1> HIDE DEF F
<1> QED BY <1>1, <1>2

LEMMA CarriedTyped ==
  ASSUME NEW ns \in Seq(Nodes)
  PROVE  /\ Carried(ns) \in Seq(Nodes) /\ DOMAIN Carried(ns) = 1 .. Len(ns)
         /\ \A i \in 1 .. Len(ns) : /\ Carried(ns)[i].name = ns[i].name
                                    /\ Carried(ns)[i].pairs = CarriedPairs(ns[i].pairs)
<1> DEFINE ms == Carried(ns)
<1>1. /\ DOMAIN ms = 1 .. Len(ns) /\ Len(ns) \in Nat /\ ms = [i \in 1 .. Len(ns) |-> ms[i]]
      /\ \A i \in 1 .. Len(ns) : ms[i] = [ns[i] EXCEPT !.pairs = CarriedPairs(ns[i].pairs)]
  BY CarriedIs
<1> HIDE DEF ms
<1>2. ASSUME NEW i \in 1 .. Len(ns)
      PROVE  ms[i] \in Nodes /\ ms[i].name = ns[i].name /\ ms[i].pairs = CarriedPairs(ns[i].pairs)
  <2>1. ns[i] \in Nodes /\ ns[i].pairs \in Seq(Pairs)
    BY PairsOf
  <2>2. CarriedPairs(ns[i].pairs) \in Seq(Pairs)
    BY <2>1, CarriedPairsIs
  <2>3. ms[i] = [ns[i] EXCEPT !.pairs = CarriedPairs(ns[i].pairs)]
    BY <1>1
  <2> QED BY <2>1, <2>2, <2>3 DEF Nodes
<1>3. ms \in Seq(Nodes)
  BY <1>1, <1>2
<1> QED BY <1>1, <1>2, <1>3 DEF ms

LEMMA CarriedGet ==
  ASSUME NEW ns \in Seq(Nodes), NEW s, NEW k, NEW v, Get(ns, s, k, v)
  PROVE  Get(Carried(ns), s, k, v)
<1> DEFINE ms == Carried(ns)
<1>1. /\ DOMAIN ms = 1 .. Len(ns) /\ DOMAIN ns = 1 .. Len(ns)
      /\ \A i \in 1 .. Len(ns) : ms[i].name = ns[i].name /\ ms[i].pairs = CarriedPairs(ns[i].pairs)
  BY CarriedTyped
<1> HIDE DEF ms
<1>2. CASE (\A i \in DOMAIN ns : ~Answers(ns[i].name, Exact(s))) /\ v = ""
  BY <1>1, <1>2 DEF Get, ms
<1>3. ASSUME NEW p \in DOMAIN ns, FirstNode(ns, p, s), Lookup(ns[p].pairs, k, v) PROVE Get(ms, s, k, v)
  <2> DEFINE ps == ns[p].pairs
             qs == CarriedPairs(ps)
  <2>1. ps \in Seq(Pairs) /\ ms[p].pairs = qs /\ p \in DOMAIN ms
    BY <1>1, <1>3, PairsOf
  <2>p. Lookup(ps, k, v)
    BY <1>3
  <2> HIDE DEF ps
  <2>2. /\ DOMAIN qs = 1 .. Len(ps) /\ DOMAIN ps = 1 .. Len(ps)
        /\ \A j \in 1 .. Len(ps) : qs[j].name = ps[j].name /\ qs[j].value = ps[j].value
    BY <2>1, CarriedPairsIs
  <2> HIDE DEF qs
  <2>3. \A j \in DOMAIN ps : FirstFor(ps, j, k) => FirstFor(qs, j, k)
    BY <2>2 DEF FirstFor
  <2>4. Lookup(qs, k, v)
    BY <2>2, <2>3, <2>p DEF Lookup
  <2>5. FirstNode(ms, p, s)
    BY <1>1, <1>3 DEF FirstNode
  <2> QED BY <2>1, <2>4, <2>5 DEF Get
<1> QED BY <1>2, <1>3 DEF Get, ms

LEMMA CarriedFinds ==
  ASSUME NEW ns \in Seq(Nodes), NEW s
  PROVE  findIniFileNode(Carried(ns), Exact(s)) # 0 <=> \E i \in DOMAIN ns : Answers(ns[i].name, Exact(s))
<1> DEFINE ms == Carried(ns)
           f == findIniFileNode(ms, Exact(s))
<1>1. /\ ms \in Seq(Nodes) /\ DOMAIN ms = 1 .. Len(ns) /\ DOMAIN ns = 1 .. Len(ns)
      /\ \A i \in 1 .. Len(ns) : ms[i].name = ns[i].name
  BY CarriedTyped
<1> HIDE DEF ms
<1>2. /\ f = 0 => \A i \in DOMAIN ms : ~Answers(ms[i].name, Exact(s))
      /\ f # 0 => f \in 1 .. Len(ms) /\ FirstNode(ms, f, s)
  BY <1>1, FoundNode
<1> HIDE DEF f
<1>3. f # 0 => f \in DOMAIN ms /\ Answers(ms[f].name, Exact(s))
  BY <1>1, <1>2 DEF FirstNode
<1>4. f # 0 <=> \E i \in DOMAIN ns : Answers(ns[i].name, Exact(s))
  BY <1>1, <1>2, <1>3
<1> QED BY <1>4 DEF f, ms

LEMMA Succeeds == TypeInv /\ ReopenAgrees /\ EffectInv => SuccessIsInFile
<1> SUFFICES ASSUME TypeInv, ReopenAgrees, EffectInv,
                    pc = "idle" /\ ret = 0 /\ wret = 0 /\ ~freed /\ ~BareNote(nodes) /\ Fits(disk.lines)
             PROVE  SuccessIsInFile
  BY DEF SuccessIsInFile
<1> DEFINE there == readIniFile(disk).nodes
           s == op.section
           k == op.key
           v == op.value
<1>1. there = Carried(nodes)
  BY DEF ReopenAgrees, Result
<1>2. nodes \in Seq(Nodes) /\ Effect(nodes, op)
  BY DEF TypeInv, TypeOK, EffectInv
<1>3. there \in Seq(Nodes)
  BY <1>1, <1>2, CarriedTyped
<1> HIDE DEF there, s, k, v
<1>4. \A x : Get(nodes, s, k, x) => getValueOfKey(there, s, k) = x
  BY <1>1, <1>2, <1>3, CarriedGet, GetIs
<1>5. op.name \in {"update", "add"} => getValueOfKey(there, s, k) = v
  BY <1>2, <1>4 DEF Effect, s, k, v
<1>6. op.name = "delete" => getValueOfKey(there, s, k) = "" \/ SecondOf(nodes, s, k)
  BY <1>2, <1>4 DEF Effect, s, k
<1>7. findIniFileNode(there, Exact(s)) # 0 <=> \E i \in DOMAIN nodes : Answers(nodes[i].name, Exact(s))
  BY <1>1, <1>2, CarriedFinds
<1>8. op.name = "addSection" => findIniFileNode(there, Exact(s)) # 0
  BY <1>2, <1>7 DEF Effect, s
<1>9. op.name = "deleteSection" => ~(findIniFileNode(there, Exact(s)) # 0) \/ SecondSection(nodes, s)
  BY <1>2, <1>7 DEF Effect, s
<1> QED BY <1>5, <1>6, <1>8, <1>9 DEF SuccessIsInFile, there, s, k, v

(* An operation that returned 0, and whose update was written in lines     *)
(* that fit, is in the file: initIniFile would give the value that was     *)
(* set, the section that was added, and neither the key nor the section    *)
(* that was deleted, unless the file was written by hand with it twice.    *)
THEOREM SuccessReachesTheFile == Spec => []SuccessIsInFile
  BY Succeeds, ReopeningAgrees, EffectAlways, TypeAlways, PTL
=============================================================================
