--------------------------- MODULE IniFileProofs ---------------------------
(***************************************************************************)
(* Proofs about IniFile for all names, files, sizes of the node arrays and *)
(* numbers of operations and crashes.                                      *)
(***************************************************************************)
EXTENDS IniFile, FiniteSetTheorems, SequenceTheorems, TLAPS

-----------------------------------------------------------------------------
(* Sets of line numbers                                                    *)

LEMMA LeastExists ==
  ASSUME NEW T \in SUBSET Nat, T # {} PROVE \E x \in T : \A y \in T : x <= y
<1>1. PICK m \in T : \A y \in T : <<y, m>> \notin OpToRel(<, Nat)
  BY WFMin, NatLessThanWellFounded, Zenon
<1>2. \A y \in T : ~(y < m)
  BY <1>1, Zenon DEF OpToRel
<1> QED
  BY <1>2

LEMMA LeastIn ==
  ASSUME NEW T \in SUBSET Nat, T # {}
  PROVE  Least(T) \in T /\ \A y \in T : Least(T) <= y
BY LeastExists DEF Least

(* A bounded set of line numbers has a last one.                           *)
LEMMA GreatestExists ==
  ASSUME NEW L \in Nat, NEW T, \A j \in T : j \in 1 .. L, T # {}
  PROVE  \E x \in T : \A y \in T : y <= x
<1> DEFINE D == {n \in Nat : \A y \in T : y <= n}
<1>0. \A y \in T : y \in Nat /\ 1 <= y /\ y <= L
  OBVIOUS
<1>1. D \in SUBSET Nat /\ L \in D
  OBVIOUS
<1>2. PICK m \in D : \A y \in D : m <= y
  BY <1>1, LeastExists
<1>3. ASSUME m \notin T PROVE FALSE
  <2>1. m # 0
    BY <1>0, <1>2
  <2>2. m \in Nat /\ m - 1 \in Nat
    BY <1>2, <2>1
  <2>3. \A y \in T : y <= m - 1
    BY <1>0, <1>2, <1>3, <2>2
  <2> QED
    BY <1>2, <2>2, <2>3
<1> QED
  BY <1>2, <1>3

LEMMA Finite ==
  ASSUME NEW L \in Nat, NEW T, \A j \in T : j \in 1 .. L
  PROVE  IsFiniteSet(T) /\ Cardinality(T) \in Nat
<1>1. IsFiniteSet(1 .. L) /\ T \in SUBSET (1 .. L)
  BY FS_Interval
<1>2. IsFiniteSet(T)
  BY <1>1, FS_Subset
<1> QED
  BY <1>2, FS_CardinalityType

(* The lines of K up to line i; how many they are is the place of i in K.  *)
Until(K, i) == {j \in K : j <= i}
Rank(K, i) == Cardinality(Until(K, i))

LEMMA RankType ==
  ASSUME NEW L \in Nat, NEW K, \A j \in K : j \in 1 .. L, NEW i
  PROVE  IsFiniteSet(Until(K, i)) /\ Rank(K, i) \in Nat /\ Rank(K, i) <= Cardinality(K)
<1>1. IsFiniteSet(K) /\ Until(K, i) \in SUBSET K
  BY Finite DEF Until
<1> QED
  BY <1>1, FS_Subset, FS_CardinalityType DEF Rank

(* One line further the rank grows by one on a line of K, and stays on any *)
(* other.                                                                  *)
LEMMA RankNext ==
  ASSUME NEW L \in Nat, NEW K, \A j \in K : j \in 1 .. L, NEW i \in Nat
  PROVE  Rank(K, i + 1) = IF i + 1 \in K THEN Rank(K, i) + 1 ELSE Rank(K, i)
<1>0. \A j \in K : j \in Nat /\ 1 <= j /\ j <= L
  OBVIOUS
<1>1. IsFiniteSet(Until(K, i))
  BY RankType
<1>2. CASE i + 1 \in K
  <2>1. Until(K, i + 1) = Until(K, i) \cup {i + 1} /\ i + 1 \notin Until(K, i)
    BY <1>0, <1>2 DEF Until
  <2>2. Cardinality(Until(K, i) \cup {i + 1}) = Cardinality(Until(K, i)) + 1
    BY <1>1, <2>1, FS_AddElement
  <2>3. Rank(K, i + 1) = Rank(K, i) + 1
    BY <2>1, <2>2 DEF Rank
  <2> QED
    BY <1>2, <2>3
<1>3. CASE i + 1 \notin K
  <2>1. Until(K, i + 1) = Until(K, i)
    BY <1>0, <1>3 DEF Until
  <2>2. Rank(K, i + 1) = Rank(K, i)
    BY <2>1 DEF Rank
  <2> QED
    BY <1>3, <2>2
<1> QED
  BY <1>2, <1>3

LEMMA RankGrows ==
  ASSUME NEW L \in Nat, NEW K, \A j \in K : j \in 1 .. L, NEW i \in Nat, NEW j \in K, i < j
  PROVE  Rank(K, i) < Rank(K, j)
<1>0. \A k \in K : k \in Nat /\ 1 <= k /\ k <= L
  OBVIOUS
<1>1. IsFiniteSet(Until(K, i)) /\ IsFiniteSet(Until(K, j)) /\ Rank(K, i) \in Nat /\ Rank(K, j) \in Nat
  BY RankType
<1>2. Until(K, i) \in SUBSET Until(K, j) /\ j \in Until(K, j) /\ j \notin Until(K, i)
  BY <1>0 DEF Until
<1>3. /\ Cardinality(Until(K, i)) <= Cardinality(Until(K, j))
      /\ Cardinality(Until(K, i)) # Cardinality(Until(K, j))
  BY <1>1, <1>2, FS_Subset
<1> QED
  BY <1>1, <1>3 DEF Rank

(* Every place up to the number of lines is the place of some line.        *)
LEMMA RankOnto ==
  ASSUME NEW L \in Nat, NEW K, \A j \in K : j \in 1 .. L, NEW n \in 1 .. Cardinality(K)
  PROVE  \E i \in K : Rank(K, i) = n
<1> DEFINE D == {i \in Nat : Rank(K, i) >= n}
<1>0. \A j \in K : j \in Nat /\ 1 <= j /\ j <= L
  OBVIOUS
<1>r. \A i \in Nat : Rank(K, i) \in Nat
  BY RankType
<1>1. L \in D
  <2>1. Until(K, L) = K
    BY <1>0 DEF Until
  <2> QED
    BY <2>1 DEF Rank
<1>2. PICK m \in D : \A y \in D : m <= y
  BY <1>1, LeastExists
<1>3. m # 0
  <2>1. Until(K, 0) = {}
    BY <1>0 DEF Until
  <2>2. Rank(K, 0) = 0
    BY <2>1, FS_EmptySet DEF Rank
  <2> QED
    BY <1>2, <2>2
<1>4. m - 1 \in Nat /\ m - 1 \notin D
  BY <1>2, <1>3
<1>5. Rank(K, (m - 1) + 1) = IF (m - 1) + 1 \in K THEN Rank(K, m - 1) + 1 ELSE Rank(K, m - 1)
  BY <1>4, RankNext
<1>6. (m - 1) + 1 = m
  OBVIOUS
<1>7. m \in K /\ Rank(K, m) = n
  BY <1>r, <1>2, <1>4, <1>5, <1>6
<1> QED
  BY <1>7

-----------------------------------------------------------------------------
(* The lines the rewritings put together                                   *)

LEMMA LineTypes ==
  /\ \A t \in Kinds \ {"section", "bare", "keyvalue"} : Plain(t) \in Line
  /\ \A s \in Sections : Header(s) \in Line
  /\ \A k \in Keys, v \in Values : Pair(k, v) \in Line
  /\ \A l \in Line, v \in Values : [l EXCEPT !.val = v] \in Line
BY DEF Plain, Header, Pair, Line, Kinds

LEMMA PartTypes ==
  ASSUME NEW lines \in Seq(Line), NEW i \in 0 .. Len(lines)
  PROVE  /\ UpTo(lines, i) \in Seq(Line) /\ Len(UpTo(lines, i)) = i
         /\ \A n \in 1 .. i : UpTo(lines, i)[n] = lines[n]
         /\ After(lines, i) \in Seq(Line) /\ Len(After(lines, i)) = Len(lines) - i
         /\ \A n \in 1 .. Len(lines) - i : After(lines, i)[n] = lines[i + n]
<1>1. /\ UpTo(lines, i) \in Seq(Line) /\ Len(UpTo(lines, i)) = i
      /\ \A n \in 1 .. i : UpTo(lines, i)[n] = lines[n]
  BY SubSeqProperties DEF UpTo
<1>2. /\ After(lines, i) \in Seq(Line) /\ Len(After(lines, i)) = Len(lines) - i
      /\ \A n \in 1 .. Len(lines) - i : After(lines, i)[n] = lines[i + n]
  BY SubSeqProperties DEF After
<1> QED
  BY <1>1, <1>2

LEMMA Indices ==
  ASSUME NEW lines \in Seq(Line)
  PROVE  /\ DOMAIN lines = 1 .. Len(lines) /\ Len(lines) \in Nat
         /\ Heads(lines) \in SUBSET (1 .. Len(lines)) /\ Pairs(lines) \in SUBSET (1 .. Len(lines))
         /\ Errors(lines) \in SUBSET (1 .. Len(lines))
         /\ \A s : Named(lines, s) \in SUBSET Heads(lines)
         /\ \A i \in 1 .. Len(lines) : lines[i] \in Line
BY DEF Heads, Pairs, Errors, Named

(* Without keeps the lines that are not in S, in their order.              *)
Kept(lines, S) == {i \in DOMAIN lines : i \notin S}
Nth(K, n) == CHOOSE i \in K : Rank(K, i) = n

LEMMA NthType ==
  ASSUME NEW L \in Nat, NEW K, \A j \in K : j \in 1 .. L, NEW n \in 1 .. Cardinality(K)
  PROVE  Nth(K, n) \in K /\ Rank(K, Nth(K, n)) = n
BY RankOnto DEF Nth

LEMMA WithoutIs ==
  ASSUME NEW lines \in Seq(Line), NEW S
  PROVE  LET K == Kept(lines, S) IN
         /\ K \in SUBSET (1 .. Len(lines)) /\ Cardinality(K) \in Nat
         /\ Without(lines, S) = [n \in 1 .. Cardinality(K) |-> lines[Nth(K, n)]]
         /\ Without(lines, S) \in Seq(Line)
         /\ Len(Without(lines, S)) = Cardinality(K)
<1> DEFINE K == Kept(lines, S)
<1>1. K \in SUBSET (1 .. Len(lines)) /\ Len(lines) \in Nat
  BY DEF Kept
<1>2. Cardinality(K) \in Nat
  BY <1>1, Finite
<1>3. Without(lines, S) = [n \in 1 .. Cardinality(K) |-> lines[Nth(K, n)]]
  BY DEF Without, Kept, Nth, Rank, Until
<1>4. \A n \in 1 .. Cardinality(K) : Nth(K, n) \in K
  BY <1>1, NthType
<1>5. \A n \in 1 .. Cardinality(K) : lines[Nth(K, n)] \in Line
  BY <1>1, <1>4
<1>6. Without(lines, S) \in Seq(Line) /\ Len(Without(lines, S)) = Cardinality(K)
  <2> HIDE DEF K
  <2> QED
    BY <1>2, <1>3, <1>5
<1> QED
  BY <1>1, <1>2, <1>3, <1>6
-----------------------------------------------------------------------------
(* Types of what is read and of what is written                            *)

LEMMA ReadErrorType ==
  ASSUME NEW lines \in Seq(Line) PROVE ReadError(lines) \in {0, -2, -6}
<1>1. \A i : LineError(lines, i) \in {0, -2, -6}
  BY DEF LineError, INIFILE_NUM_OUT_ARRAY, INIFILE_FORMAT_ERROR
<1> QED
  BY <1>1 DEF ReadError

(* The pairs with key k under the header of section s.                     *)
Under(lines, s, k) ==
  {p \in Pairs(lines) : lines[p].key = k /\ \E h \in Heads(lines) : lines[h].sec = s /\ Together(lines, h, p)}

LEMMA ReadNodesIs ==
  ASSUME NEW lines \in Seq(Line)
  PROVE  /\ ReadNodes(lines) \in Nodes
         /\ \A s \in Sections : ReadNodes(lines)[s] = NULL <=> Named(lines, s) = {}
         /\ \A s \in Sections, k \in Keys : Named(lines, s) # {} =>
              ReadNodes(lines)[s][k] = IF Under(lines, s, k) = {} THEN NULL
                                       ELSE lines[Least(Under(lines, s, k))].val
<1> DEFINE Row(s) == [k \in Keys |-> IF Under(lines, s, k) = {} THEN NULL
                                     ELSE lines[Least(Under(lines, s, k))].val]
<1>1. ReadNodes(lines) = [s \in Sections |-> IF Named(lines, s) = {} THEN NULL ELSE Row(s)]
  BY DEF ReadNodes, Under, Named
<1>2. ASSUME NEW s \in Sections, NEW k \in Keys, Under(lines, s, k) # {}
      PROVE  lines[Least(Under(lines, s, k))].val \in Values
  <2>1. Under(lines, s, k) \in SUBSET Nat
    BY Indices DEF Under
  <2>2. Least(Under(lines, s, k)) \in Pairs(lines)
    BY <1>2, <2>1, LeastIn DEF Under
  <2> QED
    BY <2>2, Indices DEF Pairs, Line
<1>3. \A s \in Sections : Row(s) \in Node
  BY <1>2 DEF Node
<1>4. \A s \in Sections : Row(s) # NULL
  BY <1>3, NullAssumption
<1>5. \A s \in Sections, k \in Keys :
        Row(s)[k] = IF Under(lines, s, k) = {} THEN NULL ELSE lines[Least(Under(lines, s, k))].val
  OBVIOUS
<1> HIDE DEF Row
<1> QED
  BY <1>1, <1>3, <1>4, <1>5 DEF Nodes

Good(w) == w.out \in Seq(Line) /\ w.res \in {-2, -1, 0, 1}

LEMMA WrittenIs ==
  ASSUME NEW lines, NEW S, NEW new \in Seq(Line)
  PROVE  /\ Good(Written(lines, S, new)) /\ Written(lines, S, new).out = new
         /\ Errors(lines) = {} => Written(lines, S, new).res = 0
BY DEF Written, Good, INIFILE_FORMAT_ERROR

LEMMA UpdateType ==
  ASSUME NEW lines \in Seq(Line), NEW s \in Sections, NEW k \in Keys, NEW v \in Values
  PROVE  Good(RewriteAfterUpdate(lines, s, k, v))
<1> DEFINE hits == {p \in Pairs(lines) : lines[p].key = k /\ \E h \in Named(lines, s) : h < p}
           p == Least(hits)
           new == UpTo(lines, p - 1) \o <<[lines[p] EXCEPT !.val = v]>>
                    \o (IF lines[p].note THEN <<Plain("blank")>> ELSE <<>>) \o After(lines, p)
<1>1. ASSUME hits # {} PROVE new \in Seq(Line)
  <2>1. hits \in SUBSET Nat
    BY Indices
  <2>a. p \in hits
    <3> HIDE DEF hits
    <3> QED
      BY <1>1, <2>1, LeastIn
  <2>b. p \in 1 .. Len(lines)
    <3> HIDE DEF p
    <3> QED
      BY <2>a, Indices
  <2>2. p \in 1 .. Len(lines) /\ p - 1 \in 0 .. Len(lines) /\ p \in 0 .. Len(lines)
    <3> HIDE DEF p
    <3> QED
      BY <2>b, Indices
  <2>3. UpTo(lines, p - 1) \in Seq(Line) /\ After(lines, p) \in Seq(Line)
    BY <2>2, PartTypes
  <2>4. [lines[p] EXCEPT !.val = v] \in Line /\ Plain("blank") \in Line
    BY <2>2, Indices, LineTypes DEF Kinds
  <2> HIDE DEF p
  <2> QED
    BY <2>3, <2>4
<1>2. RewriteAfterUpdate(lines, s, k, v) = Written(lines, hits, IF hits = {} THEN lines ELSE new)
  BY DEF RewriteAfterUpdate
<1> HIDE DEF hits, new
<1> QED
  BY <1>1, <1>2, WrittenIs

LEMMA AddType ==
  ASSUME NEW lines \in Seq(Line), NEW s \in Sections, NEW k \in Keys, NEW v \in Values
  PROVE  Good(RewriteAfterAdd(lines, s, k, v))
<1> DEFINE h == Least(Named(lines, s))
           cut == UpTo(lines, h - 1) \o <<Plain("error")>>
           new == UpTo(lines, h) \o <<Pair(k, v)>> \o After(lines, h)
<1>1. ASSUME Named(lines, s) # {} PROVE cut \in Seq(Line) /\ new \in Seq(Line)
  <2>1. Named(lines, s) \in SUBSET Nat
    BY Indices
  <2>2. h \in 1 .. Len(lines) /\ h - 1 \in 0 .. Len(lines) /\ h \in 0 .. Len(lines)
    BY <1>1, <2>1, LeastIn, Indices
  <2>3. UpTo(lines, h - 1) \in Seq(Line) /\ UpTo(lines, h) \in Seq(Line) /\ After(lines, h) \in Seq(Line)
    BY <2>2, PartTypes
  <2>4. Pair(k, v) \in Line /\ Plain("error") \in Line
    BY LineTypes DEF Kinds
  <2> HIDE DEF h
  <2> QED
    BY <2>3, <2>4
<1>2. RewriteAfterAdd(lines, s, k, v) =
        Written(lines, Named(lines, s),
                IF Named(lines, s) = {} THEN lines ELSE IF lines[h].type = "bare" THEN cut ELSE new)
  BY DEF RewriteAfterAdd
<1> HIDE DEF h, cut, new
<1> QED
  BY <1>1, <1>2, WrittenIs

LEMMA AddSectionType ==
  ASSUME NEW lines \in Seq(Line), NEW s \in Sections
  PROVE  Good(RewriteAfterAddSection(lines, s))
<1>1. Header(s) \in Line /\ Plain("blank") \in Line
  BY LineTypes DEF Kinds
<1> QED
  BY <1>1 DEF RewriteAfterAddSection, Good

LEMMA DeleteType ==
  ASSUME NEW lines \in Seq(Line), NEW s \in Sections, NEW k, NEW w \in RewriteAfterDelete(lines, s, k)
  PROVE  Good(w)
<1> DEFINE gone == Dropped(lines, s, k)
           new == Without(lines, gone)
<1>1. new \in Seq(Line)
  BY WithoutIs
<1>2. PICK S : LET y == Written(lines, S, new) IN w = y \/ \E r \in {-1, 0, 1} : w = [y EXCEPT !.res = r]
  BY DEF RewriteAfterDelete
<1> HIDE DEF new
<1>3. Good(Written(lines, S, new))
  BY <1>1, WrittenIs
<1>4. \A r \in {-1, 0, 1} : Good([Written(lines, S, new) EXCEPT !.res = r])
  BY <1>1 DEF Written, Good
<1> QED
  BY <1>2, <1>3, <1>4
-----------------------------------------------------------------------------
(* What init_ini_file accepts                                              *)

FileOK(lines) ==
  /\ Cardinality(Heads(lines)) <= MaxSections /\ Cardinality(Pairs(lines)) <= MaxKeyvals
  /\ \A g, h \in Heads(lines) : g < h => lines[g].sec # lines[h].sec
  /\ \A p \in Pairs(lines) : \E h \in Heads(lines) : h < p
  /\ \A p, q \in Pairs(lines) : Together(lines, p, q) => lines[p].key # lines[q].key
  /\ Errors(lines) = {}

(* A set has at most N lines when fewer than N come before each of them.   *)
LEMMA AtMost ==
  ASSUME NEW L \in Nat, NEW K, \A j \in K : j \in 1 .. L, NEW N \in Nat
  PROVE  Cardinality(K) <= N <=> \A i \in K : Cardinality({j \in K : j < i}) < N
<1>1. IsFiniteSet(K) /\ Cardinality(K) \in Nat
  BY Finite
<1>2. ASSUME NEW i \in K
      PROVE  /\ IsFiniteSet({j \in K : j < i}) /\ Cardinality({j \in K : j < i}) \in Nat
             /\ Cardinality({j \in K : j < i}) < Cardinality(K)
  <2>1. {j \in K : j < i} \in SUBSET K /\ i \notin {j \in K : j < i}
    OBVIOUS
  <2>2. IsFiniteSet({j \in K : j < i}) /\ Cardinality({j \in K : j < i}) <= Cardinality(K)
    BY <1>1, <2>1, FS_Subset
  <2>3. Cardinality({j \in K : j < i}) # Cardinality(K)
    BY <1>1, <2>1, FS_Subset
  <2>4. Cardinality({j \in K : j < i}) \in Nat
    BY <2>2, FS_CardinalityType
  <2> QED
    BY <1>1, <2>2, <2>3, <2>4
<1>3. ASSUME Cardinality(K) <= N, NEW i \in K PROVE Cardinality({j \in K : j < i}) < N
  BY <1>1, <1>2, <1>3
<1>4. ASSUME \A i \in K : Cardinality({j \in K : j < i}) < N PROVE Cardinality(K) <= N
  <2>1. CASE K = {}
    BY <2>1, FS_EmptySet
  <2>2. CASE K # {}
    <3>1. PICK g \in K : \A y \in K : y <= g
      BY <2>2, GreatestExists
    <3>2. K = {j \in K : j < g} \cup {g}
      BY <3>1
    <3>3. IsFiniteSet({j \in K : j < g}) /\ Cardinality({j \in K : j < g}) \in Nat
      BY <1>2, <3>1
    <3>4. g \notin {j \in K : j < g}
      OBVIOUS
    <3>5. Cardinality({j \in K : j < g} \cup {g}) = Cardinality({j \in K : j < g}) + 1
      BY <3>3, <3>4, FS_AddElement
    <3> QED
      BY <1>4, <3>1, <3>2, <3>3, <3>5
  <2> QED
    BY <2>1, <2>2
<1> QED
  BY <1>3, <1>4

LEMMA NoLineError ==
  ASSUME NEW lines \in Seq(Line)
  PROVE  ReadError(lines) = 0 <=> \A i \in 1 .. Len(lines) : LineError(lines, i) = 0
<1> DEFINE bad == {i \in DOMAIN lines : LineError(lines, i) # 0}
<1>1. ReadError(lines) = IF bad = {} THEN 0 ELSE LineError(lines, Least(bad))
  BY DEF ReadError
<1>2. ASSUME bad # {} PROVE LineError(lines, Least(bad)) # 0
  <2>1. bad \in SUBSET Nat
    BY Indices
  <2>2. Least(bad) \in bad
    <3> HIDE DEF bad
    <3> QED
      BY <1>2, <2>1, LeastIn
  <2> QED
    BY <2>2
<1>3. bad = {} <=> \A i \in 1 .. Len(lines) : LineError(lines, i) = 0
  BY Indices
<1> HIDE DEF bad
<1> QED
  BY <1>1, <1>2, <1>3

LEMMA LineErrorIs ==
  ASSUME NEW lines \in Seq(Line), NEW i \in 1 .. Len(lines)
  PROVE  LineError(lines, i) = 0 <=>
           /\ i \in Heads(lines) =>
                /\ Cardinality({h \in Heads(lines) : h < i}) < MaxSections
                /\ \A h \in Heads(lines) : h < i => lines[h].sec # lines[i].sec
           /\ i \in Pairs(lines) =>
                /\ \E h \in Heads(lines) : h < i
                /\ Cardinality({p \in Pairs(lines) : p < i}) < MaxKeyvals
                /\ \A p \in Pairs(lines) : Together(lines, p, i) => lines[p].key # lines[i].key
           /\ i \notin Errors(lines)
<1> DEFINE heads == {h \in Heads(lines) : h < i}
           pairs == {p \in Pairs(lines) : p < i}
<1>1. Cardinality(heads) \in Nat /\ Cardinality(pairs) \in Nat
  <2>1. (\A j \in heads : j \in 1 .. Len(lines)) /\ (\A j \in pairs : j \in 1 .. Len(lines))
    BY Indices
  <2> HIDE DEF heads, pairs
  <2> QED
    BY <2>1, Indices, Finite
<1>2. CASE i \in Heads(lines)
  <2>1. i \notin Pairs(lines) /\ i \notin Errors(lines)
    BY <1>2 DEF Heads, Pairs, Errors
  <2>2. LineError(lines, i) = IF Cardinality(heads) >= MaxSections THEN INIFILE_NUM_OUT_ARRAY
                              ELSE IF \E h \in heads : lines[h].sec = lines[i].sec THEN INIFILE_FORMAT_ERROR
                              ELSE 0
    BY <1>2, <2>1 DEF LineError
  <2>3. LineError(lines, i) = 0 <=>
          Cardinality(heads) < MaxSections /\ ~ \E h \in heads : lines[h].sec = lines[i].sec
    <3> HIDE DEF heads, pairs
    <3> QED
      BY <1>1, <2>2, BoundsAssumption DEF INIFILE_NUM_OUT_ARRAY, INIFILE_FORMAT_ERROR
  <2> QED
    BY <1>2, <2>1, <2>3
<1>3. CASE i \in Pairs(lines)
  <2>1. i \notin Heads(lines) /\ i \notin Errors(lines)
    BY <1>3 DEF Heads, Pairs, Errors
  <2>2. LineError(lines, i) = IF heads = {} THEN INIFILE_FORMAT_ERROR
                              ELSE IF Cardinality(pairs) >= MaxKeyvals THEN INIFILE_NUM_OUT_ARRAY
                              ELSE IF \E p \in pairs : Together(lines, p, i) /\ lines[p].key = lines[i].key
                                   THEN INIFILE_FORMAT_ERROR
                              ELSE 0
    BY <1>3, <2>1 DEF LineError
  <2>3. LineError(lines, i) = 0 <=>
          /\ heads # {} /\ Cardinality(pairs) < MaxKeyvals
          /\ ~ \E p \in pairs : Together(lines, p, i) /\ lines[p].key = lines[i].key
    <3> HIDE DEF heads, pairs
    <3> QED
      BY <1>1, <2>2, BoundsAssumption DEF INIFILE_NUM_OUT_ARRAY, INIFILE_FORMAT_ERROR
  <2>4. \A p \in Pairs(lines) : Together(lines, p, i) => p \in pairs
    BY DEF Together
  <2> QED
    BY <1>3, <2>1, <2>3, <2>4
<1>4. CASE i \notin Heads(lines) /\ i \notin Pairs(lines)
  BY <1>4 DEF LineError, INIFILE_FORMAT_ERROR
<1> QED
  BY <1>2, <1>3, <1>4

LEMMA ReadOK ==
  ASSUME NEW lines \in Seq(Line)
  PROVE  ReadError(lines) = 0 <=> FileOK(lines)
<1>1. \A j : (j \in Heads(lines) \/ j \in Pairs(lines) \/ j \in Errors(lines)) => j \in 1 .. Len(lines)
  BY Indices
<1>2. /\ Cardinality(Heads(lines)) <= MaxSections
           <=> \A i \in Heads(lines) : Cardinality({h \in Heads(lines) : h < i}) < MaxSections
      /\ Cardinality(Pairs(lines)) <= MaxKeyvals
           <=> \A i \in Pairs(lines) : Cardinality({p \in Pairs(lines) : p < i}) < MaxKeyvals
  BY <1>1, AtMost, Indices, BoundsAssumption
<1>3. ASSUME ReadError(lines) = 0 PROVE FileOK(lines)
  <2>1. \A i \in 1 .. Len(lines) : LineError(lines, i) = 0
    BY <1>3, NoLineError
  <2> QED
    BY <1>1, <1>2, <2>1, LineErrorIs DEF FileOK
<1>4. ASSUME FileOK(lines) PROVE ReadError(lines) = 0
  <2>1. \A i \in 1 .. Len(lines) : LineError(lines, i) = 0
    BY <1>1, <1>2, <1>4, LineErrorIs DEF FileOK
  <2> QED
    BY <2>1, NoLineError
<1> QED
  BY <1>3, <1>4
-----------------------------------------------------------------------------
(* The nodes in use                                                        *)

SectionsOf(n) == {s \in Sections : n[s] # NULL}
KeysOf(n) == {sk \in Sections \X Keys : n[sk[1]] # NULL /\ n[sk[1]][sk[2]] # NULL}

LEMMA CountTypes ==
  ASSUME NEW n
  PROVE  /\ IsFiniteSet(SectionsOf(n)) /\ Cardinality(SectionsOf(n)) \in Nat
         /\ IsFiniteSet(KeysOf(n)) /\ Cardinality(KeysOf(n)) \in Nat
<1>1. IsFiniteSet(Sections \X Keys)
  BY NamesAssumption, FS_Product
<1>2. SectionsOf(n) \in SUBSET Sections /\ KeysOf(n) \in SUBSET (Sections \X Keys)
  BY DEF SectionsOf, KeysOf
<1>3. IsFiniteSet(SectionsOf(n)) /\ IsFiniteSet(KeysOf(n))
  BY <1>1, <1>2, NamesAssumption, FS_Subset
<1> QED
  BY <1>3, FS_CardinalityType

LEMMA OneMore ==
  ASSUME NEW S, IsFiniteSet(S), NEW x
  PROVE  /\ Cardinality(S) \in Nat /\ Cardinality(S \cup {x}) \in Nat
         /\ Cardinality(S \cup {x}) <= Cardinality(S) + 1
<1>1. Cardinality(S) \in Nat
  BY FS_CardinalityType
<1> QED
  BY <1>1, FS_AddElement

(* The header a line stands under is one.                                  *)
LEMMA OneHeader ==
  ASSUME NEW lines \in Seq(Line), NEW g \in Heads(lines), NEW h \in Heads(lines), NEW p \in 1 .. Len(lines),
         Together(lines, g, p), Together(lines, h, p)
  PROVE  g = h
BY Indices DEF Together

(* A file that is accepted fits into the arrays of nodes.                  *)
LEMMA ReadFits ==
  ASSUME NEW lines \in Seq(Line), FileOK(lines)
  PROVE  /\ Cardinality(SectionsOf(ReadNodes(lines))) <= MaxSections
         /\ Cardinality(KeysOf(ReadNodes(lines))) <= MaxKeyvals
<1> DEFINE n == ReadNodes(lines)
           f == [s \in SectionsOf(n) |-> Least(Named(lines, s))]
           g == [sk \in KeysOf(n) |-> Least(Under(lines, sk[1], sk[2]))]
<1>1. (\A j \in Heads(lines) : j \in 1 .. Len(lines)) /\ (\A j \in Pairs(lines) : j \in 1 .. Len(lines))
  BY Indices
<1>2. /\ IsFiniteSet(Heads(lines)) /\ Cardinality(Heads(lines)) \in Nat
      /\ IsFiniteSet(Pairs(lines)) /\ Cardinality(Pairs(lines)) \in Nat
  BY <1>1, Finite, Indices
<1>3. \A s \in SectionsOf(n) : s \in Sections /\ Named(lines, s) # {}
  BY ReadNodesIs DEF SectionsOf
<1>4. \A s : Named(lines, s) # {} => Least(Named(lines, s)) \in Named(lines, s)
  <2>1. \A s : Named(lines, s) \in SUBSET Nat
    BY Indices
  <2> QED
    BY <2>1, LeastIn
<1>5. f \in Injection(SectionsOf(n), Heads(lines))
  <2>1. \A s \in SectionsOf(n) : f[s] \in Heads(lines) /\ lines[f[s]].sec = s
    BY <1>3, <1>4 DEF Named
  <2>2. f \in [SectionsOf(n) -> Heads(lines)]
    BY <2>1
  <2> HIDE DEF f, n
  <2> QED
    BY <2>1, <2>2 DEF Injection, IsInjective
<1>6. \A sk \in KeysOf(n) : sk[1] \in Sections /\ sk[2] \in Keys /\ Under(lines, sk[1], sk[2]) # {}
  BY ReadNodesIs DEF KeysOf
<1>7. \A s, k : Under(lines, s, k) # {} => Least(Under(lines, s, k)) \in Under(lines, s, k)
  <2>1. \A s, k : Under(lines, s, k) \in SUBSET Nat
    BY Indices DEF Under
  <2> QED
    BY <2>1, LeastIn
<1>8. g \in Injection(KeysOf(n), Pairs(lines))
  <2>1. \A sk \in KeysOf(n) : g[sk] \in Under(lines, sk[1], sk[2])
    BY <1>6, <1>7
  <2>2. g \in [KeysOf(n) -> Pairs(lines)]
    BY <2>1 DEF Under
  <2>3. ASSUME NEW a \in KeysOf(n), NEW b \in KeysOf(n), g[a] = g[b] PROVE a = b
    <3> HIDE DEF g
    <3>1. lines[g[a]].key = a[2] /\ lines[g[a]].key = b[2] /\ g[a] \in 1 .. Len(lines)
      BY <1>1, <2>1, <2>3 DEF Under
    <3>2. PICK h \in Heads(lines) : lines[h].sec = a[1] /\ Together(lines, h, g[a])
      BY <2>1 DEF Under
    <3>3. PICK e \in Heads(lines) : lines[e].sec = b[1] /\ Together(lines, e, g[a])
      BY <2>1, <2>3 DEF Under
    <3>4. h = e
      BY <3>1, <3>2, <3>3, OneHeader
    <3>5. a \in Sections \X Keys /\ b \in Sections \X Keys
      BY DEF KeysOf
    <3>6. a = <<a[1], a[2]>> /\ b = <<b[1], b[2]>>
      BY <3>5
    <3> QED
      BY <3>1, <3>2, <3>3, <3>4, <3>6
  <2> HIDE DEF g, n
  <2> QED
    BY <2>2, <2>3 DEF Injection, IsInjective
<1> HIDE DEF f, g, n
<1>9. /\ Cardinality(SectionsOf(n)) <= Cardinality(Heads(lines))
      /\ Cardinality(KeysOf(n)) <= Cardinality(Pairs(lines))
  BY <1>2, <1>5, <1>8, FS_Injection
<1> QED
  BY <1>2, <1>9, CountTypes, BoundsAssumption DEF FileOK, n

-----------------------------------------------------------------------------
(* Type correctness, and what the two files are at each step of a          *)
(* rewriting: the .tmp is complete before the old file goes.               *)

Safekept ==
  /\ pc # "idle" => open
  /\ (open /\ pc = "idle") => disk # Missing
  /\ pc \in {"write", "remove"} => disk # Missing /\ disk = before
  /\ pc \in {"remove", "move"} => tmp = out
  /\ pc = "move" => disk = Missing
  /\ NothingLost

IInv == TypeOK /\ Safekept

(* The conjuncts of TypeOK.                                                *)
NodesOK == nodes \in Nodes /\ SectionCount <= MaxSections /\ KeyCount <= MaxKeyvals
FilesOK == /\ disk \in Seq(Line) \cup {Missing} /\ tmp \in Seq(Line) \cup {Missing}
           /\ out \in Seq(Line) /\ before \in Seq(Line)
StatusOK == /\ open \in BOOLEAN /\ drift \in BOOLEAN /\ pc \in {"idle", "write", "remove", "move"}
            /\ ret \in -15 .. 1 /\ res \in {-2, -1, 0, 1}
            /\ ops \in 0 .. MaxOps /\ crashes \in 0 .. MaxCrashes /\ fails \in 0 .. MaxFails

LEMMA TypeParts == TypeOK <=> NodesOK /\ FilesOK /\ StatusOK
BY DEF TypeOK, NodesOK, FilesOK, StatusOK

LEMMA NodesFit ==
  ASSUME nodes \in Nodes, Cardinality(SectionsOf(nodes)) <= MaxSections,
         Cardinality(KeysOf(nodes)) <= MaxKeyvals
  PROVE  NodesOK
BY DEF NodesOK, SectionCount, KeyCount, SectionsOf, KeysOf

LEMMA ClosedFits ==
  /\ Closed \in Nodes /\ SectionsOf(Closed) = {} /\ KeysOf(Closed) = {}
  /\ Cardinality(SectionsOf(Closed)) <= MaxSections /\ Cardinality(KeysOf(Closed)) <= MaxKeyvals
<1>1. Closed \in Nodes /\ SectionsOf(Closed) = {} /\ KeysOf(Closed) = {}
  BY DEF Closed, Nodes, SectionsOf, KeysOf
<1>2. Cardinality({}) = 0
  BY FS_EmptySet
<1> QED
  BY <1>1, <1>2, BoundsAssumption

LEMMA InitInv == Init => IInv
<1> SUFFICES ASSUME Init PROVE IInv
  OBVIOUS
<1>1. NodesOK
  BY ClosedFits, NodesFit DEF Init
<1>3. disk \in Seq(Line) /\ disk # Missing
  BY FilesAssumption DEF Init
<1>4. FilesOK
  BY <1>3 DEF Init, FilesOK
<1>2. /\ open = FALSE /\ drift = FALSE /\ pc = "idle" /\ ret = 0 /\ res = 0
      /\ ops = 0 /\ crashes = 0 /\ fails = 0
  BY DEF Init
<1>5. StatusOK
  <2>1. open \in BOOLEAN /\ drift \in BOOLEAN /\ pc \in {"idle", "write", "remove", "move"}
    BY <1>2
  <2>2. ret \in -15 .. 1 /\ res \in {-2, -1, 0, 1}
    BY <1>2
  <2>3. ops \in 0 .. MaxOps /\ crashes \in 0 .. MaxCrashes /\ fails \in 0 .. MaxFails
    BY <1>2, BoundsAssumption
  <2> QED
    BY <2>1, <2>2, <2>3 DEF StatusOK
<1>6. Safekept
  BY <1>3 DEF Init, Safekept, NothingLost
<1> QED
  BY <1>1, <1>4, <1>5, <1>6, TypeParts DEF IInv

(* A step that leaves the nodes and the files alone.                       *)
LEMMA KeepsAll ==
  ASSUME IInv, UNCHANGED <<open, nodes, disk, tmp, pc, out, before>>, StatusOK'
  PROVE  IInv'
<1>1. NodesOK /\ FilesOK /\ Safekept
  BY TypeParts DEF IInv
<1>2. NodesOK' /\ FilesOK'
  BY <1>1 DEF NodesOK, FilesOK, SectionCount, KeyCount
<1>3. Safekept'
  BY <1>1 DEF Safekept, NothingLost
<1> QED
  BY <1>2, <1>3, TypeParts DEF IInv, TypeOK, NodesOK, FilesOK, StatusOK

LEMMA RewriteStep ==
  ASSUME IInv, Ready, NEW n \in Nodes, Cardinality(SectionsOf(n)) <= MaxSections,
         Cardinality(KeysOf(n)) <= MaxKeyvals, NEW w, Good(w), NEW off \in BOOLEAN, Rewrite(n, w, off)
  PROVE  IInv'
<1>1. FilesOK /\ StatusOK /\ Safekept
  BY TypeParts DEF IInv
<1>2. disk \in Seq(Line) /\ disk # Missing
  BY <1>1 DEF Ready, Safekept, FilesOK
<1>3. NodesOK'
  BY DEF Rewrite, NodesOK, SectionCount, KeyCount, SectionsOf, KeysOf
<1>4. FilesOK'
  BY <1>1, <1>2 DEF Rewrite, FilesOK, Good
<1>5. StatusOK'
  BY <1>1, BoundsAssumption DEF Rewrite, StatusOK, Good
<1>6. Safekept'
  BY <1>1, <1>2 DEF Rewrite, Safekept, NothingLost, Ready
<1> QED
  BY <1>3, <1>4, <1>5, <1>6 DEF IInv, TypeOK, NodesOK, FilesOK, StatusOK

(* One value, one section: how many nodes are in use afterwards.           *)
Put(n, s, k, v) == [n EXCEPT ![s][k] = v]

LEMMA PutKey ==
  ASSUME NEW n \in Nodes, NEW s \in Sections, n[s] # NULL, NEW k \in Keys, NEW v \in Values \cup {NULL}
  PROVE  /\ Put(n, s, k, v) \in Nodes /\ SectionsOf(Put(n, s, k, v)) = SectionsOf(n)
         /\ KeysOf(Put(n, s, k, v)) = IF v = NULL THEN KeysOf(n) \ {<<s, k>>} ELSE KeysOf(n) \cup {<<s, k>>}
<1> DEFINE m == Put(n, s, k, v)
<1>1. n[s] \in Node
  BY DEF Nodes
<1>2. m[s] = [n[s] EXCEPT ![k] = v] /\ \A r \in Sections \ {s} : m[r] = n[r]
  BY DEF Nodes, Put
<1>3. m[s] \in Node /\ m[s][k] = v /\ \A j \in Keys \ {k} : m[s][j] = n[s][j]
  BY <1>1, <1>2 DEF Node
<1>4. m \in Nodes
  BY <1>1, <1>3 DEF Nodes, Node, Put
<1>5. m[s] # NULL
  BY <1>3, NullAssumption
<1> HIDE DEF m
<1>6. SectionsOf(m) = SectionsOf(n)
  BY <1>2, <1>5 DEF SectionsOf
<1>7. \A sk \in Sections \X Keys : sk # <<s, k>> => (sk \in KeysOf(m) <=> sk \in KeysOf(n))
  <2> SUFFICES ASSUME NEW r \in Sections, NEW j \in Keys, <<r, j>> # <<s, k>>
               PROVE  <<r, j>> \in KeysOf(m) <=> <<r, j>> \in KeysOf(n)
    OBVIOUS
  <2>1. CASE r # s
    BY <1>2, <2>1 DEF KeysOf
  <2>2. CASE r = s
    BY <1>3, <1>5, <2>2 DEF KeysOf
  <2> QED
    BY <2>1, <2>2
<1>8. <<s, k>> \in KeysOf(m) <=> v # NULL
  BY <1>3, <1>5 DEF KeysOf
<1>9. \A sk : sk \in KeysOf(m) \/ sk \in KeysOf(n) => sk \in Sections \X Keys
  BY DEF KeysOf
<1>10. KeysOf(m) = IF v = NULL THEN KeysOf(n) \ {<<s, k>>} ELSE KeysOf(n) \cup {<<s, k>>}
  BY <1>7, <1>8, <1>9
<1> QED
  BY <1>4, <1>6, <1>10 DEF m

LEMMA PutSection ==
  ASSUME NEW n \in Nodes, NEW s \in Sections
  PROVE  /\ n[s] = NULL => LET m == [n EXCEPT ![s] = NoKeys] IN
              m \in Nodes /\ SectionsOf(m) = SectionsOf(n) \cup {s} /\ KeysOf(m) = KeysOf(n)
         /\ LET m == [n EXCEPT ![s] = NULL] IN
              m \in Nodes /\ SectionsOf(m) \subseteq SectionsOf(n) /\ KeysOf(m) \subseteq KeysOf(n)
<1>1. NoKeys \in Node /\ NoKeys # NULL /\ \A k \in Keys : NoKeys[k] = NULL
  BY NullAssumption DEF NoKeys, Node
<1>2. ASSUME n[s] = NULL
      PROVE  LET m == [n EXCEPT ![s] = NoKeys] IN
              m \in Nodes /\ SectionsOf(m) = SectionsOf(n) \cup {s} /\ KeysOf(m) = KeysOf(n)
  BY <1>1, <1>2 DEF Nodes, SectionsOf, KeysOf
<1>3. LET m == [n EXCEPT ![s] = NULL] IN
              m \in Nodes /\ SectionsOf(m) \subseteq SectionsOf(n) /\ KeysOf(m) \subseteq KeysOf(n)
  BY DEF Nodes, SectionsOf, KeysOf
<1> QED
  BY <1>2, <1>3

LEMMA FailStep ==
  ASSUME IInv, NEW r \in -15 .. 1, Returns(r) \/ Fail(r) PROVE IInv'
<1>1. StatusOK
  BY TypeParts DEF IInv
<1>2. StatusOK'
  BY <1>1, BoundsAssumption DEF StatusOK, Returns, Fail
<1> QED
  BY <1>2, KeepsAll DEF Returns, Fail

Codes == {INIFILE_NO_EXIST, INIFILE_FORMAT_ERROR, INIFILE_NUM_OUT_ARRAY, INIFILE_MEMORY_POOL_OUT,
          INIFILE_SECTION_NOFOUND, INIFILE_KEYVALUE_NOFOUND, INIFILE_SECTION_ALREAD,
          INIFILE_KEYVALUE_ALREAD}

LEMMA CodeTypes == \A r \in Codes : r \in -15 .. 1
BY DEF Codes, INIFILE_NO_EXIST, INIFILE_FORMAT_ERROR, INIFILE_NUM_OUT_ARRAY, INIFILE_MEMORY_POOL_OUT,
   INIFILE_SECTION_NOFOUND, INIFILE_KEYVALUE_NOFOUND, INIFILE_SECTION_ALREAD, INIFILE_KEYVALUE_ALREAD

LEMMA InitIniFileStep == ASSUME IInv, InitIniFile PROVE IInv'
<1>1. NodesOK /\ FilesOK /\ StatusOK /\ Safekept
  BY TypeParts DEF IInv
<1>2. FilesOK'
  BY <1>1 DEF FilesOK, InitIniFile
<1>3. CASE disk = Missing \/ ReadError(disk) # 0
  <2>1. ret' \in -15 .. 1 /\ UNCHANGED <<open, nodes>>
    <3>1. CASE disk = Missing
      BY <3>1 DEF InitIniFile, INIFILE_NO_EXIST
    <3>2. CASE disk # Missing
      <4>1. ReadError(disk) \in {0, -2, -6}
        BY <1>1, <3>2, ReadErrorType DEF FilesOK
      <4> QED
        BY <1>3, <3>2, <4>1 DEF InitIniFile
    <3> QED
      BY <3>1, <3>2
  <2>2. StatusOK'
    BY <1>1, <2>1 DEF InitIniFile, StatusOK
  <2> QED
    BY <2>1, <2>2, KeepsAll DEF InitIniFile
<1>4. CASE disk # Missing /\ ReadError(disk) = 0
  <2>1. disk \in Seq(Line) /\ open' = TRUE /\ nodes' = ReadNodes(disk) /\ ret' = 0
    BY <1>1, <1>4 DEF InitIniFile, FilesOK
  <2>2. NodesOK'
    <3>1. FileOK(disk)
      BY <1>4, <2>1, ReadOK
    <3>2. /\ nodes' \in Nodes /\ Cardinality(SectionsOf(nodes')) <= MaxSections
          /\ Cardinality(KeysOf(nodes')) <= MaxKeyvals
      BY <2>1, <3>1, ReadNodesIs, ReadFits
    <3> QED
      BY <3>2 DEF NodesOK, SectionCount, KeyCount, SectionsOf, KeysOf
  <2>3. StatusOK'
    BY <1>1, <2>1 DEF InitIniFile, StatusOK
  <2>4. Safekept'
    BY <1>1, <1>4, <2>1 DEF InitIniFile, Safekept, NothingLost
  <2> QED
    BY <1>2, <2>2, <2>3, <2>4 DEF IInv, TypeOK, NodesOK, FilesOK, StatusOK
<1> QED
  BY <1>3, <1>4

LEMMA UpdateStep ==
  ASSUME IInv, NEW s \in Sections, NEW k \in Keys, NEW v \in Values, UpdateValueOfKey(s, k, v)
  PROVE  IInv'
<1>1. CASE \E r \in Codes : Returns(r) \/ Fail(r)
  BY <1>1, CodeTypes, FailStep
<1>2. CASE /\ Ready /\ nodes[s] # NULL /\ nodes[s][k] # NULL
           /\ Rewrite([nodes EXCEPT ![s][k] = v], RewriteAfterUpdate(disk, s, k, v), FALSE)
  <2>1. NodesOK /\ disk \in Seq(Line)
    BY <1>2, TypeParts DEF IInv, Safekept, FilesOK, Ready
  <2>2. v # NULL /\ <<s, k>> \in KeysOf(nodes)
    BY <1>2, NullAssumption DEF KeysOf
  <2> DEFINE m == Put(nodes, s, k, v)
  <2>3. m \in Nodes /\ SectionsOf(m) = SectionsOf(nodes) /\ KeysOf(m) = KeysOf(nodes) \cup {<<s, k>>}
    BY <1>2, <2>1, <2>2, PutKey DEF NodesOK
  <2> HIDE DEF m
  <2>4. KeysOf(m) = KeysOf(nodes)
    BY <2>2, <2>3
  <2>5. Cardinality(SectionsOf(m)) <= MaxSections /\ Cardinality(KeysOf(m)) <= MaxKeyvals
    BY <2>1, <2>3, <2>4 DEF NodesOK, SectionCount, KeyCount, SectionsOf, KeysOf
  <2>6. Good(RewriteAfterUpdate(disk, s, k, v))
    BY <2>1, UpdateType
  <2>7. Rewrite(m, RewriteAfterUpdate(disk, s, k, v), FALSE)
    BY <1>2 DEF m, Put
  <2> HIDE DEF Rewrite
  <2> QED
    BY <1>2, <2>3, <2>5, <2>6, <2>7, RewriteStep
<1> QED
  BY <1>1, <1>2 DEF UpdateValueOfKey, Codes

LEMMA AddStep ==
  ASSUME IInv, NEW s \in Sections, NEW k \in Keys, NEW v \in Values, AddValueOfKey(s, k, v)
  PROVE  IInv'
<1>1. CASE \E r \in Codes : Returns(r) \/ Fail(r)
  BY <1>1, CodeTypes, FailStep
<1>2. CASE /\ Ready /\ nodes[s] # NULL /\ ~(KeyCount >= MaxKeyvals)
           /\ Rewrite([nodes EXCEPT ![s][k] = v], RewriteAfterAdd(disk, s, k, v), Unfinished(disk, s))
  <2>1. NodesOK /\ disk \in Seq(Line)
    BY <1>2, TypeParts DEF IInv, Safekept, FilesOK, Ready
  <2>2. v # NULL
    BY NullAssumption
  <2> DEFINE m == Put(nodes, s, k, v)
  <2>3. m \in Nodes /\ SectionsOf(m) = SectionsOf(nodes) /\ KeysOf(m) = KeysOf(nodes) \cup {<<s, k>>}
    BY <1>2, <2>1, <2>2, PutKey DEF NodesOK
  <2> HIDE DEF m
  <2>4. KeyCount = Cardinality(KeysOf(nodes)) /\ SectionCount = Cardinality(SectionsOf(nodes))
    BY DEF SectionCount, KeyCount, SectionsOf, KeysOf
  <2>5. Cardinality(KeysOf(m)) <= Cardinality(KeysOf(nodes)) + 1 /\ Cardinality(KeysOf(nodes)) \in Nat
    BY <2>3, CountTypes, OneMore
  <2>a. ~(KeyCount >= MaxKeyvals) /\ SectionCount <= MaxSections
    BY <1>2, <2>1 DEF NodesOK
  <2>b. Cardinality(KeysOf(m)) \in Nat
    BY CountTypes
  <2>6. Cardinality(SectionsOf(m)) <= MaxSections /\ Cardinality(KeysOf(m)) <= MaxKeyvals
    BY <2>a, <2>b, <2>3, <2>4, <2>5, BoundsAssumption
  <2>7. Good(RewriteAfterAdd(disk, s, k, v)) /\ Unfinished(disk, s) \in BOOLEAN
    BY <2>1, AddType DEF Unfinished
  <2>8. Rewrite(m, RewriteAfterAdd(disk, s, k, v), Unfinished(disk, s))
    BY <1>2 DEF m, Put
  <2> QED
    BY <1>2, <2>3, <2>6, <2>7, <2>8, RewriteStep
<1> QED
  BY <1>1, <1>2 DEF AddValueOfKey, Codes

LEMMA AddSectionStep ==
  ASSUME IInv, NEW s \in Sections, NEW k \in Keys \cup {NULL}, NEW v \in Values, AddIniSection(s, k, v)
  PROVE  IInv'
<1> DEFINE w == IF k = NULL THEN RewriteAfterAddSection(disk, s) ELSE RewriteAfterAdd(disk, s, k, v)
<1>1. CASE \E r \in Codes : Returns(r) \/ Fail(r)
  BY <1>1, CodeTypes, FailStep
<1>2. CASE /\ Ready /\ nodes[s] = NULL /\ ~(SectionCount >= MaxSections)
           /\ Rewrite([nodes EXCEPT ![s] = NoKeys], w, k # NULL)
  <2>1. NodesOK /\ disk \in Seq(Line)
    BY <1>2, TypeParts DEF IInv, Safekept, FilesOK, Ready
  <2> DEFINE m == [nodes EXCEPT ![s] = NoKeys]
  <2>2. m \in Nodes /\ SectionsOf(m) = SectionsOf(nodes) \cup {s} /\ KeysOf(m) = KeysOf(nodes)
    BY <1>2, <2>1, PutSection DEF NodesOK
  <2> HIDE DEF m
  <2>3. KeyCount = Cardinality(KeysOf(nodes)) /\ SectionCount = Cardinality(SectionsOf(nodes))
    BY DEF SectionCount, KeyCount, SectionsOf, KeysOf
  <2>4. Cardinality(SectionsOf(m)) <= Cardinality(SectionsOf(nodes)) + 1
    BY <2>2, CountTypes, OneMore
  <2>a. ~(SectionCount >= MaxSections) /\ KeyCount <= MaxKeyvals
    BY <1>2, <2>1 DEF NodesOK
  <2>b. Cardinality(SectionsOf(m)) \in Nat /\ Cardinality(SectionsOf(nodes)) \in Nat
    BY CountTypes
  <2>5. Cardinality(SectionsOf(m)) <= MaxSections /\ Cardinality(KeysOf(m)) <= MaxKeyvals
    BY <2>a, <2>b, <2>2, <2>3, <2>4, BoundsAssumption
  <2>6. Good(w)
    BY <2>1, AddSectionType, AddType
  <2>7. Rewrite(m, w, k # NULL)
    BY <1>2 DEF m
  <2> HIDE DEF w
  <2> QED
    BY <1>2, <2>2, <2>5, <2>6, <2>7, RewriteStep
<1> QED
  BY <1>1, <1>2 DEF AddIniSection, Codes

LEMMA DeleteStep ==
  ASSUME IInv, NEW s \in Sections,
         \/ \E k \in Keys \cup {NULL} : DeleteIniSection(s, k)
         \/ \E k \in Keys : DeleteValueOfKey(s, k)
  PROVE  IInv'
<1>1. CASE \E r \in Codes : Returns(r) \/ Fail(r)
  BY <1>1, CodeTypes, FailStep
<1>2. ASSUME Ready, NEW m \in Nodes, SectionsOf(m) \subseteq SectionsOf(nodes),
             KeysOf(m) \subseteq KeysOf(nodes), NEW k, NEW w \in RewriteAfterDelete(disk, s, k),
             NEW off \in BOOLEAN, Rewrite(m, w, off)
      PROVE  IInv'
  <2>1. NodesOK /\ disk \in Seq(Line)
    BY <1>2, TypeParts DEF IInv, Safekept, FilesOK, Ready
  <2>2. KeyCount = Cardinality(KeysOf(nodes)) /\ SectionCount = Cardinality(SectionsOf(nodes))
    BY DEF SectionCount, KeyCount, SectionsOf, KeysOf
  <2>3. /\ Cardinality(SectionsOf(m)) <= Cardinality(SectionsOf(nodes))
        /\ Cardinality(KeysOf(m)) <= Cardinality(KeysOf(nodes))
    BY <1>2, CountTypes, FS_Subset
  <2>4. Cardinality(SectionsOf(m)) <= MaxSections /\ Cardinality(KeysOf(m)) <= MaxKeyvals
    BY <2>1, <2>2, <2>3, CountTypes, BoundsAssumption DEF NodesOK
  <2>5. Good(w)
    BY <1>2, <2>1, DeleteType
  <2> QED
    BY <1>2, <2>4, <2>5, RewriteStep
<1>3. nodes \in Nodes
  BY TypeParts DEF IInv, NodesOK
<1>4. ASSUME NEW k, Ready, nodes[s] # NULL,
             \E w \in RewriteAfterDelete(disk, s, k) : Rewrite([nodes EXCEPT ![s] = NULL], w, k # NULL)
      PROVE  IInv'
  <2> DEFINE m == [nodes EXCEPT ![s] = NULL]
  <2>1. m \in Nodes /\ SectionsOf(m) \subseteq SectionsOf(nodes) /\ KeysOf(m) \subseteq KeysOf(nodes)
    BY <1>3, PutSection
  <2> HIDE DEF m
  <2>2. PICK w \in RewriteAfterDelete(disk, s, k) : Rewrite(m, w, k # NULL)
    BY <1>4 DEF m
  <2> QED
    BY <1>2, <1>4, <2>1, <2>2
<1>5. ASSUME NEW k \in Keys, Ready, nodes[s] # NULL,
             \E w \in RewriteAfterDelete(disk, s, k) : Rewrite([nodes EXCEPT ![s][k] = NULL], w, TRUE)
      PROVE  IInv'
  <2> DEFINE m == Put(nodes, s, k, NULL)
  <2>1. m \in Nodes /\ SectionsOf(m) \subseteq SectionsOf(nodes) /\ KeysOf(m) \subseteq KeysOf(nodes)
    BY <1>3, <1>5, PutKey
  <2> HIDE DEF m
  <2>2. PICK w \in RewriteAfterDelete(disk, s, k) : Rewrite(m, w, TRUE)
    BY <1>5 DEF m, Put
  <2> QED
    BY <1>2, <1>5, <2>1, <2>2
<1>6. ASSUME NEW k \in Keys \cup {NULL}, DeleteIniSection(s, k) PROVE IInv'
  BY <1>1, <1>4, <1>6 DEF DeleteIniSection, Codes
<1>7. ASSUME NEW k \in Keys, DeleteValueOfKey(s, k) PROVE IInv'
  BY <1>1, <1>5, <1>7 DEF DeleteValueOfKey, Codes
<1> QED
  BY <1>6, <1>7

LEMMA EndStep ==
  ASSUME IInv, DestroyIniSource \/ WriteTmp \/ DropTmp \/ RemoveOld \/ MoveTmp \/ Crash
  PROVE  IInv'
<1>1. NodesOK /\ FilesOK /\ StatusOK /\ Safekept
  BY TypeParts DEF IInv
<1>2. NodesOK'
  <2>1. CASE nodes' = nodes
    BY <1>1, <2>1 DEF NodesOK, SectionCount, KeyCount
  <2>2. CASE nodes' = Closed
    BY <2>2, ClosedFits DEF NodesOK, SectionCount, KeyCount, SectionsOf, KeysOf
  <2> QED
    BY <2>1, <2>2 DEF DestroyIniSource, WriteTmp, DropTmp, RemoveOld, MoveTmp, Crash
<1>3. FilesOK'
  <2>1. \A n \in 0 .. Len(out) : UpTo(out, n) \in Seq(Line)
    BY <1>1, PartTypes DEF FilesOK
  <2>2. CASE Crash
    BY <1>1, <2>1, <2>2 DEF FilesOK, Crash
  <2>3. CASE DestroyIniSource \/ WriteTmp \/ DropTmp \/ RemoveOld \/ MoveTmp
    BY <1>1, <2>3 DEF FilesOK, DestroyIniSource, WriteTmp, DropTmp, RemoveOld, MoveTmp
  <2> QED
    BY <2>2, <2>3
<1>4. StatusOK'
  <2>1. /\ open' \in BOOLEAN /\ drift' \in BOOLEAN /\ pc' \in {"idle", "write", "remove", "move"}
        /\ res' \in {-2, -1, 0, 1}
    BY <1>1 DEF StatusOK, DestroyIniSource, WriteTmp, DropTmp, RemoveOld, MoveTmp, Crash
  <2>2. ret' = ret \/ ret' = res \/ ret' = INIFILE_NO_EXIST
    BY DEF DestroyIniSource, WriteTmp, DropTmp, RemoveOld, MoveTmp, Crash
  <2>3. ret' \in -15 .. 1
    BY <1>1, <2>2 DEF StatusOK, INIFILE_NO_EXIST
  <2>4. /\ ops' = ops
        /\ crashes' = crashes \/ (crashes < MaxCrashes /\ crashes' = crashes + 1)
        /\ fails' = fails \/ (fails < MaxFails /\ fails' = fails + 1)
    BY DEF DestroyIniSource, WriteTmp, DropTmp, RemoveOld, MoveTmp, Crash
  <2>5. ops' \in 0 .. MaxOps /\ crashes' \in 0 .. MaxCrashes /\ fails' \in 0 .. MaxFails
    BY <1>1, <2>4, BoundsAssumption DEF StatusOK
  <2> QED
    BY <2>1, <2>3, <2>5 DEF StatusOK
<1>5. Safekept'
  <2>1. out # Missing
    BY <1>1, FilesAssumption DEF FilesOK
  <2>2. CASE DestroyIniSource \/ WriteTmp \/ DropTmp
    BY <1>1, <2>1, <2>2 DEF Safekept, NothingLost, Ready, DestroyIniSource, WriteTmp, DropTmp, StatusOK
  <2>3. CASE RemoveOld \/ MoveTmp
    BY <1>1, <2>1, <2>3 DEF Safekept, NothingLost, RemoveOld, MoveTmp, StatusOK
  <2>4. CASE Crash
    BY <1>1, <2>1, <2>4 DEF Safekept, NothingLost, Crash, StatusOK
  <2> QED
    BY <2>2, <2>3, <2>4
<1> QED
  BY <1>2, <1>3, <1>4, <1>5 DEF IInv, TypeOK, NodesOK, FilesOK, StatusOK

LEMMA Inductive == IInv /\ [Next]_vars => IInv'
<1>1. ASSUME IInv, UNCHANGED vars PROVE IInv'
  BY <1>1 DEF vars, IInv, TypeOK, SectionCount, KeyCount, Safekept, NothingLost
<1>2. ASSUME IInv, InitFails PROVE IInv'
  BY <1>2, CodeTypes, FailStep DEF InitFails, Codes
<1> QED
  BY <1>1, <1>2, InitIniFileStep, UpdateStep, AddStep, AddSectionStep, DeleteStep, EndStep DEF Next

-----------------------------------------------------------------------------
(* inifile.c: whatever the operations, failures and crashes, the nodes in  *)
(* use fit section_array and keyval_array (the counts it refuses to pass   *)
(* when it reads a file, lines 1045 and 1119, and when it adds to one), and *)
(* every file it writes is a sequence of lines it can judge.               *)
THEOREM TypeCorrect == Spec => []TypeOK
<1>1. IInv => TypeOK
  BY DEF IInv
<1> QED
  BY <1>1, InitInv, Inductive, PTL DEF Spec

(* re_name_ini_file: at every moment, also after a crash between rm and mv *)
(* and whatever is done afterwards, the file as it was before the last     *)
(* rewriting or the complete one it wrote is on disk, under its own name   *)
(* or under that of the .tmp.                                              *)
THEOREM NeverLost == Spec => []NothingLost
<1>1. IInv => NothingLost
  BY DEF IInv, Safekept
<1> QED
  BY <1>1, InitInv, Inductive, PTL DEF Spec
-----------------------------------------------------------------------------
(* A file inside another                                                   *)

(* The lines of a are lines of b, in the same order, with the same kind,   *)
(* section and key, and no pair of a stands under a header of b that is    *)
(* not in a.                                                               *)
Embeds(a, b, f) ==
  /\ f \in [1 .. Len(a) -> 1 .. Len(b)]
  /\ \A i, j \in 1 .. Len(a) : i < j => f[i] < f[j]
  /\ \A i \in 1 .. Len(a) : b[f[i]].type = a[i].type /\ b[f[i]].sec = a[i].sec /\ b[f[i]].key = a[i].key
  /\ \A j \in Pairs(a), x \in Heads(b) : x < f[j] => \E y \in Heads(a) : x <= f[y] /\ f[y] < f[j]

LEMMA EmbedOrder ==
  ASSUME NEW a \in Seq(Line), NEW b \in Seq(Line), NEW f, Embeds(a, b, f),
         NEW i \in 1 .. Len(a), NEW j \in 1 .. Len(a)
  PROVE  /\ f[i] \in 1 .. Len(b) /\ f[j] \in 1 .. Len(b)
         /\ f[i] < f[j] <=> i < j
         /\ f[i] = f[j] <=> i = j
<1>1. f[i] \in 1 .. Len(b) /\ f[j] \in 1 .. Len(b)
  BY DEF Embeds
<1>2. (i < j => f[i] < f[j]) /\ (j < i => f[j] < f[i])
  BY DEF Embeds
<1> QED
  BY <1>1, <1>2

LEMMA EmbedKinds ==
  ASSUME NEW a \in Seq(Line), NEW b \in Seq(Line), NEW f, Embeds(a, b, f), NEW i \in 1 .. Len(a)
  PROVE  /\ i \in Heads(a) <=> f[i] \in Heads(b)
         /\ i \in Pairs(a) <=> f[i] \in Pairs(b)
         /\ i \in Errors(a) <=> f[i] \in Errors(b)
         /\ \A s : i \in Named(a, s) <=> f[i] \in Named(b, s)
<1>1. f[i] \in 1 .. Len(b) /\ b[f[i]].type = a[i].type /\ b[f[i]].sec = a[i].sec
  BY DEF Embeds
<1>2. DOMAIN a = 1 .. Len(a) /\ DOMAIN b = 1 .. Len(b)
  BY Indices
<1> QED
  BY <1>1, <1>2 DEF Heads, Pairs, Errors, Named

LEMMA EmbedTogether ==
  ASSUME NEW a \in Seq(Line), NEW b \in Seq(Line), NEW f, Embeds(a, b, f),
         NEW i \in 1 .. Len(a), NEW j \in Pairs(a)
  PROVE  Together(a, i, j) <=> Together(b, f[i], f[j])
<1>1. j \in 1 .. Len(a)
  BY Indices
<1>2. i < j <=> f[i] < f[j]
  BY <1>1, EmbedOrder
<1>3. ASSUME Together(b, f[i], f[j]), NEW h \in Heads(a), i < h, h <= j PROVE FALSE
  <2>1. h \in 1 .. Len(a)
    BY Indices
  <2>2. f[h] \in Heads(b) /\ f[i] < f[h] /\ f[h] <= f[j]
    BY <1>1, <1>3, <2>1, EmbedKinds, EmbedOrder
  <2> QED
    BY <1>3, <2>2 DEF Together
<1>4. ASSUME Together(a, i, j), NEW x \in Heads(b), f[i] < x, x <= f[j] PROVE FALSE
  <2>1. f[j] \in Pairs(b)
    BY <1>1, EmbedKinds
  <2>2. x \in 1 .. Len(b) /\ f[i] \in 1 .. Len(b) /\ f[j] \in 1 .. Len(b) /\ x # f[j]
    BY <1>1, <2>1, EmbedOrder, Indices DEF Heads, Pairs
  <2>3. x < f[j]
    BY <1>4, <2>2
  <2>4. PICK y \in Heads(a) : x <= f[y] /\ f[y] < f[j]
    BY <2>3 DEF Embeds
  <2>5. y \in 1 .. Len(a)
    BY Indices
  <2>6. f[y] \in 1 .. Len(b) /\ f[i] < f[y]
    BY <1>4, <2>2, <2>4, <2>5, EmbedOrder
  <2>7. i < y /\ y < j
    BY <1>1, <2>4, <2>5, <2>6, EmbedOrder
  <2> QED
    BY <1>1, <1>4, <2>5, <2>7 DEF Together
<1> QED
  BY <1>2, <1>3, <1>4 DEF Together

LEMMA EmbedUnder ==
  ASSUME NEW a \in Seq(Line), NEW b \in Seq(Line), NEW f, Embeds(a, b, f), NEW i \in Pairs(a), NEW s, NEW k
  PROVE  i \in Under(a, s, k) <=> f[i] \in Under(b, s, k)
<1>1. /\ i \in 1 .. Len(a) /\ f[i] \in 1 .. Len(b) /\ f[i] \in Pairs(b) /\ b[f[i]].key = a[i].key
  BY Indices, EmbedKinds DEF Embeds
<1>2. ASSUME NEW h \in Heads(a), a[h].sec = s, Together(a, h, i)
      PROVE  \E x \in Heads(b) : b[x].sec = s /\ Together(b, x, f[i])
  <2>1. h \in 1 .. Len(a)
    BY Indices
  <2>2. f[h] \in Heads(b) /\ b[f[h]].sec = s
    BY <1>2, <2>1, EmbedKinds DEF Embeds
  <2>3. Together(b, f[h], f[i])
    BY <1>2, <2>1, EmbedTogether
  <2> QED
    BY <2>2, <2>3
<1>3. ASSUME NEW x \in Heads(b), b[x].sec = s, Together(b, x, f[i])
      PROVE  \E h \in Heads(a) : a[h].sec = s /\ Together(a, h, i)
  <2>1. x < f[i] /\ x \in 1 .. Len(b)
    BY <1>3, Indices DEF Together
  <2>2. PICK y \in Heads(a) : x <= f[y] /\ f[y] < f[i]
    BY <2>1 DEF Embeds
  <2>3. y \in 1 .. Len(a)
    BY Indices
  <2>4. f[y] \in Heads(b) /\ f[y] \in 1 .. Len(b)
    BY <2>3, EmbedKinds, Indices
  <2>5. f[y] = x
    BY <1>1, <1>3, <2>1, <2>2, <2>4 DEF Together
  <2>6. Together(a, y, i) /\ a[y].sec = s
    BY <1>3, <2>3, <2>5, EmbedTogether DEF Embeds
  <2> QED
    BY <2>6
<1> QED
  BY <1>1, <1>2, <1>3 DEF Under
-----------------------------------------------------------------------------
(* What a file that is accepted says                                       *)

LEMMA OneUnder ==
  ASSUME NEW lines \in Seq(Line), FileOK(lines), NEW s, NEW k,
         NEW p \in Under(lines, s, k), NEW q \in Under(lines, s, k)
  PROVE  p = q
<1>1. /\ p \in Pairs(lines) /\ q \in Pairs(lines) /\ p \in 1 .. Len(lines) /\ q \in 1 .. Len(lines)
      /\ lines[p].key = k /\ lines[q].key = k
  BY Indices DEF Under
<1>2. PICK g \in Heads(lines) : lines[g].sec = s /\ Together(lines, g, p)
  BY DEF Under
<1>3. PICK h \in Heads(lines) : lines[h].sec = s /\ Together(lines, h, q)
  BY DEF Under
<1>4. g \in 1 .. Len(lines) /\ h \in 1 .. Len(lines)
  BY Indices
<1>5. g = h
  BY <1>2, <1>3, <1>4 DEF FileOK
<1>6. ASSUME p < q PROVE Together(lines, p, q)
  BY <1>1, <1>2, <1>3, <1>4, <1>5, <1>6, Indices DEF Together
<1>7. ASSUME q < p PROVE Together(lines, q, p)
  BY <1>1, <1>2, <1>3, <1>4, <1>5, <1>7, Indices DEF Together
<1> QED
  BY <1>1, <1>6, <1>7 DEF FileOK

(* The nodes n are those of the file, told without Least.                  *)
Shows(lines, n) ==
  /\ \A s \in Sections : n[s] = NULL <=> Named(lines, s) = {}
  /\ \A s \in Sections, k \in Keys : n[s] # NULL =>
       /\ n[s][k] = NULL <=> Under(lines, s, k) = {}
       /\ \A p \in Under(lines, s, k) : n[s][k] = lines[p].val

LEMMA UnderType ==
  ASSUME NEW lines \in Seq(Line), NEW s, NEW k
  PROVE  /\ \A p \in Under(lines, s, k) : p \in 1 .. Len(lines) /\ p \in Pairs(lines) /\ lines[p].val \in Values
         /\ Under(lines, s, k) # {} => Least(Under(lines, s, k)) \in Under(lines, s, k)
<1>1. \A p \in Under(lines, s, k) : p \in 1 .. Len(lines) /\ p \in Pairs(lines)
  BY Indices DEF Under
<1>2. \A p \in Under(lines, s, k) : lines[p].val \in Values
  BY <1>1, Indices DEF Pairs, Line
<1>3. Under(lines, s, k) \in SUBSET Nat
  BY <1>1
<1> QED
  BY <1>1, <1>2, <1>3, LeastIn

LEMMA ShowsIs ==
  ASSUME NEW lines \in Seq(Line), FileOK(lines), NEW n \in Nodes
  PROVE  ReadNodes(lines) = n <=> Shows(lines, n)
<1> DEFINE m == ReadNodes(lines)
<1>1. m \in Nodes /\ Shows(lines, m)
  <2>1. m \in Nodes /\ \A s \in Sections : m[s] = NULL <=> Named(lines, s) = {}
    BY ReadNodesIs
  <2>2. ASSUME NEW s \in Sections, NEW k \in Keys, m[s] # NULL
        PROVE  /\ m[s][k] = NULL <=> Under(lines, s, k) = {}
               /\ \A p \in Under(lines, s, k) : m[s][k] = lines[p].val
    <3>1. m[s][k] = IF Under(lines, s, k) = {} THEN NULL ELSE lines[Least(Under(lines, s, k))].val
      BY <2>1, <2>2, ReadNodesIs
    <3>2. CASE Under(lines, s, k) = {}
      BY <3>1, <3>2
    <3>3. CASE Under(lines, s, k) # {}
      <4>1. Least(Under(lines, s, k)) \in Under(lines, s, k)
        BY <3>3, UnderType
      <4>2. m[s][k] = lines[Least(Under(lines, s, k))].val /\ m[s][k] \in Values
        BY <3>1, <3>3, <4>1, UnderType
      <4>3. \A p \in Under(lines, s, k) : p = Least(Under(lines, s, k))
        BY <4>1, OneUnder
      <4> QED
        BY <3>3, <4>2, <4>3, NullAssumption
    <3> QED
      BY <3>2, <3>3
  <2> HIDE DEF m
  <2> QED
    BY <2>1, <2>2 DEF Shows
<1>2. ASSUME Shows(lines, n) PROVE m = n
  <2> HIDE DEF m
  <2>1. ASSUME NEW s \in Sections PROVE m[s] = n[s]
    <3>1. CASE Named(lines, s) = {}
      BY <1>1, <1>2, <3>1 DEF Shows
    <3>2. CASE Named(lines, s) # {}
      <4>1. m[s] # NULL /\ n[s] # NULL
        BY <1>1, <1>2, <3>2 DEF Shows
      <4>2. m[s] \in Node /\ n[s] \in Node
        BY <1>1, <4>1 DEF Nodes
      <4>3. ASSUME NEW k \in Keys PROVE m[s][k] = n[s][k]
        <5>1. CASE Under(lines, s, k) = {}
          BY <1>1, <1>2, <4>1, <5>1 DEF Shows
        <5>2. CASE Under(lines, s, k) # {}
          <6>1. PICK p \in Under(lines, s, k) : TRUE
            BY <5>2
          <6> QED
            BY <1>1, <1>2, <4>1, <6>1 DEF Shows
        <5> QED
          BY <5>1, <5>2
      <4> QED
        BY <4>2, <4>3 DEF Node
    <3> QED
      BY <3>1, <3>2
  <2> QED
    BY <1>1, <2>1 DEF Nodes
<1> QED
  BY <1>1, <1>2

(* It has no more headers and pairs than the nodes.                        *)
LEMMA FileCounts ==
  ASSUME NEW lines \in Seq(Line), FileOK(lines), NEW n \in Nodes, Shows(lines, n)
  PROVE  /\ Cardinality(Heads(lines)) <= Cardinality(SectionsOf(n))
         /\ Cardinality(Pairs(lines)) <= Cardinality(KeysOf(n))
<1> DEFINE under(p) == CHOOSE h \in Heads(lines) : Together(lines, h, p)
           f == [h \in Heads(lines) |-> lines[h].sec]
           g == [p \in Pairs(lines) |-> <<lines[under(p)].sec, lines[p].key>>]
<1>1. \A h \in Heads(lines) : lines[h].sec \in Sections /\ n[lines[h].sec] # NULL
  <2>1. \A h \in Heads(lines) : lines[h].sec \in Sections
    BY Indices DEF Heads, Line
  <2>2. \A h \in Heads(lines) : Named(lines, lines[h].sec) # {}
    BY DEF Named
  <2> QED
    BY <2>1, <2>2 DEF Shows
<1>2. f \in Injection(Heads(lines), SectionsOf(n))
  <2>1. f \in [Heads(lines) -> SectionsOf(n)]
    BY <1>1 DEF SectionsOf
  <2>2. \A i, j \in Heads(lines) : f[i] = f[j] => i = j
    BY Indices DEF FileOK
  <2> HIDE DEF f
  <2> QED
    BY <2>1, <2>2 DEF Injection, IsInjective
<1>3. ASSUME NEW p \in Pairs(lines) PROVE under(p) \in Heads(lines) /\ Together(lines, under(p), p)
  <2> DEFINE D == {h \in Heads(lines) : h < p}
  <2>1. p \in 1 .. Len(lines) /\ \A h \in Heads(lines) : h \in 1 .. Len(lines)
    BY Indices
  <2>2. D # {}
    BY DEF FileOK
  <2>3. PICK h \in D : \A y \in D : y <= h
    BY <2>1, <2>2, GreatestExists, Indices
  <2>4. p \notin Heads(lines)
    BY DEF Heads, Pairs
  <2>5. Together(lines, h, p)
    BY <2>1, <2>3, <2>4 DEF Together
  <2> QED
    BY <2>3, <2>5
<1>4. \A p \in Pairs(lines) :
        /\ lines[under(p)].sec \in Sections /\ lines[p].key \in Keys
        /\ p \in Under(lines, lines[under(p)].sec, lines[p].key)
  <2>1. \A p \in Pairs(lines) : lines[p].key \in Keys
    BY Indices DEF Pairs, Line
  <2> HIDE DEF under
  <2> QED
    BY <1>1, <1>3, <2>1 DEF Under
<1> HIDE DEF under
<1>5. g \in Injection(Pairs(lines), KeysOf(n))
  <2>1. ASSUME NEW p \in Pairs(lines) PROVE <<lines[under(p)].sec, lines[p].key>> \in KeysOf(n)
    <3>1. n[lines[under(p)].sec] # NULL
      BY <1>1, <1>3
    <3>2. n[lines[under(p)].sec][lines[p].key] # NULL
      BY <1>4, <3>1 DEF Shows
    <3> QED
      BY <1>4, <3>1, <3>2 DEF KeysOf
  <2>2. g \in [Pairs(lines) -> KeysOf(n)]
    BY <2>1
  <2>3. ASSUME NEW p \in Pairs(lines), NEW q \in Pairs(lines), g[p] = g[q] PROVE p = q
    <3>1. lines[under(p)].sec = lines[under(q)].sec /\ lines[p].key = lines[q].key
      BY <2>3
    <3>2. q \in Under(lines, lines[under(p)].sec, lines[p].key)
      BY <1>4, <3>1
    <3> QED
      BY <1>4, <3>2, OneUnder
  <2> HIDE DEF g
  <2> QED
    BY <2>2, <2>3 DEF Injection, IsInjective
<1> HIDE DEF f, g
<1> QED
  BY <1>2, <1>5, CountTypes, FS_Injection
-----------------------------------------------------------------------------
(* Each rewriting makes the file say what the nodes say                    *)

LEMMA Concat ==
  ASSUME NEW a \in Seq(Line), NEW b \in Seq(Line)
  PROVE  /\ a \o b \in Seq(Line) /\ Len(a \o b) = Len(a) + Len(b)
         /\ \A x \in 1 .. Len(a) : (a \o b)[x] = a[x]
         /\ \A x \in 1 .. Len(b) : (a \o b)[Len(a) + x] = b[x]
<1>1. a \o b \in Seq(Line) /\ Len(a \o b) = Len(a) + Len(b)
  BY ConcatProperties
<1>2. \A x \in 1 .. Len(a) : (a \o b)[x] = a[x]
  OBVIOUS
<1>3. ASSUME NEW x \in 1 .. Len(b) PROVE (a \o b)[Len(a) + x] = b[x]
  OBVIOUS
<1> QED
  BY <1>1, <1>2, <1>3

(* The lines up to i, those of mid, and the lines after j.                 *)
Splice(lines, mid, i, j) == UpTo(lines, i) \o mid \o After(lines, j)

IsSplice(new, lines, mid, i, j) ==
  /\ new \in Seq(Line) /\ Len(new) = i + Len(mid) + (Len(lines) - j)
  /\ \A x \in 1 .. i : new[x] = lines[x]
  /\ \A x \in 1 .. Len(mid) : new[i + x] = mid[x]
  /\ \A x \in j + 1 .. Len(lines) : new[x + (i + Len(mid) - j)] = lines[x]

LEMMA SpliceIs ==
  ASSUME NEW lines \in Seq(Line), NEW mid \in Seq(Line), NEW i \in 0 .. Len(lines), NEW j \in i .. Len(lines)
  PROVE  IsSplice(Splice(lines, mid, i, j), lines, mid, i, j)
<1> DEFINE new == Splice(lines, mid, i, j)
<1>1. i \in 0 .. Len(lines) /\ j \in 0 .. Len(lines) /\ Len(lines) \in Nat /\ Len(mid) \in Nat
  OBVIOUS
<1> DEFINE a == UpTo(lines, i)
           c == After(lines, j)
<1>2. /\ a \in Seq(Line) /\ Len(a) = i /\ \A x \in 1 .. i : a[x] = lines[x]
      /\ c \in Seq(Line) /\ Len(c) = Len(lines) - j
      /\ \A x \in 1 .. Len(lines) - j : c[x] = lines[j + x]
  BY <1>1, PartTypes
<1> HIDE DEF a, c
<1>3. new = (a \o mid) \o c
  BY DEF a, c, Splice
<1> HIDE DEF new
<1>4. /\ new \in Seq(Line) /\ Len(new) = i + Len(mid) + (Len(lines) - j)
      /\ \A x \in 1 .. i : new[x] = a[x]
      /\ \A x \in 1 .. Len(mid) : new[i + x] = mid[x]
      /\ \A x \in 1 .. Len(lines) - j : new[i + Len(mid) + x] = c[x]
  <2> DEFINE d == a \o mid
  <2>1. /\ d \in Seq(Line) /\ Len(d) = i + Len(mid) /\ \A x \in 1 .. i : d[x] = a[x]
        /\ \A x \in 1 .. Len(mid) : d[i + x] = mid[x]
    BY <1>2, Concat
  <2> HIDE DEF d
  <2>2. new = d \o c
    BY <1>3 DEF d
  <2>3. /\ new \in Seq(Line) /\ Len(new) = Len(d) + Len(c) /\ \A x \in 1 .. Len(d) : new[x] = d[x]
        /\ \A x \in 1 .. Len(c) : new[Len(d) + x] = c[x]
    <3>1. d \in Seq(Line) /\ c \in Seq(Line)
      BY <1>2, <2>1
    <3> QED
      BY <2>2, <3>1, Concat
  <2>4. \A x \in 1 .. i : x \in 1 .. Len(d)
    BY <1>1, <2>1
  <2>5. \A x \in 1 .. Len(mid) : i + x \in 1 .. Len(d)
    BY <1>1, <2>1
  <2> QED
    BY <1>2, <2>1, <2>3, <2>4, <2>5
<1>5. ASSUME NEW x \in j + 1 .. Len(lines) PROVE new[x + (i + Len(mid) - j)] = lines[x]
  <2>1. x - j \in 1 .. Len(lines) - j /\ i + Len(mid) + (x - j) = x + (i + Len(mid) - j) /\ j + (x - j) = x
    BY <1>1
  <2>2. new[i + Len(mid) + (x - j)] = c[x - j] /\ c[x - j] = lines[j + (x - j)]
    BY <1>2, <1>4, <2>1
  <2> QED
    BY <2>1, <2>2
<1> QED
  BY <1>2, <1>4, <1>5 DEF IsSplice, new

LEMMA ImageCount ==
  ASSUME NEW S, IsFiniteSet(S), NEW T, NEW f, \A t \in T : \E x \in S : t = f[x]
  PROVE  IsFiniteSet(T) /\ Cardinality(T) \in Nat /\ Cardinality(T) <= Cardinality(S)
<1> DEFINE D == {x \in S : f[x] \in T}
           g == [x \in D |-> f[x]]
<1>1. IsFiniteSet(D) /\ Cardinality(D) <= Cardinality(S)
  BY FS_Subset
<1>2. g \in Surjection(D, T)
  <2>1. g \in [D -> T]
    OBVIOUS
  <2>2. \A t \in T : \E x \in D : g[x] = t
    OBVIOUS
  <2> HIDE DEF g, D
  <2> QED
    BY <2>1, <2>2 DEF Surjection
<1> HIDE DEF g, D
<1>3. IsFiniteSet(T) /\ Cardinality(T) <= Cardinality(D)
  BY <1>1, <1>2, FS_Surjection
<1> QED
  BY <1>1, <1>3, FS_CardinalityType

(* What holds of the lines of a holds of their images in b.                *)
LEMMA EmbedGood ==
  ASSUME NEW a \in Seq(Line), NEW b \in Seq(Line), NEW f, Embeds(a, b, f), FileOK(a)
  PROVE  /\ \A i, j \in Heads(a) : f[i] < f[j] => b[f[i]].sec # b[f[j]].sec
         /\ \A i \in Pairs(a) : \E h \in Heads(a) : f[h] \in Heads(b) /\ f[h] < f[i]
         /\ \A i, j \in Pairs(a) : Together(b, f[i], f[j]) => b[f[i]].key # b[f[j]].key
<1>1. (\A i \in Heads(a) : i \in 1 .. Len(a)) /\ (\A i \in Pairs(a) : i \in 1 .. Len(a))
  BY Indices
<1>2. ASSUME NEW i \in Heads(a), NEW j \in Heads(a), f[i] < f[j] PROVE b[f[i]].sec # b[f[j]].sec
  <2>1. i < j
    BY <1>1, <1>2, EmbedOrder
  <2>2. a[i].sec # a[j].sec
    BY <2>1 DEF FileOK
  <2> QED
    BY <1>1, <2>2 DEF Embeds
<1>3. ASSUME NEW i \in Pairs(a) PROVE \E h \in Heads(a) : f[h] \in Heads(b) /\ f[h] < f[i]
  <2>1. PICK h \in Heads(a) : h < i
    BY DEF FileOK
  <2> QED
    BY <1>1, <2>1, EmbedOrder, EmbedKinds
<1>4. ASSUME NEW i \in Pairs(a), NEW j \in Pairs(a), Together(b, f[i], f[j]) PROVE b[f[i]].key # b[f[j]].key
  <2>1. Together(a, i, j)
    BY <1>1, <1>4, EmbedTogether
  <2>2. a[i].key # a[j].key
    BY <2>1 DEF FileOK
  <2> QED
    BY <1>1, <2>2 DEF Embeds
<1> QED
  BY <1>2, <1>3, <1>4

(* Without new headers or pairs a file stays accepted.                     *)
LEMMA SameOK ==
  ASSUME NEW a \in Seq(Line), NEW b \in Seq(Line), NEW f, Embeds(a, b, f), FileOK(a),
         \A x \in Heads(b) \cup Pairs(b) \cup Errors(b) : \E i \in 1 .. Len(a) : x = f[i]
  PROVE  FileOK(b)
<1>1. \A x \in Heads(b) : \E i \in Heads(a) : x = f[i]
  BY EmbedKinds
<1>2. \A x \in Pairs(b) : \E i \in Pairs(a) : x = f[i]
  BY EmbedKinds
<1>3. Errors(b) = {}
  BY EmbedKinds DEF FileOK
<1>4. (\A i \in Heads(a) : i \in 1 .. Len(a)) /\ (\A i \in Pairs(a) : i \in 1 .. Len(a)) /\ Len(a) \in Nat
  BY Indices
<1>5. /\ IsFiniteSet(Heads(a)) /\ Cardinality(Heads(a)) \in Nat
      /\ IsFiniteSet(Pairs(a)) /\ Cardinality(Pairs(a)) \in Nat
  BY <1>4, Finite
<1>6. /\ Cardinality(Heads(b)) \in Nat /\ Cardinality(Heads(b)) <= Cardinality(Heads(a))
      /\ Cardinality(Pairs(b)) \in Nat /\ Cardinality(Pairs(b)) <= Cardinality(Pairs(a))
  BY <1>1, <1>2, <1>5, ImageCount
<1>7. Cardinality(Heads(b)) <= MaxSections /\ Cardinality(Pairs(b)) <= MaxKeyvals
  BY <1>5, <1>6, BoundsAssumption DEF FileOK
<1>8. \A g, h \in Heads(b) : g < h => b[g].sec # b[h].sec
  BY <1>1, EmbedGood
<1>9. \A p \in Pairs(b) : \E h \in Heads(b) : h < p
  BY <1>2, EmbedGood
<1>10. \A p, q \in Pairs(b) : Together(b, p, q) => b[p].key # b[q].key
  BY <1>2, EmbedGood
<1> QED
  BY <1>3, <1>7, <1>8, <1>9, <1>10 DEF FileOK

(* A map that keeps kinds and reaches all headers embeds.                  *)
LEMMA EmbedAll ==
  ASSUME NEW a \in Seq(Line), NEW b \in Seq(Line), NEW f \in [1 .. Len(a) -> 1 .. Len(b)],
         \A i, j \in 1 .. Len(a) : i < j => f[i] < f[j],
         \A i \in 1 .. Len(a) : b[f[i]].type = a[i].type /\ b[f[i]].sec = a[i].sec /\ b[f[i]].key = a[i].key,
         \A x \in Heads(b) : \E i \in 1 .. Len(a) : x = f[i]
  PROVE  Embeds(a, b, f)
<1>1. ASSUME NEW j \in Pairs(a), NEW x \in Heads(b), x < f[j]
      PROVE  \E y \in Heads(a) : x <= f[y] /\ f[y] < f[j]
  <2>1. PICK y \in 1 .. Len(a) : x = f[y]
    OBVIOUS
  <2>2. y \in Heads(a) /\ f[y] \in 1 .. Len(b)
    BY <2>1, Indices DEF Heads
  <2> QED
    BY <1>1, <2>1, <2>2
<1> QED
  BY <1>1 DEF Embeds

(* The value put under s and k is the only one that changes.               *)
LEMMA PutIs ==
  ASSUME NEW n \in Nodes, NEW s \in Sections, NEW k \in Keys, NEW v \in Values, n[s] # NULL
  PROVE  /\ \A t \in Sections : Put(n, s, k, v)[t] = NULL <=> n[t] = NULL
         /\ \A t \in Sections, j \in Keys : n[t] # NULL =>
              Put(n, s, k, v)[t][j] = IF t = s /\ j = k THEN v ELSE n[t][j]
<1> DEFINE m == Put(n, s, k, v)
<1>1. n[s] \in Node
  BY DEF Nodes
<1>2. m[s] = [n[s] EXCEPT ![k] = v] /\ \A t \in Sections : t # s => m[t] = n[t]
  BY DEF Put, Nodes
<1>3. m[s] \in Node /\ m[s] # NULL
  BY <1>1, <1>2, NullAssumption DEF Node
<1> HIDE DEF m
<1>4. /\ \A t \in Sections : m[t] = NULL <=> n[t] = NULL
      /\ \A t \in Sections, j \in Keys : n[t] # NULL => m[t][j] = IF t = s /\ j = k THEN v ELSE n[t][j]
  BY <1>1, <1>2, <1>3 DEF Node
<1> QED
  BY <1>4 DEF m

LEMMA UpdateKeeps ==
  ASSUME NEW lines \in Seq(Line), NEW n \in Nodes, FileOK(lines), Shows(lines, n),
         NEW s \in Sections, NEW k \in Keys, NEW v \in Values, n[s] # NULL, n[s][k] # NULL,
         NEW w, w = RewriteAfterUpdate(lines, s, k, v)
  PROVE  w.res = 0 /\ FileOK(w.out) /\ Shows(w.out, Put(n, s, k, v))
<1> DEFINE hits == {i \in Pairs(lines) : lines[i].key = k /\ \E h \in Named(lines, s) : h < i}
           p == Least(hits)
           mid == <<[lines[p] EXCEPT !.val = v]>> \o (IF lines[p].note THEN <<Plain("blank")>> ELSE <<>>)
           b == UpTo(lines, p - 1) \o mid \o After(lines, p)
           d == Len(mid) - 1
           f == [i \in 1 .. Len(lines) |-> IF i <= p THEN i ELSE i + d]
<1>1. \A i : i \in Heads(lines) \/ i \in Pairs(lines) => i \in 1 .. Len(lines)
  BY Indices
<1>2. PICK u \in Under(lines, s, k) : TRUE
  BY DEF Shows
<1>3. p \in Under(lines, s, k) /\ p \in hits
  <2>1. PICK g \in Heads(lines) : lines[g].sec = s /\ Together(lines, g, u)
    BY DEF Under
  <2>2. u \in hits
    BY <2>1 DEF Under, Named, Together
  <2>3. hits \in SUBSET Nat /\ hits # {}
    BY <1>1, <2>2
  <2>4. p \in hits /\ p <= u
    <3> HIDE DEF hits
    <3> QED
      BY <2>2, <2>3, LeastIn
  <2> HIDE DEF p
  <2>5. PICK h \in Named(lines, s) : h < p
    BY <2>4
  <2>6. h = g
    BY <1>1, <2>1, <2>5 DEF FileOK, Named
  <2>7. Together(lines, g, p)
    BY <1>1, <2>1, <2>4, <2>5, <2>6 DEF Together, Under
  <2> QED
    BY <2>1, <2>4, <2>7 DEF Under
<1>4. p \in 1 .. Len(lines) /\ p \in Pairs(lines) /\ lines[p] \in Line /\ Len(lines) \in Nat
  <2> HIDE DEF p
  <2> QED
    BY <1>1, <1>3, Indices
<1>5. w.out = b /\ w.res = 0
  <2>1. hits # {}
    BY <1>3
  <2>2. w = Written(lines, hits, UpTo(lines, p - 1) \o <<[lines[p] EXCEPT !.val = v]>>
                      \o (IF lines[p].note THEN <<Plain("blank")>> ELSE <<>>) \o After(lines, p))
    BY <2>1 DEF RewriteAfterUpdate
  <2> HIDE DEF hits, p
  <2>3. UpTo(lines, p - 1) \in Seq(Line)
    <3>1. p - 1 \in 0 .. Len(lines)
      BY <1>4
    <3> QED
      BY <3>1, PartTypes
  <2>4. [lines[p] EXCEPT !.val = v] \in Line /\ Plain("blank") \in Line
    BY <1>4, LineTypes DEF Kinds
  <2>5. UpTo(lines, p - 1) \o <<[lines[p] EXCEPT !.val = v]>> \o (IF lines[p].note THEN <<Plain("blank")>> ELSE <<>>)
          = UpTo(lines, p - 1) \o mid
    <3>1. <<[lines[p] EXCEPT !.val = v]>> \in Seq(Line)
      BY <2>4
    <3>2. (IF lines[p].note THEN <<Plain("blank")>> ELSE <<>>) \in Seq(Line)
      BY <2>4
    <3> QED
      BY <2>3, <3>1, <3>2, ConcatAssociative
  <2> HIDE DEF mid
  <2>6. w = Written(lines, hits, b)
    BY <2>2, <2>5
  <2> QED
    BY <2>6 DEF Written, FileOK
<1>6. /\ mid \in Seq(Line) /\ d \in {0, 1} /\ Len(mid) = d + 1 /\ mid[1] = [lines[p] EXCEPT !.val = v]
      /\ d = 1 => mid[2] = Plain("blank")
  <2>1. [lines[p] EXCEPT !.val = v] \in Line /\ Plain("blank") \in Line
    BY <1>4, LineTypes DEF Kinds
  <2> HIDE DEF p
  <2> QED
    BY <2>1
<1> HIDE DEF hits, p, mid, d
<1>7. /\ b \in Seq(Line) /\ Len(b) = Len(lines) + d
      /\ \A i \in 1 .. p - 1 : b[i] = lines[i]
      /\ b[p] = [lines[p] EXCEPT !.val = v] /\ (d = 1 => b[p + 1] = Plain("blank"))
      /\ \A i \in p + 1 .. Len(lines) : b[i + d] = lines[i]
  <2> DEFINE c == p - 1
  <2>1. c \in 0 .. Len(lines) /\ p \in c .. Len(lines) /\ mid \in Seq(Line) /\ b = Splice(lines, mid, c, p)
    BY <1>4, <1>6 DEF Splice
  <2>2. c = p - 1 /\ p \in Nat /\ Len(lines) \in Nat /\ Len(mid) = d + 1 /\ d \in {0, 1}
    BY <1>4, <1>6
  <2> HIDE DEF b, c
  <2>3. /\ b \in Seq(Line) /\ Len(b) = c + Len(mid) + (Len(lines) - p)
        /\ \A x \in 1 .. c : b[x] = lines[x]
        /\ \A x \in 1 .. Len(mid) : b[c + x] = mid[x]
        /\ \A x \in p + 1 .. Len(lines) : b[x + (c + Len(mid) - p)] = lines[x]
    <3>1. IsSplice(b, lines, mid, c, p)
      BY <2>1, SpliceIs
    <3> QED
      BY <3>1 DEF IsSplice
  <2>4. b[c + 1] = mid[1] /\ (d = 1 => b[c + 2] = mid[2])
    BY <2>2, <2>3
  <2>5. /\ c + 1 = p /\ c + 2 = p + 1 /\ c + Len(mid) - p = d
        /\ c + Len(mid) + (Len(lines) - p) = Len(lines) + d
    BY <2>2
  <2>6. \A i \in p + 1 .. Len(lines) : b[i + d] = lines[i]
    BY <2>3, <2>5
  <2> QED
    BY <1>6, <2>2, <2>3, <2>4, <2>5, <2>6
<1> HIDE DEF b
<1>8. /\ f \in [1 .. Len(lines) -> 1 .. Len(b)]
      /\ \A i, j \in 1 .. Len(lines) : i < j => f[i] < f[j]
      /\ f[p] = p
  BY <1>4, <1>6, <1>7
<1>9. ASSUME NEW i \in 1 .. Len(lines), i # p PROVE b[f[i]] = lines[i]
  <2>1. CASE i < p
    BY <1>4, <1>7, <2>1
  <2>2. CASE i > p
    <3>1. i \in p + 1 .. Len(lines) /\ f[i] = i + d
      BY <1>4, <2>2
    <3> QED
      BY <1>7, <3>1
  <2> QED
    BY <1>4, <1>9, <2>1, <2>2
<1>10. \A x \in 1 .. Len(b) : (\E i \in 1 .. Len(lines) : x = f[i]) \/ (d = 1 /\ x = p + 1)
  <2> SUFFICES ASSUME NEW x \in 1 .. Len(b), ~(d = 1 /\ x = p + 1)
               PROVE  \E i \in 1 .. Len(lines) : x = f[i]
    OBVIOUS
  <2>1. CASE x <= p
    <3>1. x \in 1 .. Len(lines) /\ f[x] = x
      BY <1>4, <2>1
    <3> QED
      BY <3>1
  <2>2. CASE x > p
    <3>1. x - d \in 1 .. Len(lines) /\ f[x - d] = x
      BY <1>4, <1>6, <1>7, <2>2
    <3> QED
      BY <3>1
  <2> QED
    BY <1>4, <2>1, <2>2
<1>11. /\ b[p].type = lines[p].type /\ b[p].sec = lines[p].sec /\ b[p].key = lines[p].key /\ b[p].val = v
       /\ d = 1 => b[p + 1].type = "blank"
  BY <1>4, <1>7 DEF Line, Plain
<1> HIDE DEF f
<1>12. \A i \in 1 .. Len(lines) :
         b[f[i]].type = lines[i].type /\ b[f[i]].sec = lines[i].sec /\ b[f[i]].key = lines[i].key
  BY <1>8, <1>9, <1>11
<1>13. \A x \in Heads(b) \cup Pairs(b) \cup Errors(b) : \E i \in 1 .. Len(lines) : x = f[i]
  BY <1>7, <1>10, <1>11, Indices DEF Heads, Pairs, Errors
<1>14. Embeds(lines, b, f)
  BY <1>7, <1>8, <1>12, <1>13, EmbedAll, SMTT(30)
<1>15. FileOK(b)
  BY <1>7, <1>13, <1>14, SameOK
<1> DEFINE m == Put(n, s, k, v)
<1>16. /\ \A t \in Sections : m[t] = NULL <=> n[t] = NULL
       /\ \A t \in Sections, j \in Keys : n[t] # NULL => m[t][j] = IF t = s /\ j = k THEN v ELSE n[t][j]
  BY PutIs
<1>17. \A t : Named(b, t) = {} <=> Named(lines, t) = {}
  <2>1. \A t : \A x \in Named(b, t) : \E i \in 1 .. Len(lines) : x = f[i]
    BY <1>13 DEF Named
  <2>2. \A t : \A i \in Named(lines, t) : i \in 1 .. Len(lines)
    BY <1>1 DEF Named
  <2> QED
    BY <1>7, <1>14, <2>1, <2>2, EmbedKinds
<1>18. \A t, j : \A x \in Under(b, t, j) : \E i \in Under(lines, t, j) : x = f[i]
  <2> SUFFICES ASSUME NEW t, NEW j, NEW x \in Under(b, t, j)
               PROVE  \E i \in Under(lines, t, j) : x = f[i]
    OBVIOUS
  <2>1. PICK i \in 1 .. Len(lines) : x = f[i]
    BY <1>13 DEF Under
  <2>2. i \in Pairs(lines)
    BY <1>7, <1>14, <2>1, EmbedKinds DEF Under
  <2> QED
    BY <1>7, <1>14, <2>1, <2>2, EmbedUnder
<1>19. \A t, j : \A i \in Under(lines, t, j) : f[i] \in Under(b, t, j)
  BY <1>7, <1>14, UnderType, EmbedUnder
<1>20. ASSUME NEW t \in Sections, NEW j \in Keys, n[t] # NULL, NEW x \in Under(b, t, j)
       PROVE  m[t][j] = b[x].val
  <2>1. PICK i \in Under(lines, t, j) : x = f[i]
    BY <1>18
  <2>2. n[t][j] = lines[i].val /\ i \in 1 .. Len(lines)
    BY <1>20, UnderType DEF Shows
  <2>3. CASE t = s /\ j = k
    <3>1. i = p
      BY <1>3, <2>3, OneUnder
    <3> QED
      BY <1>8, <1>11, <1>16, <1>20, <2>1, <2>3, <3>1
  <2>4. CASE ~(t = s /\ j = k)
    <3>1. i # p
      <4>1. PICK g \in Heads(lines) : lines[g].sec = t /\ Together(lines, g, i)
        BY DEF Under
      <4>2. PICK h \in Heads(lines) : lines[h].sec = s /\ Together(lines, h, p)
        BY <1>3 DEF Under
      <4>3. i = p => g = h
        BY <1>4, <4>1, <4>2, OneHeader
      <4>4. lines[i].key = j /\ lines[p].key = k
        BY <1>3 DEF Under
      <4> QED
        BY <2>4, <4>1, <4>2, <4>3, <4>4
    <3> QED
      BY <1>9, <1>16, <1>20, <2>1, <2>2, <2>4, <3>1
  <2> QED
    BY <2>3, <2>4
<1>21. ASSUME NEW t \in Sections, NEW j \in Keys, n[t] # NULL PROVE m[t][j] = NULL <=> Under(b, t, j) = {}
  <2>1. n[t][j] = NULL <=> Under(lines, t, j) = {}
    BY <1>21 DEF Shows
  <2>2. Under(lines, t, j) = {} <=> Under(b, t, j) = {}
    BY <1>18, <1>19
  <2>3. CASE t = s /\ j = k
    BY <1>16, <1>21, <2>1, <2>2, <2>3, NullAssumption
  <2>4. CASE ~(t = s /\ j = k)
    BY <1>16, <1>21, <2>1, <2>2, <2>4
  <2> QED
    BY <2>3, <2>4
<1> HIDE DEF m
<1>22. Shows(b, m)
  BY <1>16, <1>17, <1>20, <1>21 DEF Shows
<1> QED
  BY <1>5, <1>15, <1>22 DEF m

LEMMA AddKeeps ==
  ASSUME NEW lines \in Seq(Line), NEW n \in Nodes, FileOK(lines), Shows(lines, n),
         NEW s \in Sections, NEW k \in Keys, NEW v \in Values, n[s] # NULL, n[s][k] = NULL,
         Cardinality(KeysOf(n)) < MaxKeyvals, ~Unfinished(lines, s),
         NEW w, w = RewriteAfterAdd(lines, s, k, v)
  PROVE  w.res = 0 /\ FileOK(w.out) /\ Shows(w.out, Put(n, s, k, v))
<1> DEFINE h == Least(Named(lines, s))
           mid == <<Pair(k, v)>>
           b == Splice(lines, mid, h, h)
           f == [i \in 1 .. Len(lines) |-> IF i <= h THEN i ELSE i + 1]
<1>1. \A i : i \in Heads(lines) \/ i \in Pairs(lines) => i \in 1 .. Len(lines)
  BY Indices
<1>2. Named(lines, s) # {} /\ h \in Named(lines, s)
  <2>1. Named(lines, s) \in SUBSET Nat /\ Named(lines, s) # {}
    BY Indices DEF Shows
  <2> QED
    BY <2>1, LeastIn
<1>3. w.out = b /\ w.res = 0
  BY <1>2 DEF RewriteAfterAdd, Written, FileOK, Unfinished, Splice
<1> HIDE DEF h
<1>4. /\ h \in 1 .. Len(lines) /\ h \in Heads(lines) /\ lines[h].sec = s /\ Len(lines) \in Nat
      /\ h \in 0 .. Len(lines) /\ h \in h .. Len(lines)
  BY <1>1, <1>2 DEF Named
<1>5. mid \in Seq(Line) /\ Len(mid) = 1 /\ mid[1] = Pair(k, v)
  BY LineTypes
<1>6. IsSplice(b, lines, mid, h, h)
  BY <1>4, <1>5, SpliceIs
<1> HIDE DEF b, mid
<1>7. /\ b \in Seq(Line) /\ Len(b) = Len(lines) + 1
      /\ \A i \in 1 .. h : b[i] = lines[i]
      /\ b[h + 1] = Pair(k, v)
      /\ \A i \in h + 1 .. Len(lines) : b[i + 1] = lines[i]
  BY <1>4, <1>5, <1>6 DEF IsSplice
<1>8. /\ f \in [1 .. Len(lines) -> 1 .. Len(b)]
      /\ \A i, j \in 1 .. Len(lines) : i < j => f[i] < f[j]
      /\ \A i \in 1 .. Len(lines) : f[i] # h + 1 /\ (f[i] <= h <=> i <= h)
      /\ f[h] = h
  BY <1>4, <1>7
<1>9. ASSUME NEW i \in 1 .. Len(lines) PROVE b[f[i]] = lines[i]
  <2>1. CASE i <= h
    BY <1>4, <1>7, <2>1
  <2>2. CASE i > h
    <3>1. i \in h + 1 .. Len(lines) /\ f[i] = i + 1
      BY <1>4, <2>2
    <3> QED
      BY <1>7, <3>1
  <2> QED
    BY <1>4, <2>1, <2>2
<1>10. \A x \in 1 .. Len(b) : x # h + 1 => \E i \in 1 .. Len(lines) : x = f[i]
  <2> SUFFICES ASSUME NEW x \in 1 .. Len(b), x # h + 1 PROVE \E i \in 1 .. Len(lines) : x = f[i]
    OBVIOUS
  <2>1. CASE x <= h
    <3>1. x \in 1 .. Len(lines) /\ f[x] = x
      BY <1>4, <2>1
    <3> QED
      BY <3>1
  <2>2. CASE x > h
    <3>1. x - 1 \in 1 .. Len(lines) /\ f[x - 1] = x
      BY <1>4, <1>7, <2>2
    <3> QED
      BY <3>1
  <2> QED
    BY <1>4, <2>1, <2>2
<1>11. b[h + 1].type = "keyvalue" /\ b[h + 1].key = k /\ b[h + 1].val = v
  BY <1>7 DEF Pair, Plain
<1> HIDE DEF f
<1>12. h + 1 \in Pairs(b) /\ h \in Heads(b) /\ h + 1 \in 1 .. Len(b) /\ b[h].sec = s
  BY <1>4, <1>7, <1>11 DEF Heads, Pairs
<1>13. \A x \in Heads(b) \cup Errors(b) : \E i \in 1 .. Len(lines) : x = f[i]
  BY <1>7, <1>10, <1>11, Indices DEF Heads, Errors
<1>14. Embeds(lines, b, f)
  BY <1>7, <1>8, <1>9, <1>13, EmbedAll
<1>15. \A x \in Heads(b) : \E i \in Heads(lines) : x = f[i]
  BY <1>7, <1>13, <1>14, EmbedKinds
<1>16. \A x \in Pairs(b) : x # h + 1 => \E i \in Pairs(lines) : x = f[i]
  BY <1>7, <1>10, <1>14, EmbedKinds, Indices
<1>17. Together(b, h, h + 1)
  BY <1>4, <1>7, Indices, <1>12 DEF Together, Heads, Pairs
<1>18. ASSUME NEW x \in Pairs(b), x # h + 1, Together(b, x, h + 1) \/ Together(b, h + 1, x)
       PROVE  b[x].key # k
  <2>1. x \in 1 .. Len(b)
    BY <1>7, Indices
  <2>2. x # h
    BY <1>12 DEF Heads, Pairs
  <2>3. ~Together(b, x, h + 1)
    BY <1>4, <1>12, <1>18, <2>1, <2>2 DEF Together
  <2>4. Together(b, h, x)
    BY <1>4, <1>17, <1>18, <2>1, <2>3 DEF Together
  <2>5. PICK i \in Pairs(lines) : x = f[i]
    BY <1>16, <1>18
  <2>6. b[x].key = k => x \in Under(b, s, k)
    BY <1>12, <2>4 DEF Under
  <2>7. b[x].key = k => i \in Under(lines, s, k)
    BY <1>7, <1>14, <2>5, <2>6, EmbedUnder
  <2>8. Under(lines, s, k) = {}
    BY DEF Shows
  <2> QED
    BY <2>7, <2>8
<1>19. FileOK(b)
  <2>1. /\ IsFiniteSet(Heads(lines)) /\ Cardinality(Heads(lines)) \in Nat
        /\ IsFiniteSet(Pairs(lines)) /\ Cardinality(Pairs(lines)) \in Nat
    BY <1>1, <1>4, Finite
  <2>2. Cardinality(Heads(b)) <= MaxSections
    <3>1. Cardinality(Heads(b)) \in Nat /\ Cardinality(Heads(b)) <= Cardinality(Heads(lines))
      BY <1>15, <2>1, ImageCount
    <3> QED
      BY <2>1, <3>1, BoundsAssumption DEF FileOK
  <2>3. Cardinality(Pairs(b)) <= MaxKeyvals
    <3> DEFINE old == Pairs(b) \ {h + 1}
    <3>1. \A x \in old : \E i \in Pairs(lines) : x = f[i]
      BY <1>16
    <3>2. Pairs(b) = old \cup {h + 1}
      BY <1>12
    <3> HIDE DEF old
    <3>3. IsFiniteSet(old) /\ Cardinality(old) \in Nat /\ Cardinality(old) <= Cardinality(Pairs(lines))
      BY <2>1, <3>1, ImageCount
    <3>4. Cardinality(Pairs(b)) \in Nat /\ Cardinality(Pairs(b)) <= Cardinality(old) + 1
      BY <3>2, <3>3, OneMore
    <3>5. Cardinality(Pairs(lines)) <= Cardinality(KeysOf(n)) /\ Cardinality(KeysOf(n)) \in Nat
      BY FileCounts, CountTypes
    <3> QED
      BY <2>1, <3>3, <3>4, <3>5, BoundsAssumption
  <2>4. \A x, y \in Heads(b) : x < y => b[x].sec # b[y].sec
    BY <1>7, <1>14, <1>15, EmbedGood
  <2>5. \A p \in Pairs(b) : \E x \in Heads(b) : x < p
    <3> SUFFICES ASSUME NEW p \in Pairs(b) PROVE \E x \in Heads(b) : x < p
      OBVIOUS
    <3>1. CASE p = h + 1
      BY <1>4, <1>12, <3>1
    <3>2. CASE p # h + 1
      BY <1>7, <1>14, <1>16, <3>2, EmbedGood
    <3> QED
      BY <3>1, <3>2
  <2>6. \A p, q \in Pairs(b) : Together(b, p, q) => b[p].key # b[q].key
    <3> SUFFICES ASSUME NEW p \in Pairs(b), NEW q \in Pairs(b), Together(b, p, q) PROVE b[p].key # b[q].key
      OBVIOUS
    <3>1. p \in 1 .. Len(b) /\ q \in 1 .. Len(b) /\ p # q
      BY <1>7, Indices DEF Together
    <3>2. CASE p = h + 1
      BY <1>11, <1>18, <3>1, <3>2
    <3>3. CASE q = h + 1
      BY <1>11, <1>18, <3>1, <3>3
    <3>4. CASE p # h + 1 /\ q # h + 1
      BY <1>7, <1>14, <1>16, <3>4, EmbedGood
    <3> QED
      BY <3>2, <3>3, <3>4
  <2>7. Errors(b) = {}
    BY <1>7, <1>13, <1>14, EmbedKinds DEF FileOK
  <2> QED
    BY <2>2, <2>3, <2>4, <2>5, <2>6, <2>7 DEF FileOK
<1> DEFINE m == Put(n, s, k, v)
<1>20. /\ \A t \in Sections : m[t] = NULL <=> n[t] = NULL
       /\ \A t \in Sections, j \in Keys : n[t] # NULL => m[t][j] = IF t = s /\ j = k THEN v ELSE n[t][j]
  BY PutIs
<1> HIDE DEF m
<1>21. \A t : Named(b, t) = {} <=> Named(lines, t) = {}
  <2>1. \A t : \A x \in Named(b, t) : \E i \in 1 .. Len(lines) : x = f[i]
    BY <1>13 DEF Named
  <2>2. \A t : \A i \in Named(lines, t) : i \in 1 .. Len(lines)
    BY <1>1 DEF Named
  <2> QED
    BY <1>7, <1>14, <2>1, <2>2, EmbedKinds
<1>22. h + 1 \in Under(b, s, k) /\ \A t, j : h + 1 \in Under(b, t, j) => t = s /\ j = k
  <2>1. h + 1 \in Under(b, s, k)
    BY <1>11, <1>12, <1>17 DEF Under
  <2>2. ASSUME NEW t, NEW j, h + 1 \in Under(b, t, j) PROVE t = s /\ j = k
    <3>1. PICK g \in Heads(b) : b[g].sec = t /\ Together(b, g, h + 1)
      BY <2>2 DEF Under
    <3>2. g = h
      BY <1>7, <1>12, <1>17, <3>1, OneHeader
    <3> QED
      BY <1>11, <1>12, <2>2, <3>1, <3>2 DEF Under
  <2> QED
    BY <2>1, <2>2
<1>23. ASSUME NEW t \in Sections, NEW j \in Keys, n[t] # NULL
       PROVE  /\ m[t][j] = NULL <=> Under(b, t, j) = {}
              /\ \A x \in Under(b, t, j) : m[t][j] = b[x].val
  <2>1. CASE t = s /\ j = k
    <3>1. m[t][j] = v /\ v # NULL
      BY <1>20, <1>23, <2>1, NullAssumption
    <3>2. \A x \in Under(b, t, j) : x = h + 1
      BY <1>7, <1>19, <1>22, <2>1, OneUnder
    <3> QED
      BY <1>11, <1>22, <2>1, <3>1, <3>2
  <2>2. CASE ~(t = s /\ j = k)
    <3>1. m[t][j] = n[t][j]
      BY <1>20, <1>23, <2>2
    <3>2. \A i \in Under(lines, t, j) : f[i] \in Under(b, t, j)
      BY <1>7, <1>14, UnderType, EmbedUnder
    <3>3. ASSUME NEW x \in Under(b, t, j) PROVE \E i \in Under(lines, t, j) : x = f[i]
      <4>1. x # h + 1 /\ x \in Pairs(b)
        BY <1>22, <2>2 DEF Under
      <4>2. PICK i \in Pairs(lines) : x = f[i]
        BY <1>16, <4>1
      <4> QED
        BY <1>7, <1>14, <4>2, EmbedUnder
    <3>4. \A i \in Under(lines, t, j) : n[t][j] = lines[i].val /\ b[f[i]] = lines[i]
      BY <1>9, <1>23, UnderType DEF Shows
    <3>5. n[t][j] = NULL <=> Under(lines, t, j) = {}
      BY <1>23 DEF Shows
    <3> QED
      BY <3>1, <3>2, <3>3, <3>4, <3>5
  <2> QED
    BY <2>1, <2>2
<1>24. Shows(b, m)
  BY <1>20, <1>21, <1>23 DEF Shows
<1> QED
  BY <1>3, <1>19, <1>24 DEF m

LEMMA AddSectionKeeps ==
  ASSUME NEW lines \in Seq(Line), NEW n \in Nodes, FileOK(lines), Shows(lines, n),
         NEW s \in Sections, n[s] = NULL, Cardinality(SectionsOf(n)) < MaxSections,
         NEW w, w = RewriteAfterAddSection(lines, s)
  PROVE  w.res = 0 /\ FileOK(w.out) /\ Shows(w.out, [n EXCEPT ![s] = NoKeys])
<1> DEFINE top == <<Header(s), Plain("blank")>>
           b == top \o lines
           f == [i \in 1 .. Len(lines) |-> 2 + i]
<1>1. (\A i : i \in Heads(lines) \/ i \in Pairs(lines) => i \in 1 .. Len(lines)) /\ Len(lines) \in Nat
  BY Indices
<1>2. w.out = b /\ w.res = 0
  BY DEF RewriteAfterAddSection
<1>3. top \in Seq(Line) /\ Len(top) = 2 /\ top[1] = Header(s) /\ top[2] = Plain("blank")
  BY LineTypes DEF Kinds
<1> HIDE DEF top
<1>4. /\ b \in Seq(Line) /\ Len(b) = 2 + Len(lines) /\ b[1] = Header(s) /\ b[2] = Plain("blank")
      /\ \A i \in 1 .. Len(lines) : b[2 + i] = lines[i]
  <2>1. /\ b \in Seq(Line) /\ Len(b) = Len(top) + Len(lines)
        /\ \A x \in 1 .. Len(top) : b[x] = top[x]
        /\ \A x \in 1 .. Len(lines) : b[Len(top) + x] = lines[x]
    <3>1. top \in Seq(Line)
      BY <1>3
    <3> QED
      BY <3>1, Concat
  <2> HIDE DEF b
  <2> QED
    BY <1>3, <2>1
<1> HIDE DEF b
<1>5. /\ f \in [1 .. Len(lines) -> 1 .. Len(b)]
      /\ \A i, j \in 1 .. Len(lines) : i < j => f[i] < f[j]
      /\ \A i \in 1 .. Len(lines) : b[f[i]] = lines[i] /\ f[i] > 2
  BY <1>1, <1>4
<1>6. \A x \in 1 .. Len(b) : x = 1 \/ x = 2 \/ \E i \in 1 .. Len(lines) : x = f[i]
  <2> SUFFICES ASSUME NEW x \in 1 .. Len(b), x # 1, x # 2 PROVE \E i \in 1 .. Len(lines) : x = f[i]
    OBVIOUS
  <2>1. x - 2 \in 1 .. Len(lines) /\ f[x - 2] = x
    BY <1>1, <1>4
  <2> QED
    BY <2>1
<1> HIDE DEF f
<1>7. b[1].type = "section" /\ b[1].sec = s /\ b[2].type = "blank" /\ 1 \in 1 .. Len(b)
  BY <1>1, <1>4 DEF Header, Plain
<1>8. 1 \in Heads(b)
  BY <1>4, <1>7, Indices DEF Heads
<1>9. /\ \A x \in Pairs(b) \cup Errors(b) : \E i \in 1 .. Len(lines) : x = f[i]
      /\ \A x \in Heads(b) : x # 1 => \E i \in 1 .. Len(lines) : x = f[i]
  BY <1>4, <1>6, <1>7, Indices DEF Heads, Pairs, Errors
<1>10. Embeds(lines, b, f)
  <2>1. ASSUME NEW j \in Pairs(lines), NEW x \in Heads(b), x < f[j]
        PROVE  \E y \in Heads(lines) : x <= f[y] /\ f[y] < f[j]
    <3>1. CASE x = 1
      <4>1. PICK y \in Heads(lines) : y < j
        BY DEF FileOK
      <4>2. f[y] < f[j] /\ f[y] > 2 /\ f[y] \in 1 .. Len(b)
        BY <1>1, <1>5, <4>1
      <4> QED
        BY <3>1, <4>2
    <3>2. CASE x # 1
      <4>1. PICK y \in 1 .. Len(lines) : x = f[y]
        BY <1>9, <3>2
      <4>2. y \in Heads(lines) /\ f[y] \in 1 .. Len(b)
        BY <1>4, <1>5, <4>1, Indices DEF Heads
      <4> QED
        BY <2>1, <4>1, <4>2
    <3> QED
      BY <3>1, <3>2
  <2> QED
    BY <1>5, <2>1 DEF Embeds
<1>11. \A x \in Heads(b) : x # 1 => \E i \in Heads(lines) : x = f[i]
  BY <1>4, <1>9, <1>10, EmbedKinds
<1>12. \A x \in Pairs(b) : \E i \in Pairs(lines) : x = f[i]
  BY <1>4, <1>9, <1>10, EmbedKinds
<1>13. Named(lines, s) = {}
  BY DEF Shows
<1>14. FileOK(b)
  <2>1. /\ IsFiniteSet(Heads(lines)) /\ Cardinality(Heads(lines)) \in Nat
        /\ IsFiniteSet(Pairs(lines)) /\ Cardinality(Pairs(lines)) \in Nat
    BY <1>1, Finite
  <2>2. Cardinality(Heads(b)) <= MaxSections
    <3> DEFINE old == Heads(b) \ {1}
    <3>1. \A x \in old : \E i \in Heads(lines) : x = f[i]
      BY <1>11
    <3>2. Heads(b) = old \cup {1}
      BY <1>8
    <3> HIDE DEF old
    <3>3. IsFiniteSet(old) /\ Cardinality(old) \in Nat /\ Cardinality(old) <= Cardinality(Heads(lines))
      BY <2>1, <3>1, ImageCount
    <3>4. Cardinality(Heads(b)) \in Nat /\ Cardinality(Heads(b)) <= Cardinality(old) + 1
      BY <3>2, <3>3, OneMore
    <3>5. Cardinality(Heads(lines)) <= Cardinality(SectionsOf(n)) /\ Cardinality(SectionsOf(n)) \in Nat
      BY FileCounts, CountTypes
    <3> QED
      BY <2>1, <3>3, <3>4, <3>5, BoundsAssumption
  <2>3. Cardinality(Pairs(b)) <= MaxKeyvals
    <3>1. Cardinality(Pairs(b)) \in Nat /\ Cardinality(Pairs(b)) <= Cardinality(Pairs(lines))
      BY <1>12, <2>1, ImageCount
    <3> QED
      BY <2>1, <3>1, BoundsAssumption DEF FileOK
  <2>4. \A x, y \in Heads(b) : x < y => b[x].sec # b[y].sec
    <3> SUFFICES ASSUME NEW x \in Heads(b), NEW y \in Heads(b), x < y PROVE b[x].sec # b[y].sec
      OBVIOUS
    <3>1. x \in 1 .. Len(b) /\ y \in 1 .. Len(b) /\ y # 1
      BY <1>4, Indices
    <3>2. PICK i \in Heads(lines) : y = f[i]
      BY <1>11, <3>1
    <3>3. CASE x = 1
      BY <1>1, <1>5, <1>7, <1>13, <3>2, <3>3 DEF Named
    <3>4. CASE x # 1
      BY <1>4, <1>10, <1>11, <3>2, <3>4, EmbedGood
    <3> QED
      BY <3>3, <3>4
  <2>5. \A p \in Pairs(b) : \E x \in Heads(b) : x < p
    BY <1>4, <1>10, <1>12, EmbedGood
  <2>6. \A p, q \in Pairs(b) : Together(b, p, q) => b[p].key # b[q].key
    BY <1>4, <1>10, <1>12, EmbedGood
  <2>7. Errors(b) = {}
    BY <1>4, <1>9, <1>10, EmbedKinds DEF FileOK
  <2> QED
    BY <2>2, <2>3, <2>4, <2>5, <2>6, <2>7 DEF FileOK
<1>15. ASSUME NEW t, NEW j, NEW x \in Under(b, t, j) PROVE \E i \in Under(lines, t, j) : x = f[i]
  <2>1. PICK i \in Pairs(lines) : x = f[i]
    BY <1>12 DEF Under
  <2> QED
    BY <1>4, <1>10, <2>1, EmbedUnder
<1>16. \A t, j : \A i \in Under(lines, t, j) : f[i] \in Under(b, t, j)
  BY <1>4, <1>10, UnderType, EmbedUnder
<1>17. \A j : Under(lines, s, j) = {}
  BY <1>13 DEF Under, Named
<1>18. ASSUME NEW t, t # s PROVE Named(b, t) = {} <=> Named(lines, t) = {}
  <2>1. \A x \in Named(b, t) : x # 1 /\ x \in Heads(b)
    BY <1>7, <1>18 DEF Named
  <2>2. \A i \in Named(lines, t) : i \in 1 .. Len(lines)
    BY <1>1 DEF Named
  <2> QED
    BY <1>4, <1>9, <1>10, <2>1, <2>2, EmbedKinds
<1>19. Named(b, s) # {}
  BY <1>7, <1>8 DEF Named
<1> DEFINE m == [n EXCEPT ![s] = NoKeys]
<1>20. /\ m[s] = NoKeys /\ NoKeys # NULL /\ \A t \in Sections : t # s => m[t] = n[t]
       /\ \A j \in Keys : NoKeys[j] = NULL
  BY NullAssumption DEF Nodes, NoKeys, Node
<1> HIDE DEF m
<1>21. \A t \in Sections : m[t] = NULL <=> Named(b, t) = {}
  BY <1>18, <1>19, <1>20 DEF Shows
<1>22. ASSUME NEW t \in Sections, NEW j \in Keys, m[t] # NULL
       PROVE  /\ m[t][j] = NULL <=> Under(b, t, j) = {}
              /\ \A x \in Under(b, t, j) : m[t][j] = b[x].val
  <2>1. CASE t = s
    BY <1>15, <1>17, <1>20, <2>1
  <2>2. CASE t # s
    <3>1. m[t] = n[t]
      BY <1>20, <2>2
    <3>2. \A i \in Under(lines, t, j) : n[t][j] = lines[i].val /\ b[f[i]] = lines[i]
      BY <1>5, <1>22, <3>1, UnderType DEF Shows
    <3>3. n[t][j] = NULL <=> Under(lines, t, j) = {}
      BY <1>22, <3>1 DEF Shows
    <3> QED
      BY <1>15, <1>16, <3>1, <3>2, <3>3
  <2> QED
    BY <2>1, <2>2
<1>23. Shows(b, m)
  BY <1>21, <1>22 DEF Shows
<1> QED
  BY <1>2, <1>14, <1>23 DEF m

LEMMA DeleteKeeps ==
  ASSUME NEW lines \in Seq(Line), NEW n \in Nodes, FileOK(lines), Shows(lines, n),
         NEW s \in Sections, n[s] # NULL, NEW w \in RewriteAfterDelete(lines, s, NULL)
  PROVE  w.res = 0 /\ FileOK(w.out) /\ Shows(w.out, [n EXCEPT ![s] = NULL])
<1> DEFINE h == Least(Named(lines, s))
           gone == Dropped(lines, s, NULL)
           K == Kept(lines, gone)
           a == Without(lines, gone)
           f == [i \in 1 .. Len(a) |-> Nth(K, i)]
           r == [x \in 1 .. Len(lines) |-> Rank(K, x)]
<1>1. (\A i : i \in Heads(lines) \/ i \in Pairs(lines) => i \in 1 .. Len(lines)) /\ Len(lines) \in Nat
  BY Indices
<1>2. Named(lines, s) # {} /\ h \in Named(lines, s)
  <2>1. Named(lines, s) \in SUBSET Nat /\ Named(lines, s) # {}
    BY Indices DEF Shows
  <2> QED
    BY <2>1, LeastIn
<1>3. gone = {h} \cup {p \in Pairs(lines) : Together(lines, h, p)}
  BY <1>2 DEF Dropped
<1>4. w.out = a /\ w.res = 0
  <2>1. gone # {}
    BY <1>3
  <2>2. \A S : Written(lines, S, a).res = 0 /\ Written(lines, S, a).out = a
    BY DEF Written, FileOK
  <2>3. \E S : w = Written(lines, S, a)
    BY <2>1, <2>2 DEF RewriteAfterDelete
  <2> QED
    BY <2>2, <2>3
<1> HIDE DEF h
<1>5. h \in 1 .. Len(lines) /\ h \in Heads(lines) /\ lines[h].sec = s /\ h \notin Pairs(lines)
  BY <1>1, <1>2 DEF Named, Heads, Pairs
<1>6. /\ a \in Seq(Line) /\ Len(a) = Cardinality(K) /\ Cardinality(K) \in Nat
      /\ a = [i \in 1 .. Cardinality(K) |-> lines[Nth(K, i)]]
      /\ \A x \in K : x \in 1 .. Len(lines)
  BY WithoutIs, Indices DEF Kept
<1>7. \A x \in 1 .. Len(lines) : x \in K <=> ~(x = h \/ (x \in Pairs(lines) /\ Together(lines, h, x)))
  BY <1>3, Indices DEF Kept
<1> HIDE DEF gone, K, a
<1>8. \A i \in 1 .. Len(a) : f[i] \in K /\ Rank(K, f[i]) = i /\ a[i] = lines[f[i]]
  BY <1>1, <1>6, NthType
<1>9. \A x, y \in K : x < y => Rank(K, x) < Rank(K, y)
  BY <1>1, <1>6, RankGrows
<1>10. \A x \in K : Rank(K, x) \in 1 .. Len(a) /\ f[Rank(K, x)] = x
  <2> SUFFICES ASSUME NEW x \in K PROVE Rank(K, x) \in 1 .. Len(a) /\ f[Rank(K, x)] = x
    OBVIOUS
  <2>1. IsFiniteSet(Until(K, x)) /\ Rank(K, x) \in Nat /\ Rank(K, x) <= Cardinality(K)
    BY <1>1, <1>6, RankType
  <2>2. x \in Until(K, x) /\ x \in Nat
    BY <1>6 DEF Until
  <2>3. Rank(K, x) # 0
    BY <2>1, <2>2, FS_EmptySet DEF Rank
  <2>4. Rank(K, x) \in 1 .. Len(a)
    BY <1>6, <2>1, <2>3
  <2> DEFINE y == f[Rank(K, x)]
  <2>5. y \in K /\ Rank(K, y) = Rank(K, x)
    BY <1>8, <2>4
  <2> HIDE DEF y
  <2>6. x \in Nat /\ y \in Nat /\ ~(x < y) /\ ~(y < x)
    BY <1>6, <1>9, <2>1, <2>5
  <2>7. y = x
    BY <2>6
  <2> QED
    BY <2>4, <2>7 DEF y
<1> HIDE DEF f
<1>11. \A x \in K : \E i \in 1 .. Len(a) : x = f[i]
  BY <1>10
<1>12. /\ f \in [1 .. Len(a) -> 1 .. Len(lines)]
       /\ \A i, j \in 1 .. Len(a) : i < j => f[i] < f[j]
  <2>1. f \in [1 .. Len(a) -> 1 .. Len(lines)]
    BY <1>6, <1>8 DEF f
  <2>2. ASSUME NEW i \in 1 .. Len(a), NEW j \in 1 .. Len(a), i < j PROVE f[i] < f[j]
    <3>1. f[i] \in K /\ f[j] \in K /\ f[i] \in Nat /\ f[j] \in Nat /\ Rank(K, f[i]) = i /\ Rank(K, f[j]) = j
      BY <1>6, <1>8
    <3>2. f[i] # f[j] /\ ~(f[j] < f[i])
      BY <1>9, <2>2, <3>1
    <3> QED
      BY <3>1, <3>2
  <2> QED
    BY <2>1, <2>2
<1>13. \A x \in Heads(lines) : x # h => x \in K
  BY <1>1, <1>7 DEF Heads, Pairs
<1>14. ASSUME NEW j \in Pairs(a), NEW x \in Heads(lines), x < f[j]
       PROVE  \E y \in Heads(a) : x <= f[y] /\ f[y] < f[j]
  <2>1. j \in 1 .. Len(a) /\ f[j] \in K /\ f[j] \in 1 .. Len(lines) /\ f[j] \in Pairs(lines)
    BY <1>6, <1>8, Indices DEF Pairs
  <2>2. PICK g \in Heads(lines) : g # h /\ x <= g /\ g < f[j]
    <3>1. CASE x # h
      BY <1>1, <1>14, <3>1
    <3>2. CASE x = h
      <4>1. ~Together(lines, h, f[j])
        BY <1>7, <2>1
      <4>2. PICK g \in Heads(lines) : h < g /\ g <= f[j]
        BY <1>14, <3>2, <4>1 DEF Together
      <4>3. g # f[j]
        BY <2>1 DEF Heads, Pairs
      <4> QED
        BY <1>1, <1>5, <2>1, <3>2, <4>2, <4>3
    <3> QED
      BY <3>1, <3>2
  <2>3. PICK y \in 1 .. Len(a) : g = f[y]
    BY <1>11, <1>13, <2>2
  <2>4. y \in Heads(a)
    BY <1>6, <1>8, <2>2, <2>3, Indices DEF Heads
  <2> QED
    BY <2>2, <2>3, <2>4
<1>15. Embeds(a, lines, f)
  BY <1>8, <1>12, <1>14 DEF Embeds
<1>16. (\A i \in Heads(a) : i \in 1 .. Len(a)) /\ (\A i \in Pairs(a) : i \in 1 .. Len(a))
  BY <1>6, Indices
<1>17. FileOK(a)
  <2>1. /\ IsFiniteSet(Heads(lines)) /\ Cardinality(Heads(lines)) \in Nat
        /\ IsFiniteSet(Pairs(lines)) /\ Cardinality(Pairs(lines)) \in Nat
    BY <1>1, Finite
  <2>2. \A i \in 1 .. Len(a) : i = r[f[i]]
    BY <1>8, <1>12
  <2> HIDE DEF r
  <2>3. \A i \in Heads(a) : \E x \in Heads(lines) : i = r[x]
    BY <1>6, <1>15, <1>16, <2>2, EmbedKinds
  <2>4. \A i \in Pairs(a) : \E x \in Pairs(lines) : i = r[x]
    BY <1>6, <1>15, <1>16, <2>2, EmbedKinds
  <2>5. /\ Cardinality(Heads(a)) \in Nat /\ Cardinality(Heads(a)) <= Cardinality(Heads(lines))
        /\ Cardinality(Pairs(a)) \in Nat /\ Cardinality(Pairs(a)) <= Cardinality(Pairs(lines))
    BY <2>1, <2>3, <2>4, ImageCount
  <2>6. Cardinality(Heads(a)) <= MaxSections /\ Cardinality(Pairs(a)) <= MaxKeyvals
    BY <2>1, <2>5, BoundsAssumption DEF FileOK
  <2>7. ASSUME NEW x \in Heads(a), NEW y \in Heads(a), x < y PROVE a[x].sec # a[y].sec
    <3>1. f[x] \in Heads(lines) /\ f[y] \in Heads(lines) /\ f[x] < f[y]
      BY <1>6, <1>15, <1>16, <2>7, EmbedKinds, EmbedOrder
    <3>2. lines[f[x]].sec # lines[f[y]].sec
      BY <3>1 DEF FileOK
    <3> QED
      BY <1>8, <1>16, <3>2
  <2>8. ASSUME NEW p \in Pairs(a) PROVE \E y \in Heads(a) : y < p
    <3>1. f[p] \in Pairs(lines)
      BY <1>6, <1>15, <1>16, EmbedKinds
    <3>2. PICK x \in Heads(lines) : x < f[p]
      BY <3>1 DEF FileOK
    <3>3. PICK y \in Heads(a) : f[y] < f[p]
      BY <1>14, <3>2
    <3> QED
      BY <1>6, <1>15, <1>16, <3>3, EmbedOrder
  <2>9. ASSUME NEW p \in Pairs(a), NEW q \in Pairs(a), Together(a, p, q) PROVE a[p].key # a[q].key
    <3>1. Together(lines, f[p], f[q]) /\ f[p] \in Pairs(lines) /\ f[q] \in Pairs(lines)
      BY <1>6, <1>15, <1>16, <2>9, EmbedTogether, EmbedKinds
    <3>2. lines[f[p]].key # lines[f[q]].key
      BY <3>1 DEF FileOK
    <3> QED
      BY <1>8, <1>16, <3>2
  <2>10. Errors(a) = {}
    BY <1>6, <1>15, EmbedKinds, Indices DEF FileOK
  <2> QED
    BY <2>6, <2>7, <2>8, <2>9, <2>10 DEF FileOK
<1>18. ASSUME NEW t, NEW j, t # s, NEW x \in Under(lines, t, j) PROVE \E i \in Under(a, t, j) : x = f[i]
  <2>1. x \in Pairs(lines) /\ x \in 1 .. Len(lines)
    BY UnderType
  <2>2. PICK g \in Heads(lines) : lines[g].sec = t /\ Together(lines, g, x)
    BY DEF Under
  <2>3. ~Together(lines, h, x)
    BY <1>5, <1>18, <2>1, <2>2, OneHeader
  <2>4. PICK i \in 1 .. Len(a) : x = f[i]
    BY <1>5, <1>7, <1>11, <2>1, <2>3
  <2>5. i \in Pairs(a)
    BY <1>6, <1>15, <2>1, <2>4, EmbedKinds
  <2> QED
    BY <1>6, <1>15, <2>4, <2>5, EmbedUnder
<1>19. \A t, j : \A i \in Under(a, t, j) : f[i] \in Under(lines, t, j)
  BY <1>6, <1>15, UnderType, EmbedUnder
<1>20. Named(a, s) = {}
  <2> SUFFICES ASSUME NEW i \in Named(a, s) PROVE FALSE
    OBVIOUS
  <2>1. i \in 1 .. Len(a) /\ f[i] \in Named(lines, s)
    BY <1>6, <1>15, <1>16, EmbedKinds DEF Named
  <2>2. f[i] = h
    BY <1>1, <1>5, <2>1 DEF Named, FileOK
  <2> QED
    BY <1>5, <1>7, <1>8, <2>1, <2>2
<1>21. ASSUME NEW t, t # s PROVE Named(a, t) = {} <=> Named(lines, t) = {}
  <2>1. ASSUME NEW x \in Named(lines, t) PROVE Named(a, t) # {}
    <3>1. x \in K
      BY <1>5, <1>13, <1>21 DEF Named
    <3>2. PICK i \in 1 .. Len(a) : x = f[i]
      BY <1>11, <3>1
    <3> QED
      BY <1>6, <1>15, <3>2, EmbedKinds
  <2>2. ASSUME NEW i \in Named(a, t) PROVE Named(lines, t) # {}
    <3>1. i \in 1 .. Len(a)
      BY <1>16 DEF Named
    <3>2. f[i] \in Named(lines, t)
      BY <1>6, <1>15, <3>1, EmbedKinds
    <3> QED
      BY <3>2
  <2> QED
    BY <2>1, <2>2
<1> DEFINE m == [n EXCEPT ![s] = NULL]
<1>22. m[s] = NULL /\ \A t \in Sections : t # s => m[t] = n[t]
  BY DEF Nodes
<1> HIDE DEF m
<1>23. \A t \in Sections : m[t] = NULL <=> Named(a, t) = {}
  BY <1>20, <1>21, <1>22 DEF Shows
<1>24. ASSUME NEW t \in Sections, NEW j \in Keys, m[t] # NULL
       PROVE  /\ m[t][j] = NULL <=> Under(a, t, j) = {}
              /\ \A x \in Under(a, t, j) : m[t][j] = a[x].val
  <2>1. t # s /\ m[t] = n[t]
    BY <1>22, <1>24
  <2>2. \A i \in Under(a, t, j) : a[i] = lines[f[i]] /\ n[t][j] = lines[f[i]].val
    BY <1>6, <1>8, <1>19, <1>24, <2>1, UnderType DEF Shows
  <2>3. n[t][j] = NULL <=> Under(lines, t, j) = {}
    BY <1>24, <2>1 DEF Shows
  <2> QED
    BY <1>18, <1>19, <2>1, <2>2, <2>3
<1>25. Shows(a, m)
  BY <1>23, <1>24 DEF Shows
<1> QED
  BY <1>4, <1>17, <1>25 DEF m
-----------------------------------------------------------------------------
(* As long as the two are not known to differ, the file on disk says what  *)
(* the nodes say, or the one being written does.                           *)

Says(lines, n) == FileOK(lines) /\ Shows(lines, n)

MirrorInv ==
  open /\ ~drift =>
    /\ pc = "idle" => Says(disk, nodes)
    /\ pc # "idle" => res >= 0 /\ Says(out, nodes)

LEMMA RewriteMirrors ==
  ASSUME IInv, MirrorInv, Ready, NEW n, NEW w, NEW off \in BOOLEAN, Rewrite(n, w, off),
         (Says(disk, nodes) /\ off = FALSE) => w.res = 0 /\ Says(w.out, n)
  PROVE  MirrorInv'
<1>1. open /\ pc = "idle" /\ pc' = "write" /\ drift \in BOOLEAN /\ drift' = (drift \/ off)
  BY TypeParts DEF IInv, Ready, Rewrite, StatusOK
<1>2. CASE drift'
  BY <1>2 DEF MirrorInv
<1>3. CASE ~drift'
  <2>1. ~drift /\ off = FALSE
    BY <1>1, <1>3
  <2>2. w.res = 0 /\ Says(w.out, n)
    BY <1>1, <2>1 DEF MirrorInv
  <2>3. res' = 0 /\ out' = w.out /\ nodes' = n
    BY <2>2 DEF Rewrite
  <2>4. Says(out', nodes')
    BY <2>2, <2>3
  <2> QED
    BY <1>1, <2>3, <2>4 DEF MirrorInv, Says
<1> QED
  BY <1>2, <1>3

LEMMA MirrorKept ==
  ASSUME MirrorInv, UNCHANGED <<open, drift, pc, disk, nodes, res, out>>
  PROVE  MirrorInv'
BY DEF MirrorInv, Says

LEMMA MirrorStep == IInv /\ MirrorInv /\ Next => MirrorInv'
<1> SUFFICES ASSUME IInv, MirrorInv, Next PROVE MirrorInv'
  OBVIOUS
<1>1. NodesOK /\ FilesOK /\ StatusOK /\ Safekept
  BY TypeParts DEF IInv
<1>2. nodes \in Nodes /\ (Ready => disk \in Seq(Line))
  BY <1>1 DEF NodesOK, FilesOK, Safekept, Ready
<1>3. ASSUME NEW r, Returns(r) \/ Fail(r) PROVE MirrorInv'
  BY <1>3, MirrorKept DEF Returns, Fail
<1>4. ASSUME InitIniFile PROVE MirrorInv'
  <2>1. CASE disk # Missing /\ ReadError(disk) = 0
    <3>1. disk \in Seq(Line) /\ nodes' = ReadNodes(disk) /\ disk' = disk /\ pc' = "idle"
      BY <1>1, <1>4, <2>1 DEF InitIniFile, FilesOK
    <3>2. FileOK(disk) /\ ReadNodes(disk) \in Nodes
      BY <2>1, <3>1, ReadOK, ReadNodesIs
    <3>3. Says(disk', nodes')
      BY <3>1, <3>2, ShowsIs DEF Says
    <3> QED
      BY <3>1, <3>3 DEF MirrorInv, Says
  <2>2. CASE disk = Missing \/ ReadError(disk) # 0
    BY <1>4, <2>2, MirrorKept DEF InitIniFile
  <2> QED
    BY <2>1, <2>2
<1>5. ASSUME NEW s \in Sections, NEW k \in Keys, NEW v \in Values, UpdateValueOfKey(s, k, v) PROVE MirrorInv'
  <2>1. CASE /\ Ready /\ nodes[s] # NULL /\ nodes[s][k] # NULL
             /\ Rewrite([nodes EXCEPT ![s][k] = v], RewriteAfterUpdate(disk, s, k, v), FALSE)
    <3> DEFINE w == RewriteAfterUpdate(disk, s, k, v)
               n == Put(nodes, s, k, v)
    <3>1. Says(disk, nodes) => w.res = 0 /\ Says(w.out, n)
      BY <1>2, <2>1, UpdateKeeps DEF Says
    <3>2. Rewrite(n, w, FALSE)
      BY <2>1 DEF Put
    <3> HIDE DEF w, n
    <3> QED
      BY <2>1, <3>1, <3>2, RewriteMirrors
  <2> QED
    BY <1>3, <1>5, <2>1 DEF UpdateValueOfKey
<1>6. ASSUME NEW s \in Sections, NEW k \in Keys, NEW v \in Values, AddValueOfKey(s, k, v) PROVE MirrorInv'
  <2>1. CASE /\ Ready /\ nodes[s] # NULL /\ nodes[s][k] = NULL /\ ~(KeyCount >= MaxKeyvals)
             /\ Rewrite([nodes EXCEPT ![s][k] = v], RewriteAfterAdd(disk, s, k, v), Unfinished(disk, s))
    <3> DEFINE w == RewriteAfterAdd(disk, s, k, v)
               n == Put(nodes, s, k, v)
               off == Unfinished(disk, s)
    <3>1. Cardinality(KeysOf(nodes)) < MaxKeyvals
      <4>1. KeyCount = Cardinality(KeysOf(nodes))
        BY DEF KeyCount, KeysOf
      <4>2. ~(KeyCount >= MaxKeyvals)
        BY <2>1
      <4> QED
        BY <4>1, <4>2, CountTypes, BoundsAssumption
    <3>2. Says(disk, nodes) /\ off = FALSE => w.res = 0 /\ Says(w.out, n)
      BY <1>2, <2>1, <3>1, AddKeeps DEF Says
    <3>3. Rewrite(n, w, off) /\ off \in BOOLEAN
      BY <2>1 DEF Put, Unfinished
    <3> HIDE DEF w, n, off
    <3> QED
      BY <2>1, <3>2, <3>3, RewriteMirrors
  <2> QED
    BY <1>3, <1>6, <2>1 DEF AddValueOfKey
<1>7. ASSUME NEW s \in Sections, NEW k \in Keys \cup {NULL}, NEW v \in Values, AddIniSection(s, k, v)
      PROVE  MirrorInv'
  <2> DEFINE w == IF k = NULL THEN RewriteAfterAddSection(disk, s) ELSE RewriteAfterAdd(disk, s, k, v)
             n == [nodes EXCEPT ![s] = NoKeys]
  <2>1. CASE Ready /\ nodes[s] = NULL /\ ~(SectionCount >= MaxSections) /\ Rewrite(n, w, k # NULL)
    <3>1. Cardinality(SectionsOf(nodes)) < MaxSections
      <4>1. SectionCount = Cardinality(SectionsOf(nodes))
        BY DEF SectionCount, SectionsOf
      <4>2. ~(SectionCount >= MaxSections)
        BY <2>1
      <4> QED
        BY <4>1, <4>2, CountTypes, BoundsAssumption
    <3>2. ASSUME k = NULL, Says(disk, nodes) PROVE w.res = 0 /\ Says(w.out, n)
      <4>1. w = RewriteAfterAddSection(disk, s)
        BY <3>2
      <4> HIDE DEF w
      <4> QED
        BY <1>2, <2>1, <3>1, <3>2, <4>1, AddSectionKeeps DEF Says
    <3> DEFINE off == k # NULL
    <3>3. Says(disk, nodes) /\ off = FALSE => w.res = 0 /\ Says(w.out, n)
      BY <3>2
    <3>4. Rewrite(n, w, off) /\ off \in BOOLEAN
      BY <2>1
    <3> HIDE DEF w, n, off
    <3> QED
      BY <2>1, <3>3, <3>4, RewriteMirrors
  <2> QED
    BY <1>3, <1>7, <2>1 DEF AddIniSection
<1>8. ASSUME NEW s \in Sections, NEW k \in Keys \cup {NULL}, DeleteIniSection(s, k) PROVE MirrorInv'
  <2> DEFINE n == [nodes EXCEPT ![s] = NULL]
             off == k # NULL
  <2>1. CASE /\ Ready /\ nodes[s] # NULL
             /\ \E w \in RewriteAfterDelete(disk, s, k) : Rewrite(n, w, off)
    <3>1. PICK w \in RewriteAfterDelete(disk, s, k) : Rewrite(n, w, off)
      BY <2>1
    <3>2. Says(disk, nodes) /\ off = FALSE => w.res = 0 /\ Says(w.out, n)
      BY <1>2, <2>1, <3>1, DeleteKeeps DEF Says
    <3>3. off \in BOOLEAN
      OBVIOUS
    <3> HIDE DEF n, off
    <3> QED
      BY <2>1, <3>1, <3>2, <3>3, RewriteMirrors
  <2> QED
    BY <1>3, <1>8, <2>1 DEF DeleteIniSection
<1>9. ASSUME NEW s \in Sections, NEW k \in Keys, DeleteValueOfKey(s, k) PROVE MirrorInv'
  <2>1. ASSUME Ready, NEW n, NEW w, Rewrite(n, w, TRUE) PROVE MirrorInv'
    BY <2>1, RewriteMirrors
  <2> QED
    BY <1>3, <1>9, <2>1 DEF DeleteValueOfKey
<1>10. ASSUME DestroyIniSource \/ Crash PROVE MirrorInv'
  BY <1>10 DEF DestroyIniSource, Crash, MirrorInv
<1>11. ASSUME WriteTmp \/ RemoveOld PROVE MirrorInv'
  BY <1>11 DEF WriteTmp, RemoveOld, MirrorInv, Says
<1>12. ASSUME DropTmp PROVE MirrorInv'
  <2>1. CASE res < 0 /\ UNCHANGED drift
    <3>1. ~(open /\ ~drift)
      BY <1>1, <1>12, <2>1 DEF DropTmp, MirrorInv, StatusOK
    <3> QED
      BY <1>12, <2>1, <3>1 DEF DropTmp, MirrorInv
  <2>2. CASE drift' = TRUE
    BY <2>2 DEF MirrorInv
  <2> QED
    BY <1>12, <2>1, <2>2 DEF DropTmp
<1>13. ASSUME MoveTmp PROVE MirrorInv'
  <2>1. disk' = out /\ nodes' = nodes /\ pc = "move" /\ pc' = "idle" /\ UNCHANGED <<open, drift>>
    BY <1>1, <1>13 DEF MoveTmp, Safekept
  <2> QED
    BY <2>1 DEF MirrorInv, Says
<1>14. ASSUME InitFails PROVE MirrorInv'
  BY <1>3, <1>14 DEF InitFails
<1> QED
  BY <1>4, <1>5, <1>6, <1>7, <1>8, <1>9, <1>10, <1>11, <1>12, <1>13, <1>14 DEF Next

(* inifile.c edits its nodes and rewrites its file separately; for every   *)
(* file, every array size and every sequence of operations, failures and   *)
(* crashes, reading the file back gives the nodes it holds, until a key is *)
(* deleted, an fopen fails or a key is added to a header without newline.  *)
THEOREM FileAndNodesAgree == Spec => []FileMirrorsNodes
<1>1. Init => MirrorInv
  BY DEF Init, MirrorInv
<1>2. IInv /\ MirrorInv /\ [Next]_vars => MirrorInv'
  BY MirrorStep, MirrorKept DEF vars
<1>3. IInv /\ MirrorInv => FileMirrorsNodes
  <2> SUFFICES ASSUME IInv, MirrorInv, open, pc = "idle", ~drift PROVE Mirrored
    BY DEF FileMirrorsNodes
  <2>1. Says(disk, nodes) /\ disk \in Seq(Line) /\ disk # Missing /\ nodes \in Nodes
    BY TypeParts DEF MirrorInv, IInv, Safekept, FilesOK, NodesOK
  <2> QED
    BY <2>1, ReadOK, ShowsIs DEF Mirrored, Says
<1> QED
  BY <1>1, <1>2, <1>3, InitInv, Inductive, PTL DEF Spec

-----------------------------------------------------------------------------
(* Lines that hold only a comment                                          *)

Notes(lines) == {i \in DOMAIN lines : lines[i].type = "note"}
SameNotes(a, b) == Cardinality(Notes(a)) = Cardinality(Notes(b))

(* Only the last line can be a header without a newline.                   *)
BareLast(lines) == \A i \in DOMAIN lines : lines[i].type = "bare" => i = Len(lines)

(* The notes of a are taken to those of b, one to one.                     *)
Matches(a, b, f) ==
  /\ \A x \in Notes(a) : f[x] \in Notes(b)
  /\ \A x, y \in Notes(a) : f[x] = f[y] => x = y
  /\ \A y \in Notes(b) : \E x \in Notes(a) : y = f[x]

LEMMA Matched ==
  ASSUME NEW a \in Seq(Line), NEW b \in Seq(Line), NEW f, Matches(a, b, f)
  PROVE  SameNotes(a, b)
<1>0. /\ \A x \in Notes(a) : f[x] \in Notes(b)
      /\ \A x, y \in Notes(a) : f[x] = f[y] => x = y
      /\ \A y \in Notes(b) : \E x \in Notes(a) : y = f[x]
  BY DEF Matches
<1>1. /\ IsFiniteSet(Notes(a)) /\ Cardinality(Notes(a)) \in Nat
      /\ IsFiniteSet(Notes(b)) /\ Cardinality(Notes(b)) \in Nat
  <2>1. ASSUME NEW l \in Seq(Line) PROVE IsFiniteSet(Notes(l)) /\ Cardinality(Notes(l)) \in Nat
    <3>1. Len(l) \in Nat /\ \A i \in Notes(l) : i \in 1 .. Len(l)
      BY Indices DEF Notes
    <3> QED
      BY <3>1, Finite
  <2> QED
    BY <2>1
<1> DEFINE g == [y \in Notes(b) |-> CHOOSE x \in Notes(a) : y = f[x]]
<1>2. \A x \in Notes(a) : \E y \in Notes(b) : x = g[y]
  <2> SUFFICES ASSUME NEW x \in Notes(a) PROVE x = g[f[x]]
    BY <1>0
  <2>1. g[f[x]] \in Notes(a) /\ f[x] = f[g[f[x]]]
    BY <1>0
  <2> HIDE DEF g
  <2> QED
    BY <1>0, <2>1
<1> HIDE DEF g
<1>3. Cardinality(Notes(b)) <= Cardinality(Notes(a))
  BY <1>0, <1>1, ImageCount
<1>4. Cardinality(Notes(a)) <= Cardinality(Notes(b))
  BY <1>1, <1>2, ImageCount
<1> QED
  BY <1>1, <1>3, <1>4 DEF SameNotes

(* Lines replaced by lines, none of them a note.                           *)
LEMMA SpliceNotes ==
  ASSUME NEW lines \in Seq(Line), NEW new, NEW mid \in Seq(Line),
         NEW i \in 0 .. Len(lines), NEW j \in i .. Len(lines), IsSplice(new, lines, mid, i, j),
         \A x \in 1 .. Len(mid) : mid[x].type \notin {"note", "bare"},
         \A x \in i + 1 .. j : lines[x].type # "note",
         \A x \in 1 .. i : lines[x].type # "bare", BareLast(lines)
  PROVE  SameNotes(lines, new) /\ BareLast(new)
<1> DEFINE m == Len(mid)
           d == i + m - j
           f == [x \in 1 .. Len(lines) |-> IF x <= i THEN x ELSE x + d]
<1>1. /\ m \in Nat /\ Len(lines) \in Nat /\ i \in Nat /\ j \in Nat /\ i <= j /\ j <= Len(lines) /\ d \in Int
      /\ DOMAIN lines = 1 .. Len(lines)
  BY Indices
<1>2. /\ new \in Seq(Line) /\ Len(new) = Len(lines) + d /\ DOMAIN new = 1 .. Len(lines) + d
      /\ \A x \in 1 .. i : new[x] = lines[x]
      /\ \A x \in 1 .. m : new[i + x] = mid[x]
      /\ \A x \in j + 1 .. Len(lines) : new[x + d] = lines[x]
  BY <1>1 DEF IsSplice
<1>4. d = i + m - j
  OBVIOUS
<1>5. \A x \in 1 .. m : mid[x].type \notin {"note", "bare"}
  OBVIOUS
<1> HIDE DEF d, m
<1>3. ASSUME NEW y \in 1 .. Len(lines) + d
      PROVE  \/ y \in 1 .. i
             \/ y - i \in 1 .. m /\ y = i + (y - i)
             \/ y - d \in j + 1 .. Len(lines) /\ y = (y - d) + d
  <2>1. CASE y <= i
    BY <1>1, <2>1
  <2>2. CASE i < y /\ y <= i + m
    BY <1>1, <2>2
  <2>3. CASE i + m < y
    <3>1. y - d >= j + 1 /\ y - d <= Len(lines) /\ y - d \in Int
      BY <1>1, <1>4, <2>3
    <3> QED
      BY <1>1, <3>1
  <2> QED
    BY <1>1, <2>1, <2>2, <2>3
<1>6. \A x \in Notes(lines) : f[x] \in Notes(new)
  <2> SUFFICES ASSUME NEW x \in Notes(lines) PROVE f[x] \in Notes(new)
    OBVIOUS
  <2>1. x \in 1 .. Len(lines) /\ lines[x].type = "note" /\ (x <= i \/ x \in j + 1 .. Len(lines))
    BY <1>1 DEF Notes
  <2>2. f[x] \in 1 .. Len(lines) + d /\ new[f[x]] = lines[x]
    BY <1>1, <1>2, <1>4, <2>1
  <2> QED
    BY <1>2, <2>1, <2>2 DEF Notes
<1>7. \A x, y \in Notes(lines) : f[x] = f[y] => x = y
  <2> SUFFICES ASSUME NEW x \in Notes(lines), NEW y \in Notes(lines), f[x] = f[y] PROVE x = y
    OBVIOUS
  <2>1. x \in 1 .. Len(lines) /\ lines[x].type = "note" /\ (x <= i \/ x \in j + 1 .. Len(lines))
    BY <1>1 DEF Notes
  <2>2. y \in 1 .. Len(lines) /\ lines[y].type = "note" /\ (y <= i \/ y \in j + 1 .. Len(lines))
    BY <1>1 DEF Notes
  <2>3. /\ x <= i => f[x] = x
        /\ x > i => f[x] = x + d
        /\ y <= i => f[y] = y
        /\ y > i => f[y] = y + d
    BY <1>1, <2>1, <2>2
  <2>4. /\ x \in Int /\ y \in Int /\ i \in Int /\ d \in Int
        /\ x > i => x + d > i
        /\ y > i => y + d > i
    BY <1>1, <1>4, <2>1, <2>2
  <2>5. f[x] = f[y]
    OBVIOUS
  <2> HIDE DEF f
  <2>6. CASE x <= i /\ y <= i
    BY <2>3, <2>5, <2>6
  <2>7. CASE x > i /\ y > i
    <3>1. x + d = y + d
      BY <2>3, <2>5, <2>7
    <3> QED
      BY <2>4, <3>1
  <2>8. CASE x <= i /\ y > i
    <3>1. x = y + d
      BY <2>3, <2>5, <2>8
    <3> QED
      BY <2>4, <2>8, <3>1
  <2>9. CASE x > i /\ y <= i
    <3>1. x + d = y
      BY <2>3, <2>5, <2>9
    <3> QED
      BY <2>4, <2>9, <3>1
  <2> QED
    BY <2>4, <2>6, <2>7, <2>8, <2>9
<1>8. \A y \in Notes(new) : \E x \in Notes(lines) : y = f[x]
  <2> SUFFICES ASSUME NEW y \in Notes(new) PROVE \E x \in Notes(lines) : y = f[x]
    OBVIOUS
  <2>1. y \in 1 .. Len(lines) + d /\ new[y].type = "note"
    BY <1>2 DEF Notes
  <2>2. CASE y \in 1 .. i
    <3>1. y \in Notes(lines) /\ f[y] = y
      BY <1>1, <1>2, <2>1, <2>2 DEF Notes
    <3> QED
      BY <3>1
  <2>3. CASE y - i \in 1 .. m /\ y = i + (y - i)
    <3>1. new[i + (y - i)] = mid[y - i] /\ mid[y - i].type # "note"
      BY <1>2, <1>5, <2>3
    <3> QED
      BY <2>1, <2>3, <3>1
  <2>4. CASE y - d \in j + 1 .. Len(lines) /\ y = (y - d) + d
    <3>1. y - d \in Notes(lines)
      BY <1>1, <1>2, <2>1, <2>4 DEF Notes
    <3>2. f[y - d] = y
      BY <1>1, <2>1, <2>4
    <3> QED
      BY <3>1, <3>2
  <2> QED
    BY <1>3, <2>1, <2>2, <2>3, <2>4
<1>9. ASSUME NEW y \in DOMAIN new, new[y].type = "bare" PROVE y = Len(new)
  <2>1. y \in 1 .. Len(lines) + d
    BY <1>2
  <2>2. CASE y \in 1 .. i
    BY <1>2, <1>9, <2>2
  <2>3. CASE y - i \in 1 .. m /\ y = i + (y - i)
    BY <1>2, <1>5, <1>9, <2>3
  <2>4. CASE y - d \in j + 1 .. Len(lines) /\ y = (y - d) + d
    <3>1. lines[y - d].type = "bare" /\ y - d \in DOMAIN lines
      BY <1>1, <1>2, <1>9, <2>4
    <3>2. y - d = Len(lines)
      BY <3>1 DEF BareLast
    <3> QED
      BY <1>1, <1>2, <2>1, <3>2
  <2> QED
    BY <1>3, <2>1, <2>2, <2>3, <2>4
<1> HIDE DEF f
<1> QED
  <2>1. SameNotes(lines, new)
    <3>1. Matches(lines, new, f)
      BY <1>6, <1>7, <1>8 DEF Matches
    <3> QED
      BY <1>2, <3>1, Matched
  <2> QED
    BY <1>9, <2>1 DEF BareLast

(* What a rewriting may do to the lines it copies.                         *)
Careful(lines, new) == SameNotes(lines, new) /\ BareLast(new)

LEMMA UpdateNotes ==
  ASSUME NEW lines \in Seq(Line), BareLast(lines), NEW s, NEW k, NEW v \in Values
  PROVE  Careful(lines, RewriteAfterUpdate(lines, s, k, v).out)
<1> DEFINE hits == {p \in Pairs(lines) : lines[p].key = k /\ \E h \in Named(lines, s) : h < p}
           p == Least(hits)
           one == <<[lines[p] EXCEPT !.val = v]>>
           more == IF lines[p].note THEN <<Plain("blank")>> ELSE <<>>
           new == UpTo(lines, p - 1) \o one \o more \o After(lines, p)
<1>1. RewriteAfterUpdate(lines, s, k, v).out = IF hits = {} THEN lines ELSE new
  BY DEF RewriteAfterUpdate, Written
<1>2. CASE hits = {}
  BY <1>1, <1>2 DEF Careful, SameNotes
<1>3. CASE hits # {}
  <2>1. hits \in SUBSET Nat
    BY Indices
  <2>2. p \in hits
    <3> HIDE DEF hits
    <3> QED
      BY <1>3, <2>1, LeastIn
  <2> HIDE DEF p
  <2>3. p \in 1 .. Len(lines) /\ lines[p].type = "keyvalue" /\ lines[p] \in Line /\ Len(lines) \in Nat
    BY <2>2, Indices DEF Pairs
  <2> HIDE DEF hits
  <2>4. p - 1 \in 0 .. Len(lines) /\ p \in (p - 1) .. Len(lines)
    BY <2>3
  <2>5. [lines[p] EXCEPT !.val = v] \in Line /\ Plain("blank") \in Line
    BY <2>3, LineTypes DEF Kinds
  <2>6. UpTo(lines, p - 1) \in Seq(Line)
    BY <2>4, PartTypes
  <2>7. one \in Seq(Line) /\ more \in Seq(Line) /\ Len(one) = 1 /\ Len(more) \in {0, 1}
    BY <2>5
  <2>8. one[1].type = "keyvalue" /\ (Len(more) = 1 => more[1].type = "blank")
    BY <2>3 DEF Plain, Line
  <2> HIDE DEF one, more
  <2> DEFINE mid == one \o more
  <2>9. mid \in Seq(Line) /\ \A x \in 1 .. Len(mid) : mid[x].type \notin {"note", "bare"}
    <3>1. /\ mid \in Seq(Line) /\ Len(mid) = 1 + Len(more) /\ mid[1] = one[1]
          /\ Len(more) = 1 => mid[2] = more[1]
      BY <2>7, Concat
    <3> QED
      BY <2>7, <2>8, <3>1
  <2>10. new = Splice(lines, mid, p - 1, p)
    <3>1. (UpTo(lines, p - 1) \o one) \o more = UpTo(lines, p - 1) \o (one \o more)
      <4> DEFINE u == UpTo(lines, p - 1)
      <4>1. u \in Seq(Line) /\ one \in Seq(Line) /\ more \in Seq(Line)
        BY <2>6, <2>7
      <4> HIDE DEF u
      <4>2. (u \o one) \o more = u \o (one \o more)
        BY <4>1, ConcatAssociative, SMTT(60)
      <4> QED
        BY <4>2 DEF u
    <3> QED
      BY <3>1 DEF Splice
  <2> HIDE DEF mid, new
  <2>11. IsSplice(new, lines, mid, p - 1, p)
    BY <2>4, <2>9, <2>10, SpliceIs
  <2>12. \A x \in (p - 1) + 1 .. p : lines[x].type # "note"
    BY <2>3
  <2>13. \A x \in 1 .. p - 1 : lines[x].type # "bare"
    BY <2>3, Indices DEF BareLast
  <2> QED
    BY <1>1, <1>3, <2>4, <2>9, <2>11, <2>12, <2>13, SpliceNotes DEF Careful
<1> QED
  BY <1>2, <1>3

LEMMA AddNotes ==
  ASSUME NEW lines \in Seq(Line), BareLast(lines), NEW s, NEW k \in Keys, NEW v \in Values
  PROVE  Careful(lines, RewriteAfterAdd(lines, s, k, v).out)
<1> DEFINE h == Least(Named(lines, s))
           cut == UpTo(lines, h - 1) \o <<Plain("error")>>
           new == UpTo(lines, h) \o <<Pair(k, v)>> \o After(lines, h)
<1>1. RewriteAfterAdd(lines, s, k, v).out =
        IF Named(lines, s) = {} THEN lines ELSE IF lines[h].type = "bare" THEN cut ELSE new
  BY DEF RewriteAfterAdd, Written
<1>2. CASE Named(lines, s) = {}
  BY <1>1, <1>2 DEF Careful, SameNotes
<1>3. CASE Named(lines, s) # {}
  <2>1. Named(lines, s) \in SUBSET Nat
    BY Indices
  <2>2. h \in Named(lines, s)
    BY <1>3, <2>1, LeastIn
  <2> HIDE DEF h
  <2>3. h \in 1 .. Len(lines) /\ lines[h].type \in {"section", "bare"} /\ Len(lines) \in Nat
    BY <2>2, Indices DEF Named, Heads
  <2>4. \A x \in 1 .. h - 1 : lines[x].type # "bare"
    BY <2>3, Indices DEF BareLast
  <2>5. CASE lines[h].type = "bare"
    <3>1. h = Len(lines)
      BY <2>3, <2>5, Indices DEF BareLast
    <3> DEFINE mid == <<Plain("error")>>
    <3>2. mid \in Seq(Line) /\ Len(mid) = 1 /\ mid[1].type = "error"
      BY LineTypes DEF Kinds, Plain
    <3>3. h - 1 \in 0 .. Len(lines) /\ h \in (h - 1) .. Len(lines)
      BY <2>3
    <3>4. UpTo(lines, h - 1) \in Seq(Line) /\ Len(UpTo(lines, h - 1)) = h - 1
      BY <3>3, PartTypes
    <3>5. After(lines, h) = <<>>
      <4>1. h + 1 \in Int /\ Len(lines) \in Int /\ Len(lines) < h + 1
        BY <2>3, <3>1
      <4> QED
        BY <4>1, SubSeqEmpty DEF After
    <3> HIDE DEF mid
    <3>6. cut = Splice(lines, mid, h - 1, h)
      <4>1. cut = UpTo(lines, h - 1) \o mid
        BY DEF mid
      <4>2. UpTo(lines, h - 1) \o mid \in Seq(Line)
        BY <3>2, <3>4, Concat
      <4> QED
        BY <3>5, <4>1, <4>2, ConcatEmptySeq DEF Splice
    <3> HIDE DEF cut
    <3>7. IsSplice(cut, lines, mid, h - 1, h)
      BY <3>2, <3>3, <3>6, SpliceIs
    <3>8. (\A x \in (h - 1) + 1 .. h : lines[x].type # "note")
          /\ (\A x \in 1 .. Len(mid) : mid[x].type \notin {"note", "bare"})
      BY <2>3, <3>2
    <3> QED
      BY <1>1, <1>3, <2>4, <2>5, <3>2, <3>3, <3>7, <3>8, SpliceNotes DEF Careful
  <2>6. CASE lines[h].type # "bare"
    <3> DEFINE mid == <<Pair(k, v)>>
    <3>1. Pair(k, v) \in Line /\ Pair(k, v).type = "keyvalue"
      BY LineTypes DEF Plain, Pair
    <3>2. mid \in Seq(Line) /\ Len(mid) = 1 /\ mid[1].type = "keyvalue"
      BY <3>1
    <3>3. h \in 0 .. Len(lines) /\ h \in h .. Len(lines)
      BY <2>3
    <3>6. new = Splice(lines, mid, h, h)
      BY DEF Splice
    <3> HIDE DEF mid, new
    <3>7. IsSplice(new, lines, mid, h, h)
      BY <3>2, <3>3, <3>6, SpliceIs
    <3>8. /\ \A x \in h + 1 .. h : lines[x].type # "note"
          /\ \A x \in 1 .. Len(mid) : mid[x].type \notin {"note", "bare"}
          /\ \A x \in 1 .. h : lines[x].type # "bare"
      BY <2>3, <2>4, <2>6, <3>2
    <3> QED
      BY <1>1, <1>3, <2>6, <3>2, <3>3, <3>7, <3>8, SpliceNotes DEF Careful
  <2> QED
    BY <2>5, <2>6
<1> QED
  BY <1>2, <1>3

LEMMA AddSectionNotes ==
  ASSUME NEW lines \in Seq(Line), BareLast(lines), NEW s \in Sections
  PROVE  Careful(lines, RewriteAfterAddSection(lines, s).out)
<1> DEFINE mid == <<Header(s), Plain("blank")>>
           new == mid \o lines
<1>1. RewriteAfterAddSection(lines, s).out = new
  BY DEF RewriteAfterAddSection
<1>2. Header(s) \in Line /\ Plain("blank") \in Line /\ Header(s).type = "section" /\ Plain("blank").type = "blank"
  BY LineTypes DEF Kinds, Header, Plain
<1>3. mid \in Seq(Line) /\ Len(mid) = 2 /\ \A x \in 1 .. Len(mid) : mid[x].type \notin {"note", "bare"}
  BY <1>2
<1> HIDE DEF mid
<1>4. /\ new \in Seq(Line) /\ Len(new) = 2 + Len(lines) /\ Len(lines) \in Nat
      /\ \A x \in 1 .. 2 : new[x] = mid[x]
      /\ \A x \in 1 .. Len(lines) : new[2 + x] = lines[x]
  <2>1. /\ new \in Seq(Line) /\ Len(new) = Len(mid) + Len(lines)
        /\ \A x \in 1 .. Len(mid) : new[x] = mid[x]
        /\ \A x \in 1 .. Len(lines) : new[Len(mid) + x] = lines[x]
    BY <1>3, Concat
  <2> HIDE DEF new
  <2> QED
    BY <1>3, <2>1
<1> HIDE DEF new
<1>5. IsSplice(new, lines, mid, 0, 0)
  <2>1. Len(new) = 0 + Len(mid) + (Len(lines) - 0)
    BY <1>3, <1>4
  <2>2. \A x \in 1 .. Len(mid) : new[0 + x] = mid[x]
    BY <1>3, <1>4
  <2>3. \A x \in 0 + 1 .. Len(lines) : new[x + (0 + Len(mid) - 0)] = lines[x]
    <3> SUFFICES ASSUME NEW x \in 1 .. Len(lines) PROVE new[x + (0 + Len(mid) - 0)] = lines[x]
      OBVIOUS
    <3>1. x + (0 + Len(mid) - 0) = 2 + x
      BY <1>3
    <3> QED
      BY <1>4, <3>1
  <2> QED
    BY <1>4, <2>1, <2>2, <2>3 DEF IsSplice
<1>6. 0 \in 0 .. Len(lines)
  BY <1>4
<1>7. (\A x \in 0 + 1 .. 0 : lines[x].type # "note") /\ (\A x \in 1 .. 0 : lines[x].type # "bare")
  OBVIOUS
<1> QED
  BY <1>1, <1>3, <1>5, <1>6, <1>7, SpliceNotes DEF Careful

LEMMA DroppedIs ==
  ASSUME NEW lines \in Seq(Line), NEW s, NEW k
  PROVE  Dropped(lines, s, k) \in SUBSET (Heads(lines) \cup Pairs(lines))
<1> DEFINE h == Least(Named(lines, s))
           under == {p \in Pairs(lines) : Together(lines, h, p) /\ (k = NULL \/ lines[p].key = k)}
<1>1. Dropped(lines, s, k) = IF Named(lines, s) = {} THEN {}
                             ELSE {h} \cup IF k = NULL \/ under = {} THEN under ELSE {Least(under)}
  BY DEF Dropped
<1>2. Named(lines, s) # {} => h \in Heads(lines)
  BY LeastIn, Indices
<1>3. under \in SUBSET Pairs(lines) /\ under \in SUBSET Nat
  BY Indices
<1> HIDE DEF h, under
<1>4. under # {} => Least(under) \in under
  BY <1>3, LeastIn
<1> QED
  BY <1>1, <1>2, <1>3, <1>4

LEMMA DeleteNotes ==
  ASSUME NEW lines \in Seq(Line), BareLast(lines), NEW s, NEW k, NEW w \in RewriteAfterDelete(lines, s, k)
  PROVE  Careful(lines, w.out)
<1> DEFINE gone == Dropped(lines, s, k)
           K == Kept(lines, gone)
           a == Without(lines, gone)
           r == [x \in K |-> Rank(K, x)]
<1>1. w.out = a
  <2>1. PICK S : LET y == Written(lines, S, a) IN w = y \/ \E c \in {-1, 0, 1} : w = [y EXCEPT !.res = c]
    BY DEF RewriteAfterDelete
  <2> HIDE DEF a
  <2>2. /\ Written(lines, S, a).out = a
        /\ \A c \in {-1, 0, 1} : [Written(lines, S, a) EXCEPT !.res = c].out = a
    BY DEF Written
  <2> QED
    BY <2>1, <2>2, Zenon
<1>2. DOMAIN lines = 1 .. Len(lines) /\ Len(lines) \in Nat
  BY Indices
<1>3. \A x \in Notes(lines) : x \in K
  BY DroppedIs DEF Notes, Kept, Heads, Pairs
<1>4. /\ a \in Seq(Line) /\ Len(a) = Cardinality(K) /\ Cardinality(K) \in Nat
      /\ a = [i \in 1 .. Cardinality(K) |-> lines[Nth(K, i)]]
      /\ \A x \in K : x \in 1 .. Len(lines)
  BY WithoutIs, Indices DEF Kept
<1> HIDE DEF gone, K, a
<1>5. \A i \in 1 .. Len(a) : Nth(K, i) \in K /\ Rank(K, Nth(K, i)) = i /\ a[i] = lines[Nth(K, i)]
  BY <1>2, <1>4, NthType
<1>6. \A x, y \in K : x < y => Rank(K, x) < Rank(K, y)
  BY <1>2, <1>4, RankGrows
<1>7. \A x \in K : Rank(K, x) \in 1 .. Len(a)
  <2> SUFFICES ASSUME NEW x \in K PROVE Rank(K, x) \in 1 .. Len(a)
    OBVIOUS
  <2>1. IsFiniteSet(Until(K, x)) /\ Rank(K, x) \in Nat /\ Rank(K, x) <= Cardinality(K)
    BY <1>2, <1>4, RankType
  <2>2. x \in Until(K, x)
    BY <1>4 DEF Until
  <2>3. Rank(K, x) # 0
    BY <2>1, <2>2, FS_EmptySet DEF Rank
  <2> QED
    BY <1>4, <2>1, <2>3
<1>8. \A x, y \in K : Rank(K, x) = Rank(K, y) => x = y
  <2> SUFFICES ASSUME NEW x \in K, NEW y \in K, Rank(K, x) = Rank(K, y) PROVE x = y
    OBVIOUS
  <2>1. Rank(K, x) \in Nat /\ x \in Nat /\ y \in Nat
    BY <1>4, <1>7
  <2>2. ~(x < y) /\ ~(y < x)
    BY <1>6, <2>1
  <2> QED
    BY <2>1, <2>2
<1>9. \A x \in K : a[Rank(K, x)] = lines[x]
  <2> SUFFICES ASSUME NEW x \in K PROVE a[Rank(K, x)] = lines[x]
    OBVIOUS
  <2>1. Nth(K, Rank(K, x)) = x
    BY <1>5, <1>7, <1>8
  <2> QED
    BY <1>5, <1>7, <2>1
<1>10. \A x \in K : r[x] = Rank(K, x)
  OBVIOUS
<1> HIDE DEF r
<1>11. DOMAIN a = 1 .. Len(a)
  BY <1>4
<1>12. \A x \in Notes(lines) : r[x] \in Notes(a)
  BY <1>3, <1>7, <1>9, <1>10, <1>11 DEF Notes
<1>13. \A x, y \in Notes(lines) : r[x] = r[y] => x = y
  BY <1>3, <1>8, <1>10
<1>14. \A y \in Notes(a) : \E x \in Notes(lines) : y = r[x]
  <2> SUFFICES ASSUME NEW y \in Notes(a) PROVE \E x \in Notes(lines) : y = r[x]
    OBVIOUS
  <2>1. y \in 1 .. Len(a) /\ a[y].type = "note"
    BY <1>11 DEF Notes
  <2>2. Nth(K, y) \in K /\ r[Nth(K, y)] = y /\ lines[Nth(K, y)].type = "note"
    BY <1>5, <1>10, <2>1
  <2>3. Nth(K, y) \in Notes(lines)
    BY <1>2, <1>4, <2>2 DEF Notes
  <2> QED
    BY <2>2, <2>3
<1>15. SameNotes(lines, a)
  <2>1. Matches(lines, a, r)
    BY <1>12, <1>13, <1>14 DEF Matches
  <2> QED
    BY <1>4, <2>1, Matched
<1>16. ASSUME NEW y \in DOMAIN a, a[y].type = "bare" PROVE y = Len(a)
  <2>1. y \in 1 .. Len(a)
    BY <1>11
  <2>2. Nth(K, y) \in K /\ Rank(K, Nth(K, y)) = y /\ lines[Nth(K, y)].type = "bare"
    BY <1>5, <1>16, <2>1
  <2>3. Nth(K, y) = Len(lines)
    BY <1>2, <1>4, <2>2 DEF BareLast
  <2>4. Until(K, Len(lines)) = K
    BY <1>2, <1>4 DEF Until
  <2> QED
    BY <1>4, <2>2, <2>3, <2>4 DEF Rank
<1> QED
  BY <1>1, <1>15, <1>16 DEF Careful, BareLast

(* The lines about to be written have the notes of the file on disk.       *)
NoteInv ==
  /\ disk # Missing => BareLast(disk)
  /\ pc # "idle" => BareLast(out)
  /\ pc = "write" => SameNotes(disk, out)

LEMMA NotesUnchanged ==
  ASSUME NoteInv, UNCHANGED <<disk, out, pc>>
  PROVE  NoteInv'
BY DEF NoteInv

LEMMA NoteStep == IInv /\ NoteInv /\ Next => NoteInv'
<1> SUFFICES ASSUME IInv, NoteInv, Next PROVE NoteInv'
  OBVIOUS
<1>1. FilesOK /\ StatusOK /\ Safekept
  BY TypeParts DEF IInv
<1>2. Ready => disk \in Seq(Line) /\ disk # Missing /\ BareLast(disk)
  BY <1>1 DEF FilesOK, Safekept, Ready, NoteInv
<1>3. ASSUME NEW r, Returns(r) \/ Fail(r) PROVE NoteInv'
  BY <1>3, NotesUnchanged DEF Returns, Fail
<1>4. ASSUME Ready, NEW n, NEW w, NEW off, Rewrite(n, w, off), Careful(disk, w.out) PROVE NoteInv'
  <2>1. out' = w.out /\ disk' = disk
    BY <1>4 DEF Rewrite
  <2>2. BareLast(out') /\ SameNotes(disk', out') /\ BareLast(disk')
    BY <1>2, <1>4, <2>1 DEF Careful
  <2> QED
    BY <2>2 DEF NoteInv
<1>5. ASSUME NEW s \in Sections, NEW k \in Keys, NEW v \in Values, UpdateValueOfKey(s, k, v) PROVE NoteInv'
  <2>1. CASE Ready /\ Rewrite([nodes EXCEPT ![s][k] = v], RewriteAfterUpdate(disk, s, k, v), FALSE)
    BY <1>2, <1>4, <2>1, UpdateNotes
  <2> QED
    BY <1>3, <1>5, <2>1 DEF UpdateValueOfKey
<1>6. ASSUME NEW s \in Sections, NEW k \in Keys, NEW v \in Values, AddValueOfKey(s, k, v) PROVE NoteInv'
  <2>1. CASE Ready /\ Rewrite([nodes EXCEPT ![s][k] = v], RewriteAfterAdd(disk, s, k, v), Unfinished(disk, s))
    BY <1>2, <1>4, <2>1, AddNotes
  <2> QED
    BY <1>3, <1>6, <2>1 DEF AddValueOfKey
<1>7. ASSUME NEW s \in Sections, NEW k \in Keys \cup {NULL}, NEW v \in Values, AddIniSection(s, k, v)
      PROVE  NoteInv'
  <2> DEFINE w == IF k = NULL THEN RewriteAfterAddSection(disk, s) ELSE RewriteAfterAdd(disk, s, k, v)
  <2>1. CASE Ready /\ Rewrite([nodes EXCEPT ![s] = NoKeys], w, k # NULL)
    <3>1. Careful(disk, w.out)
      <4>1. CASE k = NULL
        BY <1>2, <2>1, <4>1, AddSectionNotes
      <4>2. CASE k # NULL
        BY <1>2, <2>1, <4>2, AddNotes
      <4> QED
        BY <4>1, <4>2
    <3> HIDE DEF w
    <3> QED
      BY <1>4, <2>1, <3>1
  <2> QED
    BY <1>3, <1>7, <2>1 DEF AddIniSection
<1>8. ASSUME NEW s \in Sections, NEW k \in Keys \cup {NULL}, DeleteIniSection(s, k) PROVE NoteInv'
  <2>1. CASE Ready /\ \E w \in RewriteAfterDelete(disk, s, k) : Rewrite([nodes EXCEPT ![s] = NULL], w, k # NULL)
    BY <1>2, <1>4, <2>1, DeleteNotes
  <2> QED
    BY <1>3, <1>8, <2>1 DEF DeleteIniSection
<1>9. ASSUME NEW s \in Sections, NEW k \in Keys, DeleteValueOfKey(s, k) PROVE NoteInv'
  <2>1. CASE Ready /\ \E w \in RewriteAfterDelete(disk, s, k) : Rewrite([nodes EXCEPT ![s][k] = NULL], w, TRUE)
    BY <1>2, <1>4, <2>1, DeleteNotes
  <2> QED
    BY <1>3, <1>9, <2>1 DEF DeleteValueOfKey
<1>10. ASSUME InitIniFile \/ InitFails \/ DestroyIniSource PROVE NoteInv'
  BY <1>3, <1>10, NotesUnchanged DEF InitIniFile, InitFails, DestroyIniSource
<1>11. ASSUME WriteTmp \/ DropTmp \/ RemoveOld \/ Crash PROVE NoteInv'
  BY <1>11 DEF WriteTmp, DropTmp, RemoveOld, Crash, NoteInv
<1>12. ASSUME MoveTmp PROVE NoteInv'
  <2>1. disk' = out /\ pc' = "idle" /\ BareLast(out)
    BY <1>1, <1>12 DEF MoveTmp, Safekept, NoteInv
  <2> QED
    BY <2>1 DEF NoteInv
<1> QED
  BY <1>5, <1>6, <1>7, <1>8, <1>9, <1>10, <1>11, <1>12 DEF Next

(* The rewritings of inifile.c copy every line that holds only a comment,  *)
(* once each: for every file and every sequence of operations, failures    *)
(* and crashes, also when a section or a key is deleted, when the name     *)
(* is not found, and when a key is glued to a header without a newline.    *)
THEOREM CommentsSurvive == Spec => NotesKept
<1>1. Init => NoteInv
  BY BareAssumption DEF Init, NoteInv, BareLast
<1>2. IInv /\ NoteInv /\ [Next]_vars => NoteInv'
  BY NoteStep, NotesUnchanged DEF vars
<1>3. IInv /\ NoteInv /\ [Next]_vars =>
        [pc = "write" /\ pc' = "remove" =>
           Cardinality({i \in DOMAIN disk : disk[i].type = "note"})
             = Cardinality({i \in DOMAIN tmp' : tmp'[i].type = "note"})]_vars
  <2> SUFFICES ASSUME NoteInv, Next, pc = "write", pc' = "remove"
               PROVE  Cardinality({i \in DOMAIN disk : disk[i].type = "note"})
                        = Cardinality({i \in DOMAIN tmp' : tmp'[i].type = "note"})
    OBVIOUS
  <2>1. tmp' = out
    BY DEF Next, InitIniFile, InitFails, DestroyIniSource, AddIniSection, DeleteIniSection,
           DeleteValueOfKey, UpdateValueOfKey, AddValueOfKey, Ready, WriteTmp, DropTmp, RemoveOld,
           MoveTmp, Crash
  <2> QED
    BY <2>1 DEF NoteInv, SameNotes, Notes
<1> QED
  BY <1>1, <1>2, <1>3, InitInv, Inductive, PTL DEF Spec, NotesKept
=============================================================================
