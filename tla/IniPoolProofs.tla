--------------------------- MODULE IniPoolProofs ---------------------------
(***************************************************************************)
(* Proofs about IniPool for every size of the arrays and every use of the  *)
(* library: nothing is written outside an array and reading ends inside;   *)
(* and until an array is used a second time every string reads as stored.  *)
(***************************************************************************)
EXTENDS IniPool, SequenceTheorems, WellFoundedInduction, TLAPS

(* While an operation is under way it has a string to store, and the place *)
(* for its new fields is inside the list.                                  *)
Busy == pc # "idle" => jobs # <<>> /\ link.at <= Len(list[file])

IInv == TypeOK /\ Busy /\ InsideArrays

-----------------------------------------------------------------------------
LEMMA LeastExists ==
  ASSUME NEW T \in SUBSET Nat, T # {} PROVE \E x \in T : \A y \in T : x <= y
<1>1. PICK m \in T : \A y \in T : <<y, m>> \notin OpToRel(<, Nat)
  BY WFMin, NatLessThanWellFounded, Zenon
<1>2. \A y \in T : ~(y < m)
  BY <1>1, Zenon DEF OpToRel
<1> QED
  BY <1>2

(* A string starts inside an array and ends inside it, because the last    *)
(* byte of the array is 0.                                                 *)
LEMMA EndInside ==
  ASSUME TypeOK, InsideArrays, NEW p \in Cells
  PROVE  End(p) \in Cells /\ End(p) >= p /\ StringAt(p) \in Seq(Nat)
<1> DEFINE T == {e \in Cells : e >= p /\ bytes[e] = 0}
<1>1. SIZE \in Nat /\ SIZE > 0
  BY SizeAssumption
<1>2. 2 * SIZE - 1 \in Cells /\ 2 * SIZE - 1 >= p /\ bytes[2 * SIZE - 1] = 0
  BY <1>1 DEF Cells, InsideArrays
<1>3. T \in SUBSET Nat /\ T # {}
  BY <1>1, <1>2 DEF Cells
<1>4. PICK e \in T : \A y \in T : e <= y
  <2> HIDE DEF T
  <2> QED
    BY <1>3, LeastExists
<1>5. \A i \in p .. e - 1 : i \in Cells /\ i >= p /\ i < e
  BY <1>1, <1>4 DEF Cells
<1>6. \A i \in p .. e - 1 : bytes[i] # 0
  BY <1>1, <1>4, <1>5 DEF Cells
<1>7. \E x \in Cells : /\ x >= p /\ bytes[x] = 0
                       /\ \A i \in p .. x - 1 : bytes[i] # 0
  BY <1>4, <1>6
<1>8. End(p) \in Cells /\ End(p) >= p
  BY <1>7 DEF End
<1>9. \A i \in 1 .. End(p) - p : bytes[p + i - 1] \in Nat
  <2> TAKE i \in 1 .. End(p) - p
  <2>1. p + i - 1 \in Cells
    BY <1>1, <1>8 DEF Cells
  <2> QED
    BY <2>1 DEF TypeOK
<1>10. End(p) - p \in Nat
  BY <1>1, <1>8 DEF Cells
<1>11. StringAt(p) \in [1 .. End(p) - p -> Nat]
  BY <1>9 DEF StringAt
<1> QED
  BY <1>8, <1>10, <1>11, SeqDef

(* A copy that leaves a byte free at the end of the array keeps the last   *)
(* bytes 0 and the pointers inside the arrays.                             *)
LEMMA KeepInside ==
  ASSUME TypeOK, InsideArrays, NEW fld \in Field, NEW x \in Seq(Nat),
         Fits(curr_len, x), Keep(fld, x)
  PROVE  /\ bytes' \in [Cells -> Nat]
         /\ ptr' \in [Field -> Cells \cup {NULL}]
         /\ cur' \in Nat /\ cur' < SIZE /\ cur' <= curr_len + Len(x) + 1
         /\ bytes'[SIZE - 1] = 0 /\ bytes'[2 * SIZE - 1] = 0
<1>1. SIZE \in Nat /\ SIZE > 0 /\ Len(x) \in Nat /\ cur \in Nat /\ curr_len \in Nat
  BY SizeAssumption DEF TypeOK
<1>2. cur + Len(x) + 1 < SIZE /\ cur <= curr_len
  BY <1>1 DEF Fits, InsideArrays
<1>3. Start = cur \/ Start = SIZE + cur
  BY DEF Start
<1>4. /\ Start \in Cells
      /\ SIZE - 1 \notin Start .. Start + Len(x) - 1
      /\ 2 * SIZE - 1 \notin Start .. Start + Len(x) - 1
      /\ SIZE - 1 \in Cells /\ 2 * SIZE - 1 \in Cells
  BY <1>1, <1>2, <1>3 DEF Cells
<1>5. \A c \in Cells : c \in Start .. Start + Len(x) - 1 => x[c - Start + 1] \in Nat
  <2> TAKE c \in Cells
  <2> HAVE c \in Start .. Start + Len(x) - 1
  <2>1. c - Start + 1 \in 1 .. Len(x)
    BY <1>1, <1>4 DEF Cells
  <2> QED
    BY <2>1
<1>6. bytes' = [c \in Cells |-> IF c \in Start .. Start + Len(x) - 1
                                THEN x[c - Start + 1] ELSE bytes[c]]
  BY DEF Keep, Put
<1>7. bytes' \in [Cells -> Nat]
  BY <1>5, <1>6 DEF TypeOK
<1>8. bytes'[SIZE - 1] = 0 /\ bytes'[2 * SIZE - 1] = 0
  BY <1>4, <1>6 DEF InsideArrays
<1>9. ptr' \in [Field -> Cells \cup {NULL}]
  BY <1>4 DEF Keep, TypeOK
<1> QED
  BY <1>1, <1>2, <1>7, <1>8, <1>9 DEF Keep

(* Sequences of fields stay sequences of fields when a part is taken out   *)
(* or put in.                                                              *)
LEMMA Splice ==
  ASSUME NEW s \in Seq(Field), NEW t \in Seq(Field), NEW i \in Int, NEW j \in Int,
         i <= Len(s), j >= 1
  PROVE  SubSeq(s, 1, i) \o t \o SubSeq(s, j, Len(s)) \in Seq(Field)
<1>1. SubSeq(s, 1, i) \in Seq(Field) /\ SubSeq(s, j, Len(s)) \in Seq(Field)
  BY SubSeqProperties
<1> QED
  BY <1>1, ConcatProperties

LEMMA StringsAreSequences == Strings \subseteq Seq(Nat)
<1> SUFFICES ASSUME NEW x \in Strings PROVE x \in Seq(Nat)
  OBVIOUS
<1>1. x \in Seq(Nat \ {0})
  BY StringsAssumption
<1> QED
  BY <1>1, SeqMonotonic

-----------------------------------------------------------------------------
(* What an operation does before its first string is stored.               *)
LEMMA BeginPreserves ==
  ASSUME IInv, NEW f \in Files, NEW js \in Seq([field : Field, str : Strings]), js # <<>>,
         NEW at \in Nat, NEW new \in Seq(Field), Begin(f, js, at, new),
         list' \in [Files -> Seq(Field)], at <= Len(list'[f])
  PROVE  IInv'
BY DEF IInv, TypeOK, Busy, InsideArrays, Begin, memory

LEMMA UnlinkPreserves ==
  ASSUME IInv, NEW f \in Files, NEW i \in Int, NEW j \in Int,
         i <= Len(list[f]) + 1, j >= 0, Unlink(f, i, j)
  PROVE  IInv'
<1>1. list[f] \in Seq(Field)
  BY DEF IInv, TypeOK
<1>2. SubSeq(list[f], 1, i - 1) \in Seq(Field) /\ SubSeq(list[f], j + 1, Len(list[f])) \in Seq(Field)
  BY <1>1, SubSeqProperties
<1>3. SubSeq(list[f], 1, i - 1) \o SubSeq(list[f], j + 1, Len(list[f])) \in Seq(Field)
  BY <1>2, ConcatProperties
<1>4. list' \in [Files -> Seq(Field)]
  BY <1>3 DEF Unlink, IInv, TypeOK
<1>5. ptr' \in [Field -> Cells \cup {NULL}]
  BY DEF Unlink, IInv, TypeOK
<1> QED
  BY <1>4, <1>5 DEF IInv, TypeOK, Busy, InsideArrays, Unlink, memory

(* The operation under way has a first job, with a field and a string.     *)
LEMMA JobType ==
  ASSUME IInv, pc # "idle"
  PROVE  /\ Job.field \in Field /\ Job.str \in Strings /\ Job.str \in Seq(Nat)
         /\ Len(Job.str) \in Nat
         /\ Tail(jobs) \in Seq([field : Field, str : Strings])
<1>1. jobs \in Seq([field : Field, str : Strings]) /\ jobs # <<>>
  BY DEF IInv, TypeOK, Busy
<1>2. /\ Head(jobs) \in [field : Field, str : Strings]
      /\ Tail(jobs) \in Seq([field : Field, str : Strings])
  BY <1>1, HeadTailProperties
<1> QED
  BY <1>2, StringsAreSequences DEF Job

LEMMA StoredPreserves ==
  ASSUME IInv, pc # "idle", Stored, Fits(curr_len, Job.str),
         curr_len' = curr_len + Len(Job.str) + 1, todo' \in Seq(Field),
         stores' \in 0 .. MaxStores
  PROVE  IInv'
<1>1. /\ Job.field \in Field /\ Job.str \in Strings /\ Job.str \in Seq(Nat)
      /\ Len(Job.str) \in Nat
      /\ Tail(jobs) \in Seq([field : Field, str : Strings])
  BY JobType
<1>2. /\ bytes' \in [Cells -> Nat]
      /\ ptr' \in [Field -> Cells \cup {NULL}]
      /\ cur' \in Nat /\ cur' < SIZE /\ cur' <= curr_len + Len(Job.str) + 1
      /\ bytes'[SIZE - 1] = 0 /\ bytes'[2 * SIZE - 1] = 0
  BY <1>1, KeepInside DEF IInv, Stored
<1>3. list' \in [Files -> Seq(Field)]
  <2>1. /\ list \in [Files -> Seq(Field)] /\ file \in Files
        /\ link.at \in Nat /\ link.new \in Seq(Field)
    BY DEF IInv, TypeOK
  <2>2. Tail(jobs) # <<>> => list' = list
    BY DEF Stored
  <2>3. Tail(jobs) = <<>> =>
          list' = [list EXCEPT ![file] = SubSeq(@, 1, link.at) \o link.new
                                         \o SubSeq(@, link.at + 1, Len(@))]
    BY DEF Stored
  <2>4. list[file] \in Seq(Field)
    BY <2>1
  <2>5. link.at <= Len(list[file])
    BY DEF IInv, Busy
  <2>6. SubSeq(list[file], 1, link.at) \o link.new
          \o SubSeq(list[file], link.at + 1, Len(list[file])) \in Seq(Field)
    BY <2>1, <2>4, <2>5, Splice
  <2> QED
    BY <2>1, <2>2, <2>3, <2>6
<1>4. want' \in [Field -> Strings \cup {<<>>}]
  BY <1>1 DEF Stored, IInv, TypeOK
<1>5. jobs' = Tail(jobs) /\ UNCHANGED <<flag, file, link, flips>>
  BY DEF Stored
<1>6. /\ pc' \in {"idle", "store"} /\ ret' \in {0, -9, -10}
      /\ pc' # "idle" => jobs' # <<>> /\ list' = list
  BY DEF Stored, IInv, TypeOK
<1>7. curr_len' \in Nat
  BY <1>1 DEF IInv, TypeOK
<1>8. TypeOK'
  BY <1>1, <1>2, <1>3, <1>4, <1>5, <1>6, <1>7 DEF IInv, TypeOK
<1>9. Busy'
  BY <1>5, <1>6 DEF IInv, Busy
<1>10. InsideArrays'
  BY <1>2, <1>7 DEF InsideArrays
<1> QED
  BY <1>8, <1>9, <1>10 DEF IInv

LEMMA GivesUpPreserves ==
  ASSUME IInv, pc # "idle", NEW r \in {-9, -10}, GivesUp(r), curr_len' \in Nat,
         curr_len' >= curr_len, todo' \in Seq(Field), stores' \in 0 .. MaxStores
  PROVE  IInv'
<1>1. list' \in [Files -> Seq(Field)]
  BY DEF GivesUp, IInv, TypeOK
<1>2. ptr' \in [Field -> Cells \cup {NULL}]
  BY DEF GivesUp, IInv, TypeOK
<1>3. jobs' \in Seq([field : Field, str : Strings])
  BY DEF GivesUp
<1>4. TypeOK'
  BY <1>1, <1>2, <1>3 DEF GivesUp, IInv, TypeOK
<1> QED
  BY <1>4 DEF GivesUp, IInv, TypeOK, Busy, InsideArrays

-----------------------------------------------------------------------------
(* Every step keeps the invariant.                                         *)
LEMMA NextPreserves == IInv /\ [Next]_vars => IInv'
<1> SUFFICES ASSUME IInv, [Next]_vars PROVE IInv'
  OBVIOUS
<1> USE DEF IInv
<1>1. ASSUME NEW f \in Files, NEW x \in Strings, InitIniFile(f, x) PROVE IInv'
  <2> DEFINE js == <<[field |-> Of(f, "name"), str |-> x]>>
             new == <<>>
  <2>1. Of(f, "name") \in Field
    BY DEF Of, Field
  <2>2. list' \in [Files -> Seq(Field)]
    BY <1>1, <2>1 DEF InitIniFile, TypeOK
  <2>3. 0 <= Len(list'[f])
    BY <2>2
  <2>4. js \in Seq([field : Field, str : Strings]) /\ new \in Seq(Field) /\ js # <<>>
    BY <2>1
  <2>5. Begin(f, js, 0, new)
    BY <1>1 DEF InitIniFile
  <2> HIDE DEF js, new
  <2> QED
    BY <2>2, <2>3, <2>4, <2>5, BeginPreserves
<1>2. ASSUME NEW f \in Files, NEW n \in Nodes, NEW x \in Strings, AddSection(f, n, x) PROVE IInv'
  <2> DEFINE js == <<[field |-> Of(n, "sec"), str |-> x]>>
             new == <<Of(n, "sec")>>
  <2>1. Of(n, "sec") \in Field
    BY DEF Of, Field
  <2>2. list' = list /\ list \in [Files -> Seq(Field)] /\ Len(list[f]) \in Nat
    BY <1>2 DEF AddSection, TypeOK
  <2>3. js \in Seq([field : Field, str : Strings]) /\ new \in Seq(Field) /\ js # <<>>
    BY <2>1
  <2>4. Begin(f, js, Len(list[f]), new)
    BY <1>2 DEF AddSection
  <2>5. Len(list'[f]) \in Nat /\ Len(list[f]) <= Len(list'[f]) /\ list' \in [Files -> Seq(Field)]
    BY <2>2
  <2> HIDE DEF js, new
  <2> QED
    BY <2>2, <2>3, <2>4, <2>5, BeginPreserves
<1>3. ASSUME NEW f \in Files, NEW n \in Nodes, NEW x \in Strings, UpdateValue(f, n, x) PROVE IInv'
  <2> DEFINE js == <<[field |-> Of(n, "value"), str |-> x]>>
             new == <<>>
  <2>1. Of(n, "value") \in Field
    BY DEF Of, Field
  <2>2. list' = list /\ list \in [Files -> Seq(Field)] /\ 0 <= Len(list[f])
    BY <1>3 DEF UpdateValue, TypeOK
  <2>3. js \in Seq([field : Field, str : Strings]) /\ new \in Seq(Field) /\ js # <<>>
    BY <2>1
  <2>4. Begin(f, js, 0, new)
    BY <1>3 DEF UpdateValue
  <2> HIDE DEF js, new
  <2> QED
    BY <2>2, <2>3, <2>4, BeginPreserves
<1>4. ASSUME NEW f \in Files, NEW n \in Nodes, NEW x \in Strings, NEW y \in Strings,
             AddPair(f, n, x, y)
      PROVE  IInv'
  <2> DEFINE js == <<[field |-> Of(n, "key"), str |-> x], [field |-> Of(n, "value"), str |-> y]>>
             new == <<Of(n, "key"), Of(n, "value")>>
  <2>1. Of(n, "key") \in Field /\ Of(n, "value") \in Field
    BY DEF Of, Field
  <2>2. list' = list /\ list \in [Files -> Seq(Field)] /\ Len(list[f]) \in Nat
    BY <1>4 DEF AddPair, TypeOK
  <2>3. js \in Seq([field : Field, str : Strings]) /\ new \in Seq(Field) /\ js # <<>>
    BY <2>1
  <2>4. PICK at \in 2 .. Len(list[f]) : Begin(f, js, at, new)
    BY <1>4 DEF AddPair
  <2>5. at \in Nat /\ at <= Len(list'[f])
    BY <2>2, <2>4
  <2> HIDE DEF js, new
  <2> QED
    BY <2>2, <2>3, <2>4, <2>5, BeginPreserves
<1>5. ASSUME NEW f \in Files, DeletePair(f) PROVE IInv'
  <2>1. PICK i \in DOMAIN list[f] : Unlink(f, i, i + 1)
    BY <1>5 DEF DeletePair
  <2>2. list[f] \in Seq(Field)
    BY DEF TypeOK
  <2>3. i \in 1 .. Len(list[f])
    BY <2>1, <2>2
  <2> QED
    BY <2>1, <2>2, <2>3, UnlinkPreserves
<1>6. ASSUME NEW f \in Files, DeleteSection(f) PROVE IInv'
  <2>1. PICK i, j \in DOMAIN list[f] : Unlink(f, i, j)
    BY <1>6 DEF DeleteSection
  <2>2. list[f] \in Seq(Field)
    BY DEF TypeOK
  <2>3. i \in 1 .. Len(list[f]) /\ j \in 1 .. Len(list[f])
    BY <2>1, <2>2
  <2> QED
    BY <2>1, <2>2, <2>3, UnlinkPreserves
<1>7. ASSUME NEW f \in Files, DestroyIniSource(f) PROVE IInv'
  <2>1. list[f] \in Seq(Field)
    BY DEF TypeOK
  <2> QED
    BY <1>7, <2>1, UnlinkPreserves DEF DestroyIniSource
<1>8. CASE StoreFits
  <2>1. todo' \in Seq(Field) /\ stores' \in 0 .. MaxStores
    BY <1>8, BoundsAssumption DEF StoreFits, TypeOK
  <2> QED
    BY <1>8, <2>1, StoredPreserves DEF StoreFits
<1>9. CASE StoreAdjusts
  <2>1. Walk \in Seq(Field)
    <3>1. list[0] \in Seq(Field) /\ list[1] \in Seq(Field)
      BY DEF TypeOK, Files
    <3> QED
      BY <3>1, ConcatProperties DEF Walk
  <2>2. flag' \in 0 .. 1 /\ flips' \in 0 .. MaxFlips /\ stores' \in 0 .. MaxStores
    BY <1>9, BoundsAssumption DEF StoreAdjusts, TypeOK
  <2> QED
    BY <1>9, <2>1, <2>2, SizeAssumption DEF StoreAdjusts, TypeOK, Busy, InsideArrays
<1>10. CASE AdjustCopies
  <2> DEFINE fld == Head(todo)
  <2>1. fld \in Field /\ Tail(todo) \in Seq(Field)
    BY <1>10, HeadTailProperties DEF AdjustCopies, TypeOK
  <2>2. CASE ptr[fld] = NULL
    BY <1>10, <2>1, <2>2 DEF AdjustCopies, TypeOK, Busy, InsideArrays
  <2>3. CASE ptr[fld] # NULL
    <3> DEFINE x == StringAt(ptr[fld])
    <3>1. ptr[fld] \in Cells
      BY <2>1, <2>3 DEF TypeOK
    <3>2. x \in Seq(Nat)
      BY <3>1, EndInside
    <3>3. Fits(curr_len, x) /\ curr_len' = curr_len + Len(x) + 1 /\ Keep(fld, x)
      BY <1>10, <2>3 DEF AdjustCopies
    <3> HIDE DEF x, fld
    <3>4. /\ bytes' \in [Cells -> Nat]
          /\ ptr' \in [Field -> Cells \cup {NULL}]
          /\ cur' \in Nat /\ cur' < SIZE /\ cur' <= curr_len + Len(x) + 1
          /\ bytes'[SIZE - 1] = 0 /\ bytes'[2 * SIZE - 1] = 0
      BY <2>1, <3>2, <3>3, KeepInside
    <3>5. curr_len' \in Nat /\ cur' <= curr_len'
      BY <3>2, <3>3, <3>4 DEF TypeOK
    <3>6. /\ todo' = Tail(todo)
          /\ UNCHANGED <<flag, list, want, pc, file, jobs, link, ret, flips, stores>>
      BY <1>10 DEF AdjustCopies
    <3> QED
      BY <2>1, <3>4, <3>5, <3>6 DEF TypeOK, Busy, InsideArrays
  <2> QED
    BY <2>2, <2>3
<1>11. CASE AdjustFull
  <2>1. Head(todo) \in Field
    BY <1>11, HeadTailProperties DEF AdjustFull, TypeOK
  <2>2. ptr[Head(todo)] \in Cells
    BY <1>11, <2>1 DEF AdjustFull, TypeOK
  <2>3. StringAt(ptr[Head(todo)]) \in Seq(Nat)
    BY <2>2, EndInside
  <2>4. curr_len' \in Nat /\ curr_len' >= curr_len
    BY <1>11, <2>3 DEF AdjustFull, TypeOK
  <2>5. pc # "idle" /\ todo' \in Seq(Field) /\ stores' \in 0 .. MaxStores /\ GivesUp(-9)
    BY <1>11 DEF AdjustFull, TypeOK
  <2> QED
    BY <2>4, <2>5, GivesUpPreserves
<1>12. CASE StoreAgain
  <2>1. /\ pc # "idle" /\ todo' \in Seq(Field) /\ stores' \in 0 .. MaxStores
        /\ curr_len' = curr_len + Len(Job.str) + 1
    BY <1>12 DEF StoreAgain, TypeOK
  <2>2. curr_len' \in Nat /\ curr_len' >= curr_len
    BY <2>1, JobType, SMTT(30) DEF TypeOK
  <2>3. CASE Fits(curr_len, Job.str)
    BY <1>12, <2>1, <2>3, StoredPreserves DEF StoreAgain
  <2>4. CASE ~Fits(curr_len, Job.str)
    BY <1>12, <2>1, <2>2, <2>4, GivesUpPreserves DEF StoreAgain
  <2> QED
    BY <2>3, <2>4
<1>13. CASE UNCHANGED vars
  BY <1>13 DEF vars, TypeOK, Busy, InsideArrays
<1>14. ASSUME NEW f \in Files, NEW n \in Nodes, GetValue(f, n) PROVE IInv'
  BY <1>14 DEF GetValue, memory, TypeOK, Busy, InsideArrays
<1>15. CASE Change
  BY <1>1, <1>2, <1>3, <1>4, <1>5, <1>6, <1>7, <1>8, <1>9, <1>10, <1>11, <1>12, <1>15 DEF Change
<1> QED
  BY <1>13, <1>14, <1>15 DEF Next

-----------------------------------------------------------------------------
LEMMA InitEstablishes == Init => IInv
<1> SUFFICES ASSUME Init PROVE IInv
  OBVIOUS
<1>1. SIZE \in Nat /\ SIZE > 0 /\ SIZE - 1 \in Cells /\ 2 * SIZE - 1 \in Cells
  BY SizeAssumption DEF Cells
<1> QED
  BY <1>1, BoundsAssumption DEF Init, IInv, TypeOK, Busy, InsideArrays, Files

LEMMA Inductive == Spec => []IInv
BY InitEstablishes, NextPreserves, PTL DEF Spec

(* The variables of the pool keep their types for every size of the arrays *)
(* and every set of strings.                                               *)
THEOREM TypeCorrect == Spec => []TypeOK
<1>1. IInv => TypeOK
  BY DEF IInv
<1> QED
  BY <1>1, Inductive, PTL

(* storage_char_memory and ini_file_memory_adjust never write the last     *)
(* byte of an array or anything behind it, after any number of adjustments *)
(* and failures, although curr_len also counts strings that were refused.  *)
THEOREM WritesInside == Spec => []InsideArrays
<1>1. IInv => InsideArrays
  BY DEF IInv
<1> QED
  BY <1>1, Inductive, PTL

-----------------------------------------------------------------------------
(* What the nodes read, as long as no array has been used twice            *)

(* A field is once in a list, and the value of a pair right behind its     *)
(* key.                                                                    *)
Once(s) == \A i, j \in DOMAIN s : s[i] = s[j] => i = j
Paired(s) == \A i \in DOMAIN s : s[i].part = "key" => i + 1 \in DOMAIN s /\ s[i + 1].part = "value"

(* No field is in the lists of two files, and a file's name only in its    *)
(* own.                                                                    *)
Lists ==
  /\ \A f \in Files : Once(list[f]) /\ Paired(list[f])
  /\ \A f, g \in Files : f # g => Range(list[f]) \cap Range(list[g]) = {}
  /\ \A f \in Files : \A fld \in Range(list[f]) : fld.part = "name" => fld.node = f

Fresh(new) ==
  /\ Once(new) /\ Paired(new)
  /\ \A fld \in Range(new) : fld.part # "name" /\ \A f \in Files : fld \notin Range(list[f])

(* The new fields are linked where no pair is torn apart.                  *)
Seam(s, at, new) == (new # <<>> /\ at < Len(s)) => s[at + 1].part = "sec"

(* The operation under way: its new fields are not yet listed, and stored  *)
(* or still to be stored.  Only the first string of a file, its name, has  *)
(* a field that is listed before it is stored.                             *)
Operation ==
  /\ Fresh(link.new) /\ Seam(list[file], link.at, link.new)
  /\ \A fld \in Range(link.new) : ptr[fld] # NULL \/ \E k \in DOMAIN jobs : jobs[k].field = fld
  /\ \A k \in DOMAIN jobs :
       jobs[k].field.part = "name" => Range(list[file]) = {jobs[k].field} /\ link.new = <<>>

(* A listed field points to a string, but for the name of a file that is   *)
(* about to be stored.                                                     *)
Waiting(fld) == pc # "idle" /\ fld.part = "name" /\ fld = Job.field
Pointed == \A f \in Files : \A fld \in Range(list[f]) : ptr[fld] # NULL \/ Waiting(fld)

(* String x lies at p in the memory b, before the mark, with a 0 behind    *)
(* it.                                                                     *)
Lies(b, mark, p, x) ==
  /\ p \in Cells /\ p + Len(x) < mark
  /\ \A i \in 1 .. Len(x) : b[p + i - 1] = x[i]
  /\ b[p + Len(x)] = 0
At(p, x) == Lies(bytes, Start, p, x)

(* Behind the mark nothing has been written.                               *)
Blank == \A c \in Cells : c >= Start => bytes[c] = 0

Intact ==
  flips <= 1 =>
    /\ flag = flips /\ Blank
    /\ \A fld \in Field : ptr[fld] # NULL => At(ptr[fld], want[fld])
    /\ handed.at # NULL => At(handed.at, handed.str)

HandedType == handed \in [at : Cells \cup {NULL}, str : Strings \cup {<<>>}]

ListInv == Lists /\ (pc # "idle" => Operation) /\ Pointed
SInv == IInv /\ ListInv /\ HandedType /\ Intact

-----------------------------------------------------------------------------
(* Lists with fields put in and taken out                                  *)

(* The sequence s with t put in behind its first n elements.               *)
PutIn(s, n, t) == SubSeq(s, 1, n) \o t \o SubSeq(s, n + 1, Len(s))

(* Its elements: those of s, with the ones of t in between.                *)
Spliced(q, s, n, t) ==
  /\ DOMAIN q = 1 .. Len(s) + Len(t)
  /\ \A i \in 1 .. n : q[i] = s[i]
  /\ \A i \in 1 .. Len(t) : q[n + i] = t[i]
  /\ \A i \in n + 1 .. Len(s) : q[Len(t) + i] = s[i]

LEMMA PutInElements ==
  ASSUME NEW s \in Seq(Field), NEW t \in Seq(Field), NEW n \in 0 .. Len(s)
  PROVE  PutIn(s, n, t) \in Seq(Field) /\ Spliced(PutIn(s, n, t), s, n, t)
<1> DEFINE a == SubSeq(s, 1, n)
           b == SubSeq(s, n + 1, Len(s))
           q == a \o t \o b
           l == Len(s)
           m == Len(t)
<1>0. l \in Nat /\ m \in Nat /\ n \in Nat /\ n <= l
  OBVIOUS
<1>1. a \in Seq(Field) /\ Len(a) = n /\ \A i \in 1 .. n : a[i] = s[i]
  <2>1. a \in Seq(Field) /\ Len(a) = (IF 1 <= n THEN n - 1 + 1 ELSE 0)
        /\ \A i \in 1 .. n - 1 + 1 : a[i] = s[1 + i - 1]
    BY <1>0, SubSeqProperties
  <2> HIDE DEF a
  <2> QED BY <2>1, <1>0
<1>2. b \in Seq(Field) /\ Len(b) = l - n /\ \A i \in 1 .. l - n : b[i] = s[n + i]
  <2>1. b \in Seq(Field) /\ Len(b) = (IF n + 1 <= l THEN l - (n + 1) + 1 ELSE 0)
        /\ \A i \in 1 .. l - (n + 1) + 1 : b[i] = s[(n + 1) + i - 1]
    BY <1>0, SubSeqProperties
  <2> HIDE DEF b, l
  <2> QED BY <2>1, <1>0
<1> HIDE DEF a, b, l, m
<1>3. a \o t \in Seq(Field) /\ Len(a \o t) = n + m
      /\ \A i \in 1 .. n + m : (a \o t)[i] = IF i <= n THEN a[i] ELSE t[i - n]
  BY <1>1, ConcatProperties DEF m
<1> DEFINE at == a \o t
<1>x. q = at \o b
  OBVIOUS
<1>y. at \in Seq(Field) /\ Len(at) = n + m
      /\ \A i \in 1 .. n + m : at[i] = IF i <= n THEN a[i] ELSE t[i - n]
  BY <1>3
<1> HIDE DEF at
<1>4. q \in Seq(Field) /\ Len(q) = (n + m) + (l - n)
      /\ \A i \in 1 .. (n + m) + (l - n) : q[i] = IF i <= n + m THEN at[i] ELSE b[i - (n + m)]
  <2>1. at \o b \in Seq(Field) /\ Len(at \o b) = Len(at) + Len(b)
        /\ \A i \in 1 .. Len(at) + Len(b) : (at \o b)[i] = IF i <= Len(at) THEN at[i] ELSE b[i - Len(at)]
    BY <1>2, <1>y, ConcatProperties
  <2> HIDE DEF q
  <2> QED BY <2>1, <1>2, <1>x, <1>y
<1>5. q = PutIn(s, n, t)
  BY DEF PutIn, a, b, l
<1> HIDE DEF q
<1>6. DOMAIN q = 1 .. l + m
  BY <1>0, <1>4
<1>7. \A i \in 1 .. n : q[i] = s[i]
  BY <1>0, <1>1, <1>y, <1>4
<1>8. \A i \in 1 .. m : q[n + i] = t[i]
  <2> TAKE i \in 1 .. m
  <2>1. n + i \in 1 .. n + m /\ n + i \in 1 .. (n + m) + (l - n) /\ ~(n + i <= n) /\ n + i <= n + m
        /\ (n + i) - n = i
    BY <1>0
  <2>2. q[n + i] = at[n + i]
    BY <2>1, <1>4
  <2> QED BY <2>1, <2>2, <1>y
<1>9. \A i \in n + 1 .. l : q[m + i] = s[i]
  BY <1>0, <1>2, <1>4
<1> QED BY <1>4, <1>5, <1>6, <1>7, <1>8, <1>9 DEF Spliced, l, m

LEMMA InRange ==
  ASSUME NEW s, NEW fld
  PROVE  fld \in Range(s) <=> \E i \in DOMAIN s : fld = s[i]
BY DEF Range

LEMMA PutInRange ==
  ASSUME NEW s \in Seq(Field), NEW t \in Seq(Field), NEW n \in 0 .. Len(s)
  PROVE  Range(PutIn(s, n, t)) = Range(s) \cup Range(t)
<1> DEFINE q == PutIn(s, n, t)
           l == Len(s)
           m == Len(t)
<1>1. /\ DOMAIN q = 1 .. l + m /\ DOMAIN s = 1 .. l /\ DOMAIN t = 1 .. m
      /\ l \in Nat /\ m \in Nat /\ n \in Nat /\ n <= l
      /\ \A i \in 1 .. n : q[i] = s[i]
      /\ \A i \in 1 .. m : q[n + i] = t[i]
      /\ \A i \in n + 1 .. l : q[m + i] = s[i]
  <2>1. Spliced(q, s, n, t)
    BY PutInElements
  <2>2. /\ DOMAIN s = 1 .. l /\ DOMAIN t = 1 .. m
        /\ l \in Nat /\ m \in Nat /\ n \in Nat /\ n <= l
    OBVIOUS
  <2> HIDE DEF q
  <2> QED BY <2>1, <2>2 DEF Spliced
<1> HIDE DEF q, l, m
<1>2. ASSUME NEW i \in 1 .. l + m PROVE q[i] \in Range(s) \cup Range(t)
  <2>1. CASE i <= n
    BY <2>1, <1>1, InRange
  <2>2. CASE i > n /\ i <= n + m
    <3>1. i - n \in 1 .. m /\ q[n + (i - n)] = t[i - n] /\ n + (i - n) = i
      BY <2>2, <1>1
    <3> QED BY <3>1, <1>1, InRange
  <2>3. CASE i > n + m
    <3>1. i - m \in n + 1 .. l /\ i - m \in 1 .. l /\ m + (i - m) = i
      BY <2>3, <1>1
    <3>2. q[m + (i - m)] = s[i - m]
      BY <3>1, <1>1
    <3> QED BY <3>1, <3>2, <1>1, InRange
  <2> QED BY <2>1, <2>2, <2>3, <1>1
<1>3. ASSUME NEW i \in 1 .. l PROVE s[i] \in Range(q)
  <2>1. CASE i <= n
    <3>1. i \in 1 .. n /\ i \in 1 .. l + m
      BY <2>1, <1>1
    <3> QED BY <3>1, <1>1, InRange
  <2>2. CASE i > n
    <3>1. i \in n + 1 .. l /\ m + i \in 1 .. l + m
      BY <2>2, <1>1
    <3> QED BY <3>1, <1>1, InRange
  <2> QED BY <2>1, <2>2, <1>1
<1>4. ASSUME NEW i \in 1 .. m PROVE t[i] \in Range(q)
  <2>1. n + i \in 1 .. l + m
    BY <1>1
  <2> QED BY <2>1, <1>1, InRange
<1>5. \A fld \in Range(q) : fld \in Range(s) \cup Range(t)
  BY <1>1, <1>2, InRange
<1>6. \A fld \in Range(s) \cup Range(t) : fld \in Range(q)
  BY <1>1, <1>3, <1>4, InRange
<1> QED BY <1>5, <1>6 DEF q

(* New fields put in at a seam keep fields apart and pairs together.       *)
LEMMA PutInKeeps ==
  ASSUME NEW s \in Seq(Field), NEW t \in Seq(Field), NEW n \in 0 .. Len(s),
         Once(s), Paired(s), Once(t), Paired(t), Range(s) \cap Range(t) = {}, Seam(s, n, t)
  PROVE  Once(PutIn(s, n, t)) /\ Paired(PutIn(s, n, t))
<1> DEFINE q == PutIn(s, n, t)
           l == Len(s)
           m == Len(t)
<1>1. /\ DOMAIN q = 1 .. l + m /\ DOMAIN s = 1 .. l /\ DOMAIN t = 1 .. m
      /\ l \in Nat /\ m \in Nat /\ n \in Nat /\ n <= l
      /\ \A i \in 1 .. n : q[i] = s[i]
      /\ \A i \in 1 .. m : q[n + i] = t[i]
      /\ \A i \in n + 1 .. l : q[m + i] = s[i]
  <2>1. Spliced(q, s, n, t)
    BY PutInElements
  <2>2. /\ DOMAIN s = 1 .. l /\ DOMAIN t = 1 .. m
        /\ l \in Nat /\ m \in Nat /\ n \in Nat /\ n <= l
    OBVIOUS
  <2> HIDE DEF q
  <2> QED BY <2>1, <2>2 DEF Spliced
<1>2. m # 0 => t # <<>>
  OBVIOUS
<1> HIDE DEF q, l, m
(* Where element i of the whole comes from.                                *)
<1> DEFINE Old(i) == IF i <= n THEN i ELSE i - m
<1>3. ASSUME NEW i \in 1 .. l + m
      PROVE  \/ i - n \in 1 .. m /\ q[i] = t[i - n]
             \/ (i <= n \/ i > n + m) /\ Old(i) \in 1 .. l /\ q[i] = s[Old(i)]
  <2>1. CASE i <= n
    <3>1. i \in 1 .. n /\ i \in 1 .. l
      BY <2>1, <1>1
    <3> QED BY <2>1, <3>1, <1>1
  <2>2. CASE i > n /\ i <= n + m
    <3>1. i - n \in 1 .. m /\ n + (i - n) = i
      BY <2>2, <1>1
    <3>2. q[n + (i - n)] = t[i - n]
      BY <3>1, <1>1
    <3> QED BY <3>1, <3>2
  <2>3. CASE i > n + m
    <3>1. i - m \in n + 1 .. l /\ i - m \in 1 .. l /\ m + (i - m) = i /\ ~(i <= n)
      BY <2>3, <1>1
    <3>2. q[m + (i - m)] = s[i - m]
      BY <3>1, <1>1
    <3>3. Old(i) = i - m
      BY <3>1
    <3> QED BY <2>3, <3>1, <3>2, <3>3
  <2> QED BY <2>1, <2>2, <2>3, <1>1
<1>4. \A i, j \in 1 .. l + m : ((i <= n \/ i > n + m) /\ (j <= n \/ j > n + m) /\ Old(i) = Old(j)) => i = j
  BY <1>1
<1>5. ASSUME NEW i \in 1 .. m, NEW j \in 1 .. l PROVE t[i] # s[j]
  BY <1>1, InRange
<1>6. ASSUME NEW i \in 1 .. l + m, NEW j \in 1 .. l + m, q[i] = q[j] PROVE i = j
  <2>1. CASE i - n \in 1 .. m /\ q[i] = t[i - n] /\ j - n \in 1 .. m /\ q[j] = t[j - n]
    <3>1. i - n = j - n
      BY <2>1, <1>1, <1>6 DEF Once
    <3> QED BY <3>1, <1>1
  <2> HIDE DEF Old
  <2>2. CASE (i <= n \/ i > n + m) /\ Old(i) \in 1 .. l /\ q[i] = s[Old(i)]
             /\ (j <= n \/ j > n + m) /\ Old(j) \in 1 .. l /\ q[j] = s[Old(j)]
    <3>1. Old(i) = Old(j)
      BY <2>2, <1>1, <1>6 DEF Once
    <3> QED BY <2>2, <3>1, <1>4
  <2> QED BY <2>1, <2>2, <1>3, <1>5, <1>6
<1>7. ASSUME NEW i \in 1 .. l + m, q[i].part = "key"
      PROVE  i + 1 \in 1 .. l + m /\ q[i + 1].part = "value"
  <2>1. CASE i - n \in 1 .. m /\ q[i] = t[i - n]
    <3>1. (i - n) + 1 \in 1 .. m /\ t[(i - n) + 1].part = "value"
      BY <2>1, <1>1, <1>7 DEF Paired
    <3>2. i + 1 \in 1 .. l + m /\ n + ((i - n) + 1) = i + 1
      BY <3>1, <1>1
    <3>3. q[n + ((i - n) + 1)] = t[(i - n) + 1]
      BY <3>1, <1>1
    <3> QED BY <3>1, <3>2, <3>3
  <2>2. CASE i <= n /\ q[i] = s[i]
    <3>1. i \in 1 .. l
      BY <2>2, <1>1
    <3>2. i + 1 \in 1 .. l /\ s[i + 1].part = "value"
      BY <2>2, <3>1, <1>1, <1>7 DEF Paired
    <3>3. CASE i < n
      <4>1. i + 1 \in 1 .. n /\ i + 1 \in 1 .. l + m
        BY <3>2, <3>3, <1>1
      <4> QED BY <4>1, <3>2, <1>1
    <3>4. CASE i = n
      <4>1. m = 0
        BY <3>2, <3>4, <1>1, <1>2 DEF Seam, l
      <4>2. i + 1 \in n + 1 .. l /\ m + (i + 1) = i + 1 /\ i + 1 \in 1 .. l + m
        BY <3>2, <3>4, <4>1, <1>1
      <4>3. q[m + (i + 1)] = s[i + 1]
        BY <4>2, <1>1
      <4> QED BY <3>2, <4>2, <4>3
    <3> QED BY <2>2, <3>3, <3>4, <1>1
  <2>3. CASE i > n + m /\ i - m \in 1 .. l /\ q[i] = s[i - m]
    <3>1. (i - m) + 1 \in 1 .. l /\ s[(i - m) + 1].part = "value"
      BY <2>3, <1>1, <1>7 DEF Paired
    <3>2. (i - m) + 1 \in n + 1 .. l /\ m + ((i - m) + 1) = i + 1 /\ i + 1 \in 1 .. l + m
      BY <2>3, <3>1, <1>1
    <3>3. q[m + ((i - m) + 1)] = s[(i - m) + 1]
      BY <3>2, <1>1
    <3> QED BY <3>1, <3>2, <3>3
  <2>4. i > n + m => ~(i <= n)
    BY <1>1
  <2> QED BY <2>1, <2>2, <2>3, <2>4, <1>3
<1> QED BY <1>1, <1>6, <1>7 DEF Once, Paired, q

(* The sequence s without its elements i to j.                             *)
TakeOut(s, i, j) == SubSeq(s, 1, i - 1) \o SubSeq(s, j + 1, Len(s))

LEMMA TakeOutElements ==
  ASSUME NEW s \in Seq(Field), NEW i \in DOMAIN s, NEW j \in DOMAIN s, i <= j
  PROVE  LET q == TakeOut(s, i, j)
             d == j - i + 1
         IN  /\ DOMAIN q = 1 .. Len(s) - d
             /\ \A k \in 1 .. Len(s) - d : q[k] = IF k < i THEN s[k] ELSE s[k + d]
<1> DEFINE a == SubSeq(s, 1, i - 1)
           b == SubSeq(s, j + 1, Len(s))
           q == a \o b
           l == Len(s)
           d == j - i + 1
<1>0. l \in Nat /\ i \in Nat /\ j \in Nat /\ 1 <= i /\ i <= j /\ j <= l /\ d \in Nat
  OBVIOUS
<1>1. a \in Seq(Field) /\ Len(a) = i - 1 /\ \A k \in 1 .. i - 1 : a[k] = s[k]
  <2>1. a \in Seq(Field) /\ Len(a) = (IF 1 <= i - 1 THEN (i - 1) - 1 + 1 ELSE 0)
        /\ \A k \in 1 .. (i - 1) - 1 + 1 : a[k] = s[1 + k - 1]
    BY <1>0, SubSeqProperties
  <2> HIDE DEF a
  <2> QED BY <2>1, <1>0
<1>2. b \in Seq(Field) /\ Len(b) = l - j /\ \A k \in 1 .. l - j : b[k] = s[j + k]
  <2>1. b \in Seq(Field) /\ Len(b) = (IF j + 1 <= l THEN l - (j + 1) + 1 ELSE 0)
        /\ \A k \in 1 .. l - (j + 1) + 1 : b[k] = s[(j + 1) + k - 1]
    BY <1>0, SubSeqProperties, SMTT(30)
  <2> HIDE DEF b, l
  <2> QED BY <2>1, <1>0, SMTT(30)
<1> HIDE DEF a, b, l
<1>3. Len(q) = Len(a) + Len(b) /\ q \in Seq(Field)
      /\ \A k \in 1 .. Len(a) + Len(b) : q[k] = IF k <= Len(a) THEN a[k] ELSE b[k - Len(a)]
  BY <1>1, <1>2, ConcatProperties
<1>4. q = TakeOut(s, i, j)
  BY DEF TakeOut, a, b, l
<1> HIDE DEF q
<1>5. Len(a) + Len(b) = l - d
  BY <1>0, <1>1, <1>2, SMTT(30)
<1>6. DOMAIN q = 1 .. l - d
  BY <1>3, <1>5
<1>7. ASSUME NEW k \in 1 .. l - d PROVE q[k] = IF k < i THEN s[k] ELSE s[k + d]
  <2>1. CASE k < i
    <3>1. k \in 1 .. i - 1 /\ k <= Len(a)
      BY <2>1, <1>0, <1>1
    <3> QED BY <2>1, <3>1, <1>1, <1>3, <1>5
  <2>2. CASE ~(k < i)
    <3>a. k \in Int /\ k >= 1 /\ k <= l - d /\ k >= i
      BY <2>2, <1>0, <1>7
    <3>b. ~(k <= i - 1)
      BY <3>a, <1>0
    <3>c. k - (i - 1) \in 1 .. l - j
      <4>1. k - (i - 1) \in Int
        BY <3>a, <1>0
      <4>2. 1 <= k - (i - 1)
        BY <3>a, <1>0
      <4>3. k - (i - 1) <= l - j
        BY <3>a, <1>0, SMTT(30)
      <4> QED BY <4>1, <4>2, <4>3, <1>0
    <3>d. j + (k - (i - 1)) = k + d
      BY <3>a, <1>0
    <3>1. ~(k <= i - 1) /\ k - (i - 1) \in 1 .. l - j /\ j + (k - (i - 1)) = k + d
      BY <3>b, <3>c, <3>d
    <3>2. q[k] = b[k - (i - 1)]
      BY <3>1, <1>1, <1>3, <1>5
    <3>3. b[k - (i - 1)] = s[j + (k - (i - 1))]
      BY <3>1, <1>2
    <3> QED BY <2>2, <3>1, <3>2, <3>3
  <2> QED BY <2>1, <2>2
<1> QED BY <1>4, <1>6, <1>7 DEF l

(* Fields taken out, not beginning in the middle of a pair.                *)
LEMMA TakeOutKeeps ==
  ASSUME NEW s \in Seq(Field), NEW i \in DOMAIN s, NEW j \in DOMAIN s, i <= j, Once(s), Paired(s),
         i = 1 \/ s[i].part # "value"
  PROVE  /\ Once(TakeOut(s, i, j)) /\ Paired(TakeOut(s, i, j))
         /\ \A fld \in Range(TakeOut(s, i, j)) : fld \in Range(s) /\ \A k \in i .. j : s[k] # fld
<1> DEFINE q == TakeOut(s, i, j)
           l == Len(s)
           d == j - i + 1
           Old(k) == IF k < i THEN k ELSE k + d
<1>0. l \in Nat /\ i \in Nat /\ j \in Nat /\ 1 <= i /\ i <= j /\ j <= l /\ d \in Nat /\ DOMAIN s = 1 .. l
  OBVIOUS
<1>1. /\ DOMAIN q = 1 .. l - d
      /\ \A k \in 1 .. l - d : q[k] = IF k < i THEN s[k] ELSE s[k + d]
  BY TakeOutElements
<1> HIDE DEF q, l
<1>2. ASSUME NEW k \in 1 .. l - d
      PROVE  q[k] = s[Old(k)] /\ Old(k) \in 1 .. l /\ Old(k) \notin i .. j
  BY <1>0, <1>1
<1>3. \A k, m \in 1 .. l - d : Old(k) = Old(m) => k = m
  BY <1>0
<1>4. ASSUME NEW k \in 1 .. l - d, Old(k) + 1 \in 1 .. l, Old(k) + 1 # i
      PROVE  k + 1 \in 1 .. l - d /\ Old(k + 1) = Old(k) + 1
  BY <1>0, <1>4, SMTT(30)
<1>5. \A k \in 1 .. l - d : Old(k) + 1 = i => i # 1
  BY <1>0
<1> HIDE DEF Old
<1>6. Once(q)
  BY <1>0, <1>1, <1>2, <1>3 DEF Once
<1>7. ASSUME NEW k \in 1 .. l - d, q[k].part = "key"
      PROVE  k + 1 \in 1 .. l - d /\ q[k + 1].part = "value"
  <2>1. s[Old(k)].part = "key" /\ Old(k) \in DOMAIN s
    BY <1>0, <1>2, <1>7
  <2>2. Old(k) + 1 \in 1 .. l /\ s[Old(k) + 1].part = "value"
    BY <2>1, <1>0 DEF Paired
  <2>3. Old(k) + 1 # i
    BY <2>2, <1>5
  <2>4. k + 1 \in 1 .. l - d /\ Old(k + 1) = Old(k) + 1
    BY <2>2, <2>3, <1>4
  <2> QED BY <2>2, <2>4, <1>2
<1>8. Paired(q)
  BY <1>1, <1>7 DEF Paired
<1>9. ASSUME NEW fld \in Range(q) PROVE fld \in Range(s) /\ \A k \in i .. j : s[k] # fld
  <2>1. PICK k \in 1 .. l - d : fld = q[k]
    <3>1. \E k \in DOMAIN q : fld = q[k]
      BY <1>9, InRange
    <3> QED BY <3>1, <1>1
  <2>2. fld = s[Old(k)] /\ Old(k) \in DOMAIN s /\ Old(k) \notin i .. j
    BY <2>1, <1>0, <1>2
  <2>3. \A m \in i .. j : m \in DOMAIN s
    BY <1>0
  <2> QED BY <2>2, <2>3, InRange DEF Once
<1> QED BY <1>6, <1>8, <1>9 DEF q

-----------------------------------------------------------------------------
(* Every step keeps the lists                                              *)

LEMMA RangeOne ==
  ASSUME NEW x PROVE Range(<<x>>) = {x} /\ Once(<<x>>)
<1>1. DOMAIN <<x>> = {1} /\ <<x>>[1] = x
  OBVIOUS
<1> QED BY <1>1 DEF Range, Once

LEMMA RangeNone == Range(<<>>) = {} /\ Once(<<>>) /\ Paired(<<>>)
<1>1. DOMAIN <<>> = {}
  OBVIOUS
<1> QED BY <1>1 DEF Range, Once, Paired

LEMMA RangeTwo ==
  ASSUME NEW x, NEW y, x # y, x.part = "key", y.part = "value"
  PROVE  Range(<<x, y>>) = {x, y} /\ Once(<<x, y>>) /\ Paired(<<x, y>>)
<1>1. DOMAIN <<x, y>> = {1, 2} /\ <<x, y>>[1] = x /\ <<x, y>>[2] = y
  OBVIOUS
<1> DEFINE s == <<x, y>>
<1> HIDE DEF s
<1>2. DOMAIN s = {1, 2} /\ s[1] = x /\ s[2] = y
  BY <1>1 DEF s
<1>3. Range(s) = {x, y}
  BY <1>2 DEF Range
<1>4. Once(s)
  BY <1>2 DEF Once
<1>5. Paired(s)
  BY <1>2 DEF Paired
<1> QED BY <1>3, <1>4, <1>5 DEF s

(* An operation on fields that are not listed begins.                      *)
LEMMA BeginLists ==
  ASSUME IInv, ListInv, NEW f \in Files, NEW js, NEW at, NEW new, Begin(f, js, at, new), list' = list,
         Fresh(new), Seam(list[f], at, new),
         \A fld \in Range(new) : \E k \in DOMAIN js : js[k].field = fld,
         \A k \in DOMAIN js : js[k].field.part # "name"
  PROVE  ListInv'
<1>1. pc = "idle" /\ pc' = "store" /\ file' = f /\ jobs' = js /\ ptr' = ptr
      /\ link'.at = at /\ link'.new = new
  BY DEF Begin
<1>2. Pointed'
  BY <1>1 DEF ListInv, Pointed, Waiting
<1>3. Lists'
  BY DEF ListInv, Lists
<1>4. Fresh(new)' /\ Fresh(link.new)'
  BY <1>1 DEF Fresh
<1>5. Seam(list'[file'], link'.at, link'.new)
  BY <1>1
<1>6. Operation'
  BY <1>1, <1>4, <1>5 DEF Operation
<1> QED BY <1>2, <1>3, <1>6 DEF ListInv

LEMMA InitFileLists ==
  ASSUME IInv, ListInv, NEW f \in Files, NEW x \in Strings, InitIniFile(f, x)
  PROVE  ListInv'
<1> DEFINE nm == Of(f, "name")
           js == <<[field |-> nm, str |-> x]>>
<1>1. /\ pc = "idle" /\ pc' = "store" /\ file' = f /\ jobs' = js /\ ptr' = ptr
      /\ link'.at = 0 /\ link'.new = <<>> /\ list[f] = <<>>
      /\ list' = [list EXCEPT ![f] = <<nm>>]
  BY DEF InitIniFile, Begin, InUse
<1>2. nm.part = "name" /\ nm.node = f /\ nm \in Field
  BY DEF Of, Field
<1>3. DOMAIN js = {1} /\ js[1].field = nm /\ Head(js).field = nm
  OBVIOUS
<1>4. list \in [Files -> Seq(Field)]
  BY DEF IInv, TypeOK
<1> HIDE DEF nm, js
<1>5. /\ list'[f] = <<nm>> /\ \A g \in Files : g # f => list'[g] = list[g]
  BY <1>1, <1>4
<1>6. Range(<<nm>>) = {nm} /\ Once(<<nm>>) /\ Paired(<<nm>>)
  <2>1. DOMAIN <<nm>> = {1} /\ <<nm>>[1] = nm
    OBVIOUS
  <2>2. Paired(<<nm>>)
    BY <2>1, <1>2 DEF Paired
  <2> QED BY <2>2, RangeOne
<1>7. ASSUME NEW g \in Files, g # f PROVE nm \notin Range(list[g])
  BY <1>2, <1>7 DEF ListInv, Lists
<1>8. Lists'
  <2>1. \A g \in Files : Once(list'[g]) /\ Paired(list'[g])
    BY <1>5, <1>6 DEF ListInv, Lists
  <2>2. ASSUME NEW g \in Files, NEW h \in Files, g # h PROVE Range(list'[g]) \cap Range(list'[h]) = {}
    BY <2>2, <1>5, <1>6, <1>7 DEF ListInv, Lists
  <2>3. \A g \in Files : \A fld \in Range(list'[g]) : fld.part = "name" => fld.node = g
    BY <1>2, <1>5, <1>6 DEF ListInv, Lists
  <2> QED BY <2>1, <2>2, <2>3 DEF Lists
<1>9. Job' = Head(js)
  BY <1>1 DEF Job
<1>10. Waiting(nm)'
  BY <1>1, <1>2, <1>3, <1>9 DEF Waiting
<1>11. Pointed'
  BY <1>1, <1>5, <1>6, <1>10 DEF ListInv, Pointed, Waiting
<1>12. Operation'
  <2>1. Fresh(<<>>)'
    BY RangeNone DEF Fresh
  <2>2. Seam(list'[file'], link'.at, <<>>)
    BY DEF Seam
  <2>3. \A k \in DOMAIN jobs' : jobs'[k].field.part = "name" =>
                Range(list'[file']) = {jobs'[k].field} /\ link'.new = <<>>
    BY <1>1, <1>3, <1>5, <1>6
  <2>4. \A fld \in Range(link'.new) : ptr'[fld] # NULL \/ \E k \in DOMAIN jobs' : jobs'[k].field = fld
    BY <1>1, RangeNone
  <2>5. Fresh(link.new)' /\ Seam(list[file], link.at, link.new)'
    BY <2>1, <2>2, <1>1 DEF Fresh
  <2> QED BY <2>3, <2>4, <2>5 DEF Operation
<1> QED BY <1>8, <1>11, <1>12 DEF ListInv

LEMMA UnlinkLists ==
  ASSUME IInv, ListInv, NEW f \in Files, NEW i \in DOMAIN list[f], NEW j \in DOMAIN list[f], i <= j,
         i = 1 \/ list[f][i].part # "value", Unlink(f, i, j)
  PROVE  ListInv'
<1> DEFINE s == list[f]
           q == TakeOut(s, i, j)
<1>1. /\ pc = "idle" /\ pc' = pc
      /\ list' = [list EXCEPT ![f] = q]
      /\ ptr' = [fld \in Field |-> IF \E k \in i .. j : s[k] = fld THEN NULL ELSE ptr[fld]]
  BY DEF Unlink, TakeOut
<1>2. list \in [Files -> Seq(Field)] /\ s \in Seq(Field) /\ i \in Int /\ j \in Int
  BY DEF IInv, TypeOK
<1>3. Once(s) /\ Paired(s)
  BY DEF ListInv, Lists
<1>4. /\ Once(q) /\ Paired(q)
      /\ \A fld \in Range(q) : fld \in Range(s) /\ \A k \in i .. j : s[k] # fld
  <2> HIDE DEF s
  <2>1. i \in DOMAIN s /\ j \in DOMAIN s /\ (i = 1 \/ s[i].part # "value")
    BY DEF s
  <2> QED BY <2>1, <1>2, <1>3, TakeOutKeeps
<1> HIDE DEF q
<1>5. list'[f] = q /\ \A g \in Files : g # f => list'[g] = list[g]
  BY <1>1, <1>2
<1>6. \A g \in Files : Range(list'[g]) \subseteq Range(list[g])
  BY <1>4, <1>5
<1>7. Lists'
  BY <1>4, <1>5, <1>6 DEF ListInv, Lists
<1>8. ASSUME NEW g \in Files, NEW fld \in Range(list'[g]) PROVE ptr'[fld] # NULL
  <2>1. fld \in Range(list[g])
    BY <1>6
  <2>2. fld \in Field
    <3>1. PICK k \in DOMAIN list[g] : fld = list[g][k]
      BY <2>1, InRange
    <3>2. list[g] \in Seq(Field)
      BY <1>2
    <3> QED BY <3>1, <3>2
  <2>3. \A k \in i .. j : s[k] # fld
    <3>1. CASE g = f
      BY <3>1, <1>4, <1>5
    <3>2. CASE g # f
      <4>1. Range(list[g]) \cap Range(s) = {}
        BY <3>2 DEF ListInv, Lists
      <4>2. \A k \in i .. j : k \in DOMAIN s
        BY <1>2
      <4>3. \A k \in i .. j : s[k] \in Range(s)
        BY <4>2, InRange
      <4> QED BY <2>1, <4>1, <4>3
    <3> QED BY <3>1, <3>2
  <2>4. ptr[fld] # NULL
    BY <2>1, <1>1 DEF ListInv, Pointed, Waiting
  <2> QED BY <1>1, <2>2, <2>3, <2>4
<1> QED BY <1>1, <1>7, <1>8 DEF ListInv, Pointed

LEMMA FieldsListed ==
  ASSUME IInv, NEW f \in Files, NEW fld \in Range(list[f]) PROVE fld \in Field
<1>1. list[f] \in Seq(Field)
  BY DEF IInv, TypeOK
<1>2. PICK i \in DOMAIN list[f] : fld = list[f][i]
  BY InRange
<1> QED BY <1>1, <1>2

(* A string is stored: its field points to it, and after the last one the  *)
(* new fields are listed.                                                  *)
LEMMA StoredLists ==
  ASSUME IInv, ListInv, pc # "idle", Stored, Fits(curr_len, Job.str)
  PROVE  ListInv'
<1> DEFINE at == Start
<1>1. jobs \in Seq([field : Field, str : Strings]) /\ jobs # <<>> /\ Operation /\ Job.field \in Field
  BY JobType DEF IInv, TypeOK, Busy, ListInv
<1>2. ptr \in [Field -> Cells \cup {NULL}] /\ list \in [Files -> Seq(Field)] /\ file \in Files
      /\ link.at \in Nat /\ link.new \in Seq(Field) /\ link.at <= Len(list[file])
  BY DEF IInv, TypeOK, Busy
<1>3. ptr' = [ptr EXCEPT ![Job.field] = Start] /\ jobs' = Tail(jobs) /\ file' = file /\ link' = link
  BY DEF Stored, Keep
<1>4. Start # NULL
  <2>1. Start \in Cells
    <3>1. SIZE \in Nat /\ SIZE > 0 /\ cur \in Nat /\ cur < SIZE
      BY SizeAssumption DEF IInv, TypeOK, InsideArrays
    <3> QED BY <3>1 DEF Start, Cells
  <2> QED BY <2>1, NodesAssumption
<1>5. \A fld \in Field : ptr'[fld] # NULL <=> (ptr[fld] # NULL \/ fld = Job.field)
  BY <1>1, <1>2, <1>3, <1>4
<1>6. \A f \in Files : \A fld \in Range(list[f]) : ptr'[fld] # NULL
  <2> TAKE f \in Files
  <2> TAKE fld \in Range(list[f])
  <2>1. fld \in Field
    BY FieldsListed
  <2> QED BY <2>1, <1>5 DEF ListInv, Pointed, Waiting
<1>7. \A k \in DOMAIN jobs : k = 1 \/ (k - 1 \in DOMAIN jobs' /\ jobs'[k - 1] = jobs[k])
  <2>1. /\ Tail(jobs) \in Seq([field : Field, str : Strings]) /\ Len(Tail(jobs)) = Len(jobs) - 1
        /\ \A i \in 1 .. Len(Tail(jobs)) : Tail(jobs)[i] = jobs[i + 1]
    BY <1>1, HeadTailProperties
  <2>2. DOMAIN jobs = 1 .. Len(jobs) /\ Len(jobs) \in Nat /\ DOMAIN Tail(jobs) = 1 .. Len(jobs) - 1
    BY <1>1, <2>1
  <2>3. ASSUME NEW k \in DOMAIN jobs, k # 1 PROVE k - 1 \in DOMAIN jobs' /\ jobs'[k - 1] = jobs[k]
    <3>1. k - 1 \in 1 .. Len(jobs) - 1 /\ (k - 1) + 1 = k
      BY <2>2, <2>3
    <3> QED BY <3>1, <2>1, <2>2, <1>3
  <2> QED BY <2>3
<1>8. jobs[1] = Job
  BY <1>1 DEF Job
<1>9. ASSUME NEW k \in DOMAIN jobs' PROVE k + 1 \in DOMAIN jobs /\ jobs'[k] = jobs[k + 1]
  <2>1. /\ Tail(jobs) \in Seq([field : Field, str : Strings]) /\ Len(Tail(jobs)) = Len(jobs) - 1
        /\ \A i \in 1 .. Len(Tail(jobs)) : Tail(jobs)[i] = jobs[i + 1]
    BY <1>1, HeadTailProperties
  <2>2. DOMAIN jobs = 1 .. Len(jobs) /\ Len(jobs) \in Nat /\ DOMAIN jobs' = 1 .. Len(jobs) - 1
    BY <1>1, <1>3, <2>1
  <2>3. k \in 1 .. Len(jobs) - 1 /\ k + 1 \in 1 .. Len(jobs)
    BY <2>2, <1>9
  <2> QED BY <2>1, <2>2, <2>3, <1>3
<1>10. ASSUME NEW fld \in Range(link.new)
       PROVE  fld \in Field /\ (ptr'[fld] # NULL \/ \E k \in DOMAIN jobs' : jobs'[k].field = fld)
  <2>1. fld \in Field
    <3>1. PICK i \in DOMAIN link.new : fld = link.new[i]
      BY InRange
    <3> QED BY <3>1, <1>2
  <2>2. CASE ptr[fld] # NULL
    BY <2>1, <2>2, <1>5
  <2>3. CASE \E k \in DOMAIN jobs : jobs[k].field = fld
    <3>1. PICK k \in DOMAIN jobs : jobs[k].field = fld
      BY <2>3
    <3>2. CASE k = 1
      BY <3>1, <3>2, <2>1, <1>5, <1>8
    <3>3. CASE k # 1
      BY <3>1, <3>3, <2>1, <1>7
    <3> QED BY <3>2, <3>3
  <2> QED BY <2>2, <2>3, <1>1 DEF Operation
<1>11. CASE Tail(jobs) # <<>>
  <2>1. pc' = "store" /\ list' = list
    BY <1>11 DEF Stored
  <2>2. Lists' /\ Pointed'
    BY <2>1, <1>6 DEF ListInv, Lists, Pointed
  <2>3. Fresh(link.new)' /\ Seam(list[file], link.at, link.new)'
    BY <2>1, <1>1, <1>3 DEF Operation, Fresh
  <2>4. \A k \in DOMAIN jobs' :
          jobs'[k].field.part = "name" => Range(list'[file']) = {jobs'[k].field} /\ link'.new = <<>>
    BY <2>1, <1>1, <1>3, <1>9 DEF Operation
  <2>5. Operation'
    BY <2>3, <2>4, <1>3, <1>10 DEF Operation
  <2> QED BY <2>2, <2>5 DEF ListInv
<1>12. CASE Tail(jobs) = <<>>
  <2> DEFINE s == list[file]
             t == link.new
             q == PutIn(s, link.at, t)
  <2>0. s \in Seq(Field) /\ t \in Seq(Field) /\ link.at \in 0 .. Len(s)
    BY <1>2
  <2>1. pc' = "idle" /\ list' = [list EXCEPT ![file] = q]
    BY <1>12 DEF Stored, PutIn
  <2>2. DOMAIN jobs' = {}
    BY <1>3, <1>12
  <2>3. list'[file] = q /\ \A g \in Files : g # file => list'[g] = list[g]
    BY <2>1, <1>2
  <2>4. /\ Once(s) /\ Paired(s) /\ Once(t) /\ Paired(t) /\ Range(s) \cap Range(t) = {} /\ Seam(s, link.at, t)
    BY <1>1, <1>2 DEF Operation, Fresh, ListInv, Lists
  <2> HIDE DEF s, t
  <2>5. Range(q) = Range(s) \cup Range(t) /\ Once(q) /\ Paired(q)
    BY <2>0, <2>4, PutInRange, PutInKeeps
  <2> HIDE DEF q
  <2>6. \A fld \in Range(t) : fld.part # "name" /\ (\A f \in Files : fld \notin Range(list[f])) /\ ptr'[fld] # NULL
    BY <2>2, <1>1, <1>10 DEF Operation, Fresh, t
  <2>7. Lists'
    <3>1. \A g \in Files : Once(list'[g]) /\ Paired(list'[g])
      BY <2>3, <2>5 DEF ListInv, Lists
    <3>2. ASSUME NEW g \in Files, NEW h \in Files, g # h PROVE Range(list'[g]) \cap Range(list'[h]) = {}
      <4>1. Range(list[g]) \cap Range(list[h]) = {}
        BY <3>2 DEF ListInv, Lists
      <4>2. CASE g = file
        BY <4>1, <4>2, <3>2, <2>3, <2>5, <2>6 DEF s
      <4>3. CASE h = file
        BY <4>1, <4>3, <3>2, <2>3, <2>5, <2>6 DEF s
      <4>4. CASE g # file /\ h # file
        BY <4>1, <4>4, <2>3
      <4> QED BY <4>2, <4>3, <4>4
    <3>3. \A g \in Files : \A fld \in Range(list'[g]) : fld.part = "name" => fld.node = g
      BY <2>3, <2>5, <2>6 DEF ListInv, Lists, s
    <3> QED BY <3>1, <3>2, <3>3 DEF Lists
  <2>8. Pointed'
    <3> SUFFICES ASSUME NEW g \in Files, NEW fld \in Range(list'[g]) PROVE ptr'[fld] # NULL
      BY DEF Pointed
    <3>1. CASE g = file
      BY <3>1, <2>3, <2>5, <2>6, <1>2, <1>6 DEF s
    <3>2. CASE g # file
      BY <3>2, <2>3, <1>6
    <3> QED BY <3>1, <3>2
  <2> QED BY <2>1, <2>7, <2>8 DEF ListInv
<1> QED BY <1>11, <1>12

(* The operation fails: none of the fields it takes back is listed.        *)
LEMMA GivesUpLists ==
  ASSUME IInv, ListInv, pc # "idle", NEW r, GivesUp(r)
  PROVE  ListInv'
<1> DEFINE new == Job.field.part = "name"
           lost == Range(link.new) \cup IF new THEN Range(list[file]) ELSE {}
<1>1. /\ pc' = "idle"
      /\ ptr' = [fld \in Field |-> IF fld \in lost THEN NULL ELSE ptr[fld]]
      /\ list' = [list EXCEPT ![file] = IF new THEN <<>> ELSE @]
  BY DEF GivesUp
<1>2. Operation /\ jobs # <<>> /\ jobs \in Seq([field : Field, str : Strings])
      /\ list \in [Files -> Seq(Field)] /\ file \in Files
  BY DEF IInv, TypeOK, Busy, ListInv
<1>3. 1 \in DOMAIN jobs /\ jobs[1] = Job
  BY <1>2 DEF Job
<1>4. \A f \in Files : list'[f] = IF new /\ f = file THEN <<>> ELSE list[f]
  BY <1>1, <1>2
<1>5. \A f \in Files : Once(list'[f]) /\ Paired(list'[f]) /\ Range(list'[f]) \subseteq Range(list[f])
  BY <1>4, RangeNone DEF ListInv, Lists
<1>6. Lists'
  BY <1>5 DEF ListInv, Lists
<1>7. ASSUME NEW f \in Files, NEW fld \in Range(list'[f]) PROVE ptr'[fld] # NULL
  <2>1. fld \in Range(list[f]) /\ fld \in Field
    BY <1>5, FieldsListed
  <2>2. fld \notin Range(link.new)
    BY <2>1, <1>2 DEF Operation, Fresh
  <2>3. CASE new
    <3>1. f # file
      BY <2>3, <1>4, <1>7, RangeNone
    <3>2. fld \notin Range(list[file])
      BY <2>1, <3>1, <1>2 DEF ListInv, Lists
    <3>3. Range(list[file]) = {Job.field}
      BY <2>3, <1>2, <1>3 DEF Operation
    <3>4. ptr[fld] # NULL
      BY <2>1, <3>2, <3>3 DEF ListInv, Pointed, Waiting
    <3> QED BY <2>1, <2>2, <3>2, <3>4, <1>1
  <2>4. CASE ~new
    <3>1. ptr[fld] # NULL
      BY <2>1, <2>4 DEF ListInv, Pointed, Waiting
    <3> QED BY <2>1, <2>2, <2>4, <3>1, <1>1
  <2> QED BY <2>3, <2>4
<1> QED BY <1>1, <1>6, <1>7 DEF ListInv, Pointed

(* Nothing of the lists, or a pointer to its string only, changes.         *)
LEMMA MoveLists ==
  ASSUME IInv, ListInv, UNCHANGED <<list, link, file, jobs>>, pc' = pc \/ (pc = "store" /\ pc' = "adjust"),
         ptr' = ptr \/ (\E fld \in Field : ptr' = [ptr EXCEPT ![fld] = Start])
  PROVE  ListInv'
<1>0. ptr \in [Field -> Cells \cup {NULL}] /\ link.new \in Seq(Field)
  BY DEF IInv, TypeOK
<1>1. Start # NULL
  <2>1. Start \in Cells
    <3>1. SIZE \in Nat /\ SIZE > 0 /\ cur \in Nat /\ cur < SIZE
      BY SizeAssumption DEF IInv, TypeOK, InsideArrays
    <3> QED BY <3>1 DEF Start, Cells
  <2> QED BY <2>1, NodesAssumption
<1>2. \A fld \in Field : ptr[fld] # NULL => ptr'[fld] # NULL
  BY <1>0, <1>1
<1>3. Lists'
  BY DEF ListInv, Lists
<1>4. Pointed'
  <2> SUFFICES ASSUME NEW f \in Files, NEW fld \in Range(list[f]) PROVE ptr'[fld] # NULL \/ Waiting(fld)'
    BY DEF Pointed
  <2>1. fld \in Field
    BY FieldsListed
  <2>2. Waiting(fld) => Waiting(fld)'
    BY DEF Waiting, Job
  <2> QED BY <2>1, <2>2, <1>2 DEF ListInv, Pointed
<1>5. ASSUME Operation PROVE Operation'
  <2>1. \A fld \in Range(link.new) : fld \in Field
    BY <1>0, InRange
  <2>2. Fresh(link.new)' /\ Seam(list[file], link.at, link.new)'
    BY <1>5 DEF Operation, Fresh
  <2> QED BY <2>1, <2>2, <1>2, <1>5 DEF Operation
<1>6. pc' # "idle" => pc # "idle"
  OBVIOUS
<1> QED BY <1>3, <1>4, <1>5, <1>6 DEF ListInv

LEMMA ListStep ==
  ASSUME IInv, ListInv, [Next]_vars PROVE ListInv'
<1>1. ASSUME NEW f \in Files, NEW x \in Strings, InitIniFile(f, x) PROVE ListInv'
  BY <1>1, InitFileLists
<1>2. ASSUME NEW f \in Files, NEW n \in Nodes, NEW x \in Strings, AddSection(f, n, x) PROVE ListInv'
  <2> DEFINE fld == Of(n, "sec")
             js == <<[field |-> fld, str |-> x]>>
  <2>1. fld.node = n /\ fld.part = "sec"
    BY DEF Of
  <2>2. Begin(f, js, Len(list[f]), <<fld>>) /\ list' = list /\ n \notin Taken
    BY <1>2 DEF AddSection
  <2>3. DOMAIN js = {1} /\ js[1].field = fld
    OBVIOUS
  <2> HIDE DEF fld, js
  <2>4. \A g \in Files : fld \notin Range(list[g])
    BY <2>1, <2>2 DEF Taken
  <2>5. Range(<<fld>>) = {fld} /\ Once(<<fld>>)
    BY RangeOne
  <2>6. Paired(<<fld>>)
    <3>1. DOMAIN <<fld>> = {1} /\ <<fld>>[1] = fld
      OBVIOUS
    <3> QED BY <3>1, <2>1 DEF Paired
  <2>7. Fresh(<<fld>>)
    BY <2>1, <2>4, <2>5, <2>6 DEF Fresh
  <2>8. Seam(list[f], Len(list[f]), <<fld>>)
    <3>1. Len(list[f]) \in Nat
      BY DEF IInv, TypeOK
    <3> QED BY <3>1 DEF Seam
  <2>9. /\ \A y \in Range(<<fld>>) : \E k \in DOMAIN js : js[k].field = y
        /\ \A k \in DOMAIN js : js[k].field.part # "name"
    BY <2>1, <2>3, <2>5
  <2> DEFINE at == Len(list[f])
             new == <<fld>>
  <2> HIDE DEF at, new
  <2> QED BY <2>2, <2>7, <2>8, <2>9, BeginLists DEF at, new
<1>3. ASSUME NEW f \in Files, NEW n \in Nodes, NEW x \in Strings, UpdateValue(f, n, x) PROVE ListInv'
  <2> DEFINE fld == Of(n, "value")
             js == <<[field |-> fld, str |-> x]>>
             new == <<>>
  <2>1. fld.part = "value"
    BY DEF Of
  <2>2. Begin(f, js, 0, new) /\ list' = list
    BY <1>3 DEF UpdateValue
  <2>3. DOMAIN js = {1} /\ js[1].field = fld
    OBVIOUS
  <2>4. Fresh(new) /\ Range(new) = {} /\ Seam(list[f], 0, new)
    BY RangeNone DEF Fresh, Seam
  <2> HIDE DEF fld, js, new
  <2>5. /\ \A y \in Range(new) : \E k \in DOMAIN js : js[k].field = y
        /\ \A k \in DOMAIN js : js[k].field.part # "name"
    BY <2>1, <2>3, <2>4
  <2> QED BY <2>2, <2>4, <2>5, BeginLists
<1>4. ASSUME NEW f \in Files, NEW n \in Nodes, NEW x \in Strings, NEW y \in Strings,
             AddPair(f, n, x, y)
      PROVE  ListInv'
  <2> DEFINE k1 == Of(n, "key")
             v1 == Of(n, "value")
             js == <<[field |-> k1, str |-> x], [field |-> v1, str |-> y]>>
             new == <<k1, v1>>
  <2>1. k1.node = n /\ v1.node = n /\ k1.part = "key" /\ v1.part = "value" /\ k1 # v1
    BY DEF Of
  <2>2. list' = list /\ n \notin Taken
    BY <1>4 DEF AddPair
  <2>3. PICK at \in 2 .. Len(list[f]) :
          /\ at < Len(list[f]) => list[f][at + 1].part = "sec"
          /\ Begin(f, js, at, new)
    BY <1>4 DEF AddPair
  <2>4. DOMAIN js = {1, 2} /\ js[1].field = k1 /\ js[2].field = v1
    OBVIOUS
  <2> HIDE DEF k1, v1, js
  <2>5. Range(new) = {k1, v1} /\ Once(new) /\ Paired(new)
    BY <2>1, RangeTwo
  <2>6. \A g \in Files : k1 \notin Range(list[g]) /\ v1 \notin Range(list[g])
    BY <2>1, <2>2 DEF Taken
  <2> HIDE DEF new
  <2>7. Fresh(new)
    BY <2>1, <2>5, <2>6 DEF Fresh
  <2>8. Seam(list[f], at, new)
    BY <2>3 DEF Seam
  <2>9. /\ \A z \in Range(new) : \E k \in DOMAIN js : js[k].field = z
        /\ \A k \in DOMAIN js : js[k].field.part # "name"
    BY <2>1, <2>4, <2>5
  <2> QED BY <2>2, <2>3, <2>7, <2>8, <2>9, BeginLists
<1>5. ASSUME NEW f \in Files, DeletePair(f) PROVE ListInv'
  <2>1. PICK i \in DOMAIN list[f] : list[f][i].part = "key" /\ Unlink(f, i, i + 1)
    BY <1>5 DEF DeletePair
  <2>2. i + 1 \in DOMAIN list[f]
    BY <2>1 DEF ListInv, Lists, Paired
  <2>3. i <= i + 1
    <3>1. list[f] \in Seq(Field)
      BY DEF IInv, TypeOK
    <3> QED BY <2>1, <3>1
  <2> DEFINE j == i + 1
  <2> HIDE DEF j
  <2>4. j \in DOMAIN list[f] /\ i <= j /\ Unlink(f, i, j) /\ list[f][i].part # "value"
    BY <2>1, <2>2, <2>3 DEF j
  <2> QED BY <2>1, <2>4, UnlinkLists
<1>6. ASSUME NEW f \in Files, DeleteSection(f) PROVE ListInv'
  <2>1. PICK i, j \in DOMAIN list[f] : i <= j /\ list[f][i].part = "sec" /\ Unlink(f, i, j)
    BY <1>6 DEF DeleteSection
  <2> QED BY <2>1, UnlinkLists
<1>7. ASSUME NEW f \in Files, DestroyIniSource(f) PROVE ListInv'
  <2>1. list[f] \in Seq(Field) /\ list[f] # <<>> /\ Unlink(f, 1, Len(list[f]))
    BY <1>7 DEF DestroyIniSource, InUse, IInv, TypeOK
  <2> DEFINE j == Len(list[f])
  <2>2. 1 \in DOMAIN list[f] /\ j \in DOMAIN list[f] /\ 1 <= j
    BY <2>1
  <2> HIDE DEF j
  <2>3. Unlink(f, 1, j)
    BY <2>1 DEF j
  <2> QED BY <2>2, <2>3, UnlinkLists
<1>8. CASE StoreFits
  BY <1>8, StoredLists DEF StoreFits
<1>9. CASE StoreAdjusts
  BY <1>9, MoveLists DEF StoreAdjusts
<1>10. CASE AdjustCopies
  <2>1. Head(todo) \in Field
    BY <1>10, HeadTailProperties DEF AdjustCopies, IInv, TypeOK
  <2>2. ptr' = ptr \/ ptr' = [ptr EXCEPT ![Head(todo)] = Start]
    BY <1>10 DEF AdjustCopies, Keep
  <2>3. UNCHANGED <<list, link, file, jobs>> /\ pc' = pc
    BY <1>10 DEF AdjustCopies
  <2> QED BY <2>1, <2>2, <2>3, MoveLists
<1>11. CASE AdjustFull
  BY <1>11, GivesUpLists DEF AdjustFull
<1>12. CASE StoreAgain
  BY <1>12, StoredLists, GivesUpLists DEF StoreAgain
<1>13. CASE UNCHANGED vars
  BY <1>13, MoveLists DEF vars
<1>14. ASSUME NEW f \in Files, NEW n \in Nodes, GetValue(f, n) PROVE ListInv'
  BY <1>14, MoveLists DEF GetValue
<1>15. CASE Change
  BY <1>1, <1>2, <1>3, <1>4, <1>5, <1>6, <1>7, <1>8, <1>9, <1>10, <1>11, <1>12, <1>15 DEF Change
<1> QED
  BY <1>13, <1>14, <1>15 DEF Next

-----------------------------------------------------------------------------
(* Every step keeps the strings                                            *)

Texts == Strings \cup {<<>>}

LEMMA TextType ==
  ASSUME NEW x \in Texts
  PROVE  x \in Seq(Nat) /\ Len(x) \in Nat /\ \A i \in 1 .. Len(x) : x[i] \in Nat /\ x[i] # 0
<1>1. x \in Seq(Nat \ {0})
  <2>1. CASE x \in Strings
    BY <2>1, StringsAssumption
  <2>2. CASE x = <<>>
    BY <2>2, EmptySeq
  <2> QED BY <2>1, <2>2 DEF Texts
<1>2. x \in Seq(Nat) /\ Len(x) \in Nat
  BY <1>1, SeqMonotonic
<1>3. \A i \in 1 .. Len(x) : x[i] \in Nat \ {0}
  BY <1>1
<1> QED BY <1>2, <1>3

LEMMA StartInside ==
  ASSUME IInv
  PROVE  Start \in Cells /\ Start \in Nat /\ SIZE \in Nat /\ SIZE > 0 /\ cur \in Nat /\ cur < SIZE
<1>1. SIZE \in Nat /\ SIZE > 0 /\ cur \in Nat /\ cur < SIZE
  BY SizeAssumption DEF IInv, TypeOK, InsideArrays
<1> QED BY <1>1 DEF Start, Cells

(* A string that lies at p is what a reader finds there.                   *)
LEMMA AtReads ==
  ASSUME IInv, NEW p, NEW x \in Texts, At(p, x)
  PROVE  StringAt(p) = x
<1> DEFINE n == Len(x)
           e == End(p)
<1>1. p \in Cells /\ p \in Nat /\ n \in Nat /\ p + n < Start
  BY TextType, StartInside DEF At, Lies, Cells
<1>2. p + n \in Cells
  BY <1>1, StartInside DEF Cells
<1>3. \A i \in 1 .. n : bytes[p + i - 1] = x[i] /\ x[i] # 0
  BY TextType DEF At, Lies
<1>4. bytes[p + n] = 0
  BY DEF At, Lies
<1> HIDE DEF n
<1>5. \A i \in p .. p + n - 1 : bytes[i] # 0
  <2> TAKE i \in p .. p + n - 1
  <2>1. (i - p + 1) \in 1 .. n /\ p + (i - p + 1) - 1 = i
    BY <1>1
  <2> QED BY <2>1, <1>3
<1>6. \E c \in Cells : c >= p /\ bytes[c] = 0 /\ \A i \in p .. c - 1 : bytes[i] # 0
  <2> DEFINE c == p + n
  <2>1. c \in Cells /\ c >= p /\ bytes[c] = 0 /\ \A i \in p .. c - 1 : bytes[i] # 0
    BY <1>1, <1>2, <1>4, <1>5
  <2> HIDE DEF c
  <2> QED BY <2>1
<1>7. e \in Cells /\ e >= p /\ bytes[e] = 0 /\ \A i \in p .. e - 1 : bytes[i] # 0
  BY <1>6 DEF End
<1> HIDE DEF e
<1>8. e \in Nat
  BY <1>7, SizeAssumption DEF Cells
<1>9. ~(e < p + n)
  <2>1. e < p + n => e \in p .. p + n - 1
    BY <1>1, <1>7, <1>8
  <2> QED BY <2>1, <1>5, <1>7
<1>10. ~(p + n < e)
  <2>1. p + n < e => p + n \in p .. e - 1
    BY <1>1, <1>8
  <2> QED BY <2>1, <1>4, <1>7
<1>11. e = p + n
  BY <1>1, <1>8, <1>9, <1>10
<1>12. e - p = n
  BY <1>1, <1>11
<1>13. StringAt(p) = [i \in 1 .. n |-> bytes[p + i - 1]]
  BY <1>12 DEF StringAt, e
<1>14. [i \in 1 .. n |-> bytes[p + i - 1]] = [i \in 1 .. n |-> x[i]]
  BY <1>3
<1>15. x = [i \in 1 .. n |-> x[i]]
  BY TextType DEF n
<1> QED BY <1>13, <1>14, <1>15

(* It stays there when nothing before the mark is written and the mark     *)
(* does not move back.                                                     *)
LEMMA AtStays ==
  ASSUME IInv, IInv', NEW p, NEW x \in Texts, At(p, x), Start' >= Start,
         \A c \in Cells : c < Start => bytes'[c] = bytes[c]
  PROVE  Lies(bytes', Start', p, x)
<1> DEFINE n == Len(x)
<1>1. p \in Cells /\ p \in Nat /\ n \in Nat /\ p + n < Start /\ Start \in Nat /\ Start \in Cells
  BY TextType, StartInside DEF At, Lies, Cells
<1>2. Start' \in Nat
  <2>1. (Start \in Nat)'
    BY StartInside, PTL
  <2> QED BY <2>1
<1>3. \A i \in 1 .. n : bytes[p + i - 1] = x[i]
  BY DEF At, Lies
<1>4. bytes[p + n] = 0
  BY DEF At, Lies
<1> HIDE DEF n
<1>5. SIZE \in Nat
  BY SizeAssumption
<1>6. p + n \in Cells /\ p + n < Start'
  BY <1>1, <1>2, <1>5 DEF Cells
<1>7. ASSUME NEW i \in 1 .. n PROVE bytes'[p + i - 1] = x[i]
  <2>1. p + i - 1 \in Cells /\ p + i - 1 < Start
    BY <1>1, <1>5 DEF Cells
  <2> QED BY <2>1, <1>3
<1>8. bytes'[p + n] = 0
  BY <1>1, <1>4, <1>6
<1> QED BY <1>1, <1>6, <1>7, <1>8 DEF Lies, n

(* A string is copied behind the mark: it can be read there, what was      *)
(* before it stays, and what is behind it is still blank.                  *)
LEMMA KeepIntact ==
  ASSUME IInv, IInv', flag' = flag, Blank, NEW fld \in Field, NEW x \in Texts, Fits(curr_len, x), Keep(fld, x)
  PROVE  /\ Start' >= Start /\ Blank' /\ Lies(bytes', Start', Start, x)
         /\ \A c \in Cells : c < Start => bytes'[c] = bytes[c]
<1> DEFINE n == Len(x)
           s == Start
<1>1. n \in Nat /\ s \in Nat /\ s \in Cells /\ SIZE \in Nat /\ cur \in Nat /\ curr_len \in Nat /\ cur <= curr_len
  BY TextType, StartInside DEF IInv, TypeOK, InsideArrays
<1>2. cur' = cur + n + 1 /\ cur + n + 1 < SIZE
  BY <1>1 DEF Keep, Fits
<1>3. Start' = s + n + 1
  BY <1>1, <1>2 DEF Start
<1>4. bytes' = [c \in Cells |-> IF c \in s .. s + n - 1 THEN x[c - s + 1] ELSE bytes[c]]
  BY DEF Keep, Put
<1>5. \A c \in Cells : c >= s => bytes[c] = 0
  BY DEF Blank
<1> HIDE DEF n, s
<1>6. s + n \in Cells
  <2>1. s = cur \/ s = SIZE + cur
    BY DEF s, Start
  <2> QED BY <2>1, <1>1, <1>2 DEF Cells
<1>7. \A c \in Cells : c < s => bytes'[c] = bytes[c]
  BY <1>1, <1>4 DEF Cells
<1>8. \A c \in Cells : c >= s + n + 1 => bytes'[c] = 0
  <2> TAKE c \in Cells
  <2> HAVE c >= s + n + 1
  <2>1. c >= s /\ c \notin s .. s + n - 1
    BY <1>1 DEF Cells
  <2> QED BY <2>1, <1>4, <1>5
<1>9. Blank'
  BY <1>3, <1>8 DEF Blank
<1>10. bytes'[s + n] = 0
  <2>1. s + n >= s /\ s + n \notin s .. s + n - 1
    BY <1>1
  <2> QED BY <2>1, <1>4, <1>5, <1>6
<1>11. ASSUME NEW i \in 1 .. n PROVE bytes'[s + i - 1] = x[i]
  <2>1. s + i - 1 \in s .. s + n - 1 /\ (s + i - 1) - s + 1 = i
    BY <1>1
  <2>2. s + i - 1 \in Cells
    BY <1>1, <1>6 DEF Cells
  <2> QED BY <2>1, <2>2, <1>4
<1>12. s + n < Start' /\ Start' >= s
  BY <1>1, <1>3
<1>13. Lies(bytes', Start', s, x)
  <2>1. s \in Cells /\ s + Len(x) < Start' /\ bytes'[s + Len(x)] = 0
        /\ \A i \in 1 .. Len(x) : bytes'[s + i - 1] = x[i]
    BY <1>1, <1>10, <1>11, <1>12 DEF n
  <2> QED BY <2>1 DEF Lies
<1> QED BY <1>7, <1>9, <1>12, <1>13 DEF s


(* Nothing is written: pointers stay or are cleared, and a pointer that is *)
(* handed out is one of a node.                                            *)
LEMMA QuietIntact ==
  ASSUME IInv, Intact, UNCHANGED <<bytes, flag, cur, flips, want>>,
         \A fld \in Field : ptr'[fld] = ptr[fld] \/ ptr'[fld] = NULL,
         \/ handed' = handed
         \/ \E fld \in Field : handed'.at = ptr[fld] /\ handed'.str = want[fld]
  PROVE  Intact'
<1> SUFFICES ASSUME flips' <= 1 PROVE Intact'
  BY DEF Intact
<1>1. Start' = Start
  BY DEF Start
<1>2. /\ flag = flips /\ Blank
      /\ \A fld \in Field : ptr[fld] # NULL => Lies(bytes, Start, ptr[fld], want[fld])
      /\ handed.at # NULL => Lies(bytes, Start, handed.at, handed.str)
  BY DEF Intact, At
<1>3. Blank'
  BY <1>1, <1>2 DEF Blank
<1>4. ASSUME NEW fld \in Field, ptr'[fld] # NULL PROVE Lies(bytes', Start', ptr'[fld], want'[fld])
  BY <1>1, <1>2, <1>4
<1>5. ASSUME handed'.at # NULL PROVE Lies(bytes', Start', handed'.at, handed'.str)
  BY <1>1, <1>2, <1>5
<1>6. flag' = flips'
  BY <1>2
<1> QED BY <1>3, <1>4, <1>5, <1>6 DEF Intact, At

(* A string is copied behind the mark and one field points to it.          *)
LEMMA KeepStaysIntact ==
  ASSUME IInv, IInv', HandedType, Intact, UNCHANGED <<flag, flips, handed>>,
         NEW fld \in Field, NEW x \in Texts, Fits(curr_len, x), Keep(fld, x),
         want' = [want EXCEPT ![fld] = x]
  PROVE  Intact'
<1> SUFFICES ASSUME flips' <= 1 PROVE Intact'
  BY DEF Intact
<1>0. /\ ptr \in [Field -> Cells \cup {NULL}] /\ want \in [Field -> Texts]
      /\ handed.str \in Texts
  BY DEF IInv, TypeOK, Texts, HandedType
<1>1. /\ flag = flips /\ Blank
      /\ \A g \in Field : ptr[g] # NULL => At(ptr[g], want[g])
      /\ handed.at # NULL => At(handed.at, handed.str)
  BY DEF Intact
<1>2. /\ Start' >= Start /\ Blank' /\ Lies(bytes', Start', Start, x)
      /\ \A c \in Cells : c < Start => bytes'[c] = bytes[c]
  BY <1>1, KeepIntact
<1>3. ptr' = [ptr EXCEPT ![fld] = Start]
  BY DEF Keep
<1>4. ASSUME NEW g \in Field, ptr'[g] # NULL PROVE Lies(bytes', Start', ptr'[g], want'[g])
  <2>1. CASE g = fld
    <3>1. ptr'[g] = Start /\ want'[g] = x
      BY <2>1, <1>0, <1>3
    <3> QED BY <3>1, <1>2
  <2>2. CASE g # fld
    <3>1. ptr'[g] = ptr[g] /\ want'[g] = want[g] /\ want[g] \in Texts
      BY <2>2, <1>0, <1>3
    <3>2. Lies(bytes', Start', ptr[g], want[g])
      BY <3>1, <1>1, <1>2, <1>4, AtStays
    <3> QED BY <3>1, <3>2
  <2> QED BY <2>1, <2>2
<1>5. ASSUME handed'.at # NULL PROVE Lies(bytes', Start', handed'.at, handed'.str)
  BY <1>0, <1>1, <1>2, <1>5, AtStays
<1>6. flag' = flips'
  BY <1>1
<1> QED BY <1>2, <1>4, <1>5, <1>6 DEF Intact, At

(* The second array is taken: it is blank, and all strings lie before it.  *)
LEMMA AdjustsIntact ==
  ASSUME IInv, IInv', HandedType, Intact, StoreAdjusts, UNCHANGED handed
  PROVE  Intact'
<1> SUFFICES ASSUME flips' <= 1 PROVE Intact'
  BY DEF Intact
<1>0. /\ want \in [Field -> Texts] /\ handed.str \in Texts /\ flips \in Nat /\ flag \in 0 .. 1
  BY BoundsAssumption DEF IInv, TypeOK, Texts, HandedType
<1>1. /\ flips' = flips + 1 /\ flag' = 1 - flag /\ cur' = 0
      /\ UNCHANGED <<bytes, ptr, want>>
  BY DEF StoreAdjusts
<1>2. flips = 0
  BY <1>0, <1>1
<1>3. /\ flag = 0 /\ Blank
      /\ \A g \in Field : ptr[g] # NULL => At(ptr[g], want[g])
      /\ handed.at # NULL => At(handed.at, handed.str)
  BY <1>2 DEF Intact
<1>4. flag' = 1 /\ flag' = flips'
  BY <1>1, <1>2, <1>3
<1>5. Start = cur /\ Start' = SIZE /\ SIZE \in Nat /\ cur \in Nat /\ cur < SIZE
  BY <1>1, <1>3, <1>4, StartInside DEF Start
<1>6. Start' >= Start
  BY <1>5
<1>7. Blank'
  <2>1. \A c \in Cells : c >= SIZE => c >= cur
    BY <1>5 DEF Cells
  <2> QED BY <2>1, <1>1, <1>3, <1>5 DEF Blank
<1>8. ASSUME NEW g \in Field, ptr'[g] # NULL PROVE Lies(bytes', Start', ptr'[g], want'[g])
  BY <1>0, <1>1, <1>3, <1>6, <1>8, AtStays
<1>9. ASSUME handed'.at # NULL PROVE Lies(bytes', Start', handed'.at, handed'.str)
  BY <1>0, <1>1, <1>3, <1>6, <1>9, AtStays
<1> QED BY <1>4, <1>7, <1>8, <1>9 DEF Intact, At

LEMMA StoredIntact ==
  ASSUME IInv, IInv', HandedType, Intact, pc # "idle", Stored, Fits(curr_len, Job.str), UNCHANGED handed
  PROVE  Intact'
<1>1. Job.field \in Field /\ Job.str \in Texts
  BY JobType DEF Texts
<1>2. /\ Keep(Job.field, Job.str) /\ want' = [want EXCEPT ![Job.field] = Job.str]
      /\ UNCHANGED <<flag, flips>>
  BY DEF Stored
<1> DEFINE fld == Job.field
           x == Job.str
<1>3. /\ fld \in Field /\ x \in Texts /\ Keep(fld, x) /\ want' = [want EXCEPT ![fld] = x]
      /\ Fits(curr_len, x) /\ UNCHANGED <<flag, flips, handed>>
  BY <1>1, <1>2
<1> HIDE DEF fld, x
<1> QED BY <1>3, KeepStaysIntact

LEMMA GivesUpIntact ==
  ASSUME IInv, Intact, NEW r, GivesUp(r), UNCHANGED handed
  PROVE  Intact'
<1>1. UNCHANGED <<bytes, flag, cur, flips, want>>
  BY DEF GivesUp
<1>2. \A fld \in Field : ptr'[fld] = ptr[fld] \/ ptr'[fld] = NULL
  BY DEF GivesUp
<1> QED BY <1>1, <1>2, QuietIntact

(* A string that is moved is the one that was stored, and stays so.        *)
LEMMA CopiesIntact ==
  ASSUME IInv, IInv', HandedType, Intact, AdjustCopies, UNCHANGED handed
  PROVE  Intact'
<1> DEFINE fld == Head(todo)
           x == StringAt(ptr[fld])
<1>0. fld \in Field
  BY HeadTailProperties DEF AdjustCopies, IInv, TypeOK
<1>1. UNCHANGED <<flag, flips, want, handed>>
  BY DEF AdjustCopies
<1>2. CASE ptr[fld] = NULL
  <2>1. UNCHANGED <<bytes, ptr, cur>>
    BY <1>2 DEF AdjustCopies
  <2> QED BY <1>1, <2>1, QuietIntact
<1>3. CASE ptr[fld] # NULL
  <2>1. Fits(curr_len, x) /\ Keep(fld, x)
    BY <1>3 DEF AdjustCopies
  <2> HIDE DEF fld
  <2>2. CASE flips <= 1
    <3>1. At(ptr[fld], want[fld]) /\ want[fld] \in Texts /\ want \in [Field -> Texts]
      BY <1>0, <1>3, <2>2 DEF Intact, IInv, TypeOK, Texts
    <3>2. x = want[fld]
      BY <3>1, AtReads
    <3> HIDE DEF x
    <3>3. want' = [want EXCEPT ![fld] = x] /\ x \in Texts
      BY <1>0, <1>1, <3>1, <3>2
    <3> QED BY <1>0, <1>1, <2>1, <3>3, KeepStaysIntact
  <2>3. CASE ~(flips <= 1)
    BY <1>1, <2>3 DEF Intact
  <2> QED BY <2>2, <2>3
<1> QED BY <1>2, <1>3

LEMMA IntactStep ==
  ASSUME IInv, IInv', HandedType, Intact, [Next]_vars
  PROVE  Intact'
<1>1. ASSUME NEW f, NEW js, NEW at, NEW new, Begin(f, js, at, new), UNCHANGED handed PROVE Intact'
  BY <1>1, QuietIntact DEF Begin, memory
<1>2. ASSUME NEW f, NEW i, NEW j, Unlink(f, i, j), UNCHANGED handed PROVE Intact'
  <2>1. UNCHANGED <<bytes, flag, cur, flips, want>>
    BY <1>2 DEF Unlink, memory
  <2>2. \A fld \in Field : ptr'[fld] = ptr[fld] \/ ptr'[fld] = NULL
    BY <1>2 DEF Unlink
  <2> QED BY <1>2, <2>1, <2>2, QuietIntact
<1>3. ASSUME NEW f \in Files, NEW x \in Strings, InitIniFile(f, x), UNCHANGED handed PROVE Intact'
  BY <1>1, <1>3 DEF InitIniFile
<1>4. ASSUME NEW f \in Files, NEW n \in Nodes, NEW x \in Strings, UNCHANGED handed,
             \/ AddSection(f, n, x) \/ UpdateValue(f, n, x)
             \/ \E y \in Strings : AddPair(f, n, x, y)
      PROVE  Intact'
  BY <1>1, <1>4 DEF AddSection, UpdateValue, AddPair
<1>5. ASSUME NEW f \in Files, DeletePair(f) \/ DeleteSection(f) \/ DestroyIniSource(f), UNCHANGED handed
      PROVE  Intact'
  BY <1>2, <1>5 DEF DeletePair, DeleteSection, DestroyIniSource
<1>6. CASE StoreFits /\ UNCHANGED handed
  BY <1>6, StoredIntact DEF StoreFits
<1>7. CASE StoreAdjusts /\ UNCHANGED handed
  BY <1>7, AdjustsIntact
<1>8. CASE AdjustCopies /\ UNCHANGED handed
  BY <1>8, CopiesIntact
<1>9. CASE AdjustFull /\ UNCHANGED handed
  BY <1>9, GivesUpIntact DEF AdjustFull
<1>10. CASE StoreAgain /\ UNCHANGED handed
  BY <1>10, StoredIntact, GivesUpIntact DEF StoreAgain
<1>11. ASSUME NEW f \in Files, NEW n \in Nodes, GetValue(f, n) PROVE Intact'
  <2>1. UNCHANGED <<bytes, flag, cur, flips, want, ptr>>
    BY <1>11 DEF GetValue, memory
  <2>2. Of(n, "value") \in Field
    BY DEF Of, Field
  <2>3. handed'.at = ptr[Of(n, "value")] /\ handed'.str = want[Of(n, "value")]
    BY <1>11 DEF GetValue
  <2> QED BY <2>1, <2>2, <2>3, QuietIntact
<1>12. CASE UNCHANGED vars
  BY <1>12, QuietIntact DEF vars
<1>13. CASE Change /\ UNCHANGED handed
  BY <1>3, <1>4, <1>5, <1>6, <1>7, <1>8, <1>9, <1>10, <1>13 DEF Change
<1> QED
  BY <1>11, <1>12, <1>13 DEF Next

LEMMA HandedStep ==
  ASSUME IInv, HandedType, [Next]_vars
  PROVE  HandedType'
<1>1. CASE UNCHANGED handed
  BY <1>1 DEF HandedType
<1>2. ASSUME NEW f \in Files, NEW n \in Nodes, GetValue(f, n) PROVE HandedType'
  <2>1. Of(n, "value") \in Field
    BY DEF Of, Field
  <2>2. ptr[Of(n, "value")] \in Cells \cup {NULL} /\ want[Of(n, "value")] \in Strings \cup {<<>>}
    BY <2>1 DEF IInv, TypeOK
  <2> QED BY <1>2, <2>2 DEF GetValue, HandedType
<1> QED BY <1>1, <1>2 DEF Next, vars

(* At rest every listed field points to its string, and a reader of that   *)
(* pointer, or of one handed out, finds the string.                        *)
LEMMA IntactReads == SInv => StringsIntact
<1> SUFFICES ASSUME SInv, flips <= 1 PROVE StringsIntact
  BY DEF StringsIntact
<1>1. IInv /\ ListInv /\ HandedType /\ Intact
  BY DEF SInv
<1>2. /\ \A fld \in Field : ptr[fld] # NULL => At(ptr[fld], want[fld])
      /\ handed.at # NULL => At(handed.at, handed.str)
      /\ want \in [Field -> Texts] /\ handed.str \in Texts
  BY <1>1 DEF Intact, IInv, TypeOK, HandedType, Texts
<1>3. ASSUME pc = "idle", NEW f \in Files, NEW i \in DOMAIN list[f] PROVE Reads(list[f][i])
  <2> DEFINE fld == list[f][i]
  <2>1. fld \in Range(list[f]) /\ fld \in Field
    BY <1>1, InRange DEF IInv, TypeOK
  <2> HIDE DEF fld
  <2>2. ptr[fld] # NULL
    BY <1>1, <1>3, <2>1 DEF ListInv, Pointed, Waiting
  <2>3. StringAt(ptr[fld]) = want[fld]
    BY <1>1, <1>2, <2>1, <2>2, AtReads
  <2> QED BY <2>2, <2>3 DEF Reads, fld
<1>4. handed.at # NULL => StringAt(handed.at) = handed.str
  BY <1>1, <1>2, AtReads
<1> QED BY <1>3, <1>4 DEF StringsIntact, NodesReadBack

LEMMA InitIntact == Init => SInv
<1> SUFFICES ASSUME Init PROVE SInv
  OBVIOUS
<1>1. IInv
  BY InitEstablishes
<1>2. Range(<<>>) = {} /\ Once(<<>>) /\ Paired(<<>>)
  BY RangeNone
<1>3. \A f \in Files : list[f] = <<>>
  BY DEF Init
<1>4. Lists /\ Pointed
  BY <1>2, <1>3 DEF Lists, Pointed
<1>5. ListInv
  BY <1>4 DEF ListInv, Init
<1>6. HandedType
  BY DEF Init, HandedType
<1>7. Intact
  BY DEF Init, Intact, Blank
<1> QED BY <1>1, <1>5, <1>6, <1>7 DEF SInv

(* Until an array is used a second time, the nodes of the open files read  *)
(* as the strings last stored in them, and so does every pointer that      *)
(* get_value_ofkey gave out, through updates, refusals, deletions and the  *)
(* move of ini_file_memory_adjust to the other array.                      *)
THEOREM StringsReadBack == Spec => []StringsIntact
<1>1. SInv /\ [Next]_vars => SInv'
  <2> SUFFICES ASSUME SInv, [Next]_vars PROVE SInv'
    OBVIOUS
  <2>1. IInv /\ ListInv /\ HandedType /\ Intact
    BY DEF SInv
  <2>2. IInv'
    BY <2>1, NextPreserves
  <2>3. ListInv'
    BY <2>1, ListStep
  <2>4. HandedType'
    BY <2>1, HandedStep
  <2>5. Intact'
    BY <2>1, <2>2, IntactStep
  <2> QED BY <2>2, <2>3, <2>4, <2>5 DEF SInv
<1> QED
  BY <1>1, InitIntact, IntactReads, PTL DEF Spec
=============================================================================
