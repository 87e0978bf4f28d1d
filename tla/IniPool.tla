------------------------------ MODULE IniPool ------------------------------
(***************************************************************************)
(* v2.0.0/inifile.c, the string memory all open files share: two arrays of *)
(* INIFILE_SIZE_SPACE bytes, of which one is filled from its start; when   *)
(* it is full ini_file_memory_adjust copies the strings the nodes still    *)
(* point to into the other one.  The fields of the nodes are C strings:    *)
(* storage_char_memory copies their characters and skips one byte, and the *)
(* reader goes on until it finds a byte that is 0.                         *)
(*                                                                         *)
(* The two arrays are one after the other in struct memory_pool.  Byte i   *)
(* of array p is bytes[p * SIZE + i].  The lists of a file are the         *)
(* sequence of its fields in the order in which they are walked.  One      *)
(* thread calls the library.                                               *)
(***************************************************************************)
EXTENDS Integers, Sequences, FiniteSets, Functions

CONSTANTS
  SIZE,       \* INIFILE_SIZE_SPACE
  Nodes,      \* nodes of section_array and keyval_array
  Strings,    \* what names, keys and values may be
  NULL,
  MaxFlips,   \* bound on calls of ini_file_memory_adjust
  MaxStores   \* bound on calls of storage_char_memory

Files == 0 .. 1                    \* MAX_OPERATION_FILE_NUM
Field == [node : Files \cup Nodes, part : {"name", "sec", "key", "value"}]
Of(n, part) == [node |-> n, part |-> part]
Cells == 0 .. 2 * SIZE - 1

ASSUME SizeAssumption == SIZE \in Nat \ {0}
ASSUME StringsAssumption == Strings \subseteq Seq(Nat \ {0}) \ {<<>>}
ASSUME NodesAssumption == Nodes \cap Files = {} /\ NULL \notin Cells
ASSUME BoundsAssumption == MaxFlips \in Nat /\ MaxStores \in Nat

VARIABLES
  bytes,          \* pool and back_pool
  flag,           \* 0: pool is in use, 1: back_pool
  cur, curr_len,  \* current - start of the array, and curr_len
  list,           \* fields of every file in walking order, <<>>: not in use
  ptr,            \* where a field points, or NULL
  want,           \* history: the string last stored for a field
  pc,             \* "idle", "store", "adjust", "retry"
  file,           \* the file worked on
  jobs,           \* strings the operation has still to store, with their fields
  link,           \* where in the list the operation's new fields go, and which
  todo,           \* fields ini_file_memory_adjust has still to copy
  ret, flips, stores,
  handed          \* the pointer last returned to a caller, and what it pointed to

vars == <<bytes, flag, cur, curr_len, list, ptr, want, pc, file, jobs, link, todo, ret,
          flips, stores, handed>>
memory == <<bytes, flag, cur, curr_len, flips>>

-----------------------------------------------------------------------------
(* str_int_len and the characters themselves: up to the first 0.           *)
End(p) == CHOOSE e \in Cells : /\ e >= p /\ bytes[e] = 0
                               /\ \A i \in p .. e - 1 : bytes[i] # 0
StringAt(p) == [i \in 1 .. End(p) - p |-> bytes[p + i - 1]]

(* memcpy to current: the characters, without the 0 behind them.           *)
Start == IF flag = 0 THEN cur ELSE SIZE + cur
Put(x) == bytes' = [c \in Cells |-> IF c \in Start .. Start + Len(x) - 1
                                    THEN x[c - Start + 1] ELSE bytes[c]]

(* Mutated form of Fits: the last byte of the array is used as well.       *)
FitsFull(len, x) == len + Len(x) < SIZE + 1

(* room for the string and for the byte that ends it                       *)
Fits(len, x) == len + Len(x) + 1 < SIZE

(* Mutated form of Keep: no byte is skipped behind the string.             *)
KeepTight(fld, x) == /\ Put(x)
                     /\ ptr' = [ptr EXCEPT ![fld] = Start]
                     /\ cur' = cur + Len(x)

(* The string goes to current and the field points to it.                  *)
Keep(fld, x) == /\ Put(x)
                /\ ptr' = [ptr EXCEPT ![fld] = Start]
                /\ cur' = cur + Len(x) + 1

(* Fields in the order in which ini_file_memory_adjust meets them: the     *)
(* loop over the files does not move on from a file that is in use.        *)
Walk == IF list[0] # <<>> THEN list[0] \o list[0] ELSE list[1]

-----------------------------------------------------------------------------
(* The operations, up to their first storage_char_memory                   *)

Taken == {fld.node : fld \in UNION {Range(list[f]) : f \in Files}}
InUse(f) == list[f] # <<>>

(* An operation on file f stores the strings of js and then links the      *)
(* fields of new behind the first `at' fields of the list.                 *)
Begin(f, js, at, new) ==
  /\ pc = "idle"
  /\ pc' = "store"
  /\ file' = f
  /\ jobs' = js
  /\ link' = [at |-> at, new |-> new]
  /\ UNCHANGED <<memory, ptr, want, todo, ret, stores>>

(* init_ini_file: get_index_ini_file, then the name.                       *)
InitIniFile(f, x) ==
  /\ ~InUse(f) /\ \A g \in Files : g < f => InUse(g)
  /\ list' = [list EXCEPT ![f] = <<Of(f, "name")>>]
  /\ Begin(f, <<[field |-> Of(f, "name"), str |-> x]>>, 0, <<>>)

(* A section, of the file read or of add_ini_section, goes to the end.     *)
AddSection(f, n, x) ==
  /\ InUse(f) /\ n \notin Taken
  /\ Begin(f, <<[field |-> Of(n, "sec"), str |-> x]>>, Len(list[f]), <<Of(n, "sec")>>)
  /\ UNCHANGED list

(* A pair goes to the end of a section: its key is stored, its value is    *)
(* stored, and only then is the node linked (init_line_key_val).           *)
AddPair(f, n, x, y) ==
  /\ InUse(f) /\ n \notin Taken
  /\ \E at \in 2 .. Len(list[f]) :
       /\ at < Len(list[f]) => list[f][at + 1].part = "sec"
       /\ Begin(f, <<[field |-> Of(n, "key"), str |-> x], [field |-> Of(n, "value"), str |-> y]>>,
                at, <<Of(n, "key"), Of(n, "value")>>)
  /\ UNCHANGED list

(* update_value_ofkey *)
UpdateValue(f, n, x) ==
  /\ Of(n, "value") \in Range(list[f])
  /\ Begin(f, <<[field |-> Of(n, "value"), str |-> x]>>, 0, <<>>)
  /\ UNCHANGED list

(* delete_value_ofkey, delete_ini_section, destroy_ini_source: fields from *)
(* i to j leave the list.                                                  *)
Unlink(f, i, j) ==
  /\ pc = "idle"
  /\ list' = [list EXCEPT ![f] = SubSeq(@, 1, i - 1) \o SubSeq(@, j + 1, Len(@))]
  /\ ptr' = [fld \in Field |-> IF \E k \in i .. j : list[f][k] = fld THEN NULL ELSE ptr[fld]]
  /\ UNCHANGED <<memory, want, pc, file, jobs, link, todo, ret, stores>>

DeletePair(f) == \E i \in DOMAIN list[f] : list[f][i].part = "key" /\ Unlink(f, i, i + 1)

DeleteSection(f) ==
  \E i, j \in DOMAIN list[f] :
    /\ i <= j /\ list[f][i].part = "sec"
    /\ \A k \in i + 1 .. j : list[f][k].part # "sec"
    /\ j < Len(list[f]) => list[f][j + 1].part = "sec"
    /\ Unlink(f, i, j)

DestroyIniSource(f) == InUse(f) /\ Unlink(f, 1, Len(list[f]))

(* get_value_ofkey returns the pointer of the node, and not a copy.        *)
GetValue(f, n) ==
  /\ pc = "idle"
  /\ Of(n, "value") \in Range(list[f])
  /\ handed' = [at |-> ptr[Of(n, "value")], str |-> want[Of(n, "value")]]
  /\ UNCHANGED <<memory, list, ptr, want, pc, file, jobs, link, todo, ret, stores>>

-----------------------------------------------------------------------------
(* storage_char_memory, for the first of the jobs                          *)

Job == Head(jobs)

(* The string is stored; after the last one the new fields are linked.     *)
Stored ==
  /\ Keep(Job.field, Job.str)
  /\ want' = [want EXCEPT ![Job.field] = Job.str]
  /\ jobs' = Tail(jobs)
  /\ IF Tail(jobs) # <<>> THEN pc' = "store" /\ UNCHANGED <<list, ret>>
     ELSE /\ pc' = "idle"
          /\ ret' = 0
          /\ list' = [list EXCEPT ![file] = SubSeq(@, 1, link.at) \o link.new
                                            \o SubSeq(@, link.at + 1, Len(@))]
  /\ UNCHANGED <<flag, file, link, flips>>

(* The operation gives up: a new node is released, a new file destroyed.   *)
GivesUp(r) ==
  /\ pc' = "idle"
  /\ ret' = r
  /\ jobs' = <<>>
  /\ LET lost == Range(link.new) \cup IF Job.field.part = "name" THEN Range(list[file]) ELSE {}
     IN ptr' = [fld \in Field |-> IF fld \in lost THEN NULL ELSE ptr[fld]]
  /\ list' = [list EXCEPT ![file] = IF Job.field.part = "name" THEN <<>> ELSE @]
  /\ UNCHANGED <<bytes, flag, cur, want, file, link, flips>>

StoreFits ==
  /\ pc = "store" /\ stores < MaxStores
  /\ Fits(curr_len, Job.str)
  /\ stores' = stores + 1
  /\ curr_len' = curr_len + Len(Job.str) + 1
  /\ Stored
  /\ UNCHANGED todo

(* Mutated form of StoreAdjusts: there is no way back to the first array.  *)
StoreAdjustsOnward ==
  /\ pc = "store" /\ stores < MaxStores
  /\ ~Fits(curr_len, Job.str)
  /\ flips < MaxFlips
  /\ flips' = flips + 1
  /\ stores' = stores + 1
  /\ pc' = "adjust"
  /\ flag' = flag + 1
  /\ cur' = 0 /\ curr_len' = 0
  /\ todo' = Walk
  /\ UNCHANGED <<bytes, list, ptr, want, file, jobs, link, ret>>

(* The array is full: the other one is taken from its start.               *)
StoreAdjusts ==
  /\ pc = "store" /\ stores < MaxStores
  /\ ~Fits(curr_len, Job.str)
  /\ flips < MaxFlips
  /\ flips' = flips + 1
  /\ stores' = stores + 1
  /\ pc' = "adjust"
  /\ flag' = 1 - flag
  /\ cur' = 0 /\ curr_len' = 0
  /\ todo' = Walk
  /\ UNCHANGED <<bytes, list, ptr, want, file, jobs, link, ret>>

(* ini_file_memory_adjust copies the next field, if it points anywhere ... *)
AdjustCopies ==
  /\ pc = "adjust" /\ todo # <<>>
  /\ todo' = Tail(todo)
  /\ LET fld == Head(todo)
         x == StringAt(ptr[fld])
     IN IF ptr[fld] = NULL THEN UNCHANGED <<bytes, ptr, cur, curr_len>>
        ELSE /\ Fits(curr_len, x)
             /\ curr_len' = curr_len + Len(x) + 1
             /\ Keep(fld, x)
  /\ UNCHANGED <<flag, list, want, pc, file, jobs, link, ret, flips, stores>>

(* ... or finds the array full: INIFILE_MEMORY_POOL_ERROR.                 *)
AdjustFull ==
  /\ pc = "adjust" /\ todo # <<>>
  /\ ptr[Head(todo)] # NULL
  /\ LET x == StringAt(ptr[Head(todo)])
     IN /\ ~Fits(curr_len, x)
        /\ curr_len' = curr_len + Len(x) + 1
  /\ todo' = <<>>
  /\ GivesUp(-9)
  /\ UNCHANGED stores

(* After the copying the string is tried again: INIFILE_MEMORY_POOL_OUT.   *)
StoreAgain ==
  /\ pc = "adjust" /\ todo = <<>>
  /\ curr_len' = curr_len + Len(Job.str) + 1
  /\ IF Fits(curr_len, Job.str) THEN Stored ELSE GivesUp(-10)
  /\ UNCHANGED <<todo, stores>>

-----------------------------------------------------------------------------
Init ==
  /\ bytes = [c \in Cells |-> 0]
  /\ flag = 0 /\ cur = 0 /\ curr_len = 0
  /\ list = [f \in Files |-> <<>>]
  /\ ptr = [fld \in Field |-> NULL]
  /\ want = [fld \in Field |-> <<>>]
  /\ pc = "idle" /\ file = 0 /\ jobs = <<>> /\ link = [at |-> 0, new |-> <<>>]
  /\ todo = <<>> /\ ret = 0 /\ flips = 0 /\ stores = 0
  /\ handed = [at |-> NULL, str |-> <<>>]

Change ==
  \/ \E f \in Files :
       \/ \E x \in Strings : InitIniFile(f, x)
       \/ \E n \in Nodes, x \in Strings :
            \/ AddSection(f, n, x) \/ UpdateValue(f, n, x)
            \/ \E y \in Strings : AddPair(f, n, x, y)
       \/ DeletePair(f) \/ DeleteSection(f) \/ DestroyIniSource(f)
  \/ StoreFits \/ StoreAdjusts \/ AdjustCopies \/ AdjustFull \/ StoreAgain

Next ==
  \/ Change /\ UNCHANGED handed
  \/ \E f \in Files, n \in Nodes : GetValue(f, n)

Spec == Init /\ [][Next]_vars
-----------------------------------------------------------------------------
(* Type correctness of the pool, the pointers and the operation under way. *)
TypeOK ==
  /\ bytes \in [Cells -> Nat]
  /\ flag \in 0 .. 1 /\ cur \in Nat /\ curr_len \in Nat
  /\ list \in [Files -> Seq(Field)]
  /\ ptr \in [Field -> Cells \cup {NULL}]
  /\ want \in [Field -> Strings \cup {<<>>}]
  /\ pc \in {"idle", "store", "adjust"} /\ file \in Files
  /\ jobs \in Seq([field : Field, str : Strings])
  /\ link \in [at : Nat, new : Seq(Field)]
  /\ todo \in Seq(Field)
  /\ ret \in {0, -9, -10}
  /\ flips \in 0 .. MaxFlips /\ stores \in 0 .. MaxStores

(* Nothing is ever copied past the end of an array, whatever curr_len says *)
(* after operations that failed: the last byte of each one stays 0, so     *)
(* that reading a field ends inside its array.                             *)
InsideArrays ==
  /\ cur < SIZE /\ cur <= curr_len
  /\ bytes[SIZE - 1] = 0 /\ bytes[2 * SIZE - 1] = 0

(* A field of an open file reads as the string stored for it.              *)
Reads(fld) == ptr[fld] # NULL /\ StringAt(ptr[fld]) = want[fld]

(* The nodes of the open files say what was stored in them (get_value_of-  *)
(* key and the lookups read them as C strings).  It is not an invariant:   *)
(* in an array that is used for the second time the byte behind a string   *)
(* is not 0, and the string runs on into an older one.                     *)
NodesReadBack == pc = "idle" => \A f \in Files : \A i \in DOMAIN list[f] : Reads(list[f][i])

(* They do as long as no array has been used twice, whichever strings were *)
(* refused and although only the first file's strings are moved.  So long  *)
(* a caller may also keep what get_value_ofkey returned: the string stays  *)
(* as it was when the value is updated, moved, deleted or its file closed. *)
StringsIntact ==
  flips <= 1 =>
    /\ NodesReadBack
    /\ handed.at # NULL => StringAt(handed.at) = handed.str
=============================================================================
