------------------------------ MODULE IniFile ------------------------------
(***************************************************************************)
(* v2.0.0/inifile.c, one open ini file: the nodes it keeps in memory, the  *)
(* file on disk, and the rewriting of the file line by line into           *)
(* "<name>.tmp", followed by "rm -rf <name> && mv <name>.tmp <name>",      *)
(* after every change of the nodes.  file_lock is held from the first look *)
(* at the nodes to the end of the rewriting, so operations do not overlap; *)
(* a crash of the process may come between any two steps.                  *)
(*                                                                         *)
(* A line of the file is one of the kinds judge_ini_file_linetype tells    *)
(* apart, with the strings init_line_section and init_line_key_val take    *)
(* from it.  "bare" is a section header that ends the file without a       *)
(* newline.  The lists of nodes are a function here: the code looks a name *)
(* up before it adds it, so a name is in a list once.                      *)
(*                                                                         *)
(* fopen may fail; fwrite, fclose and the two shell commands succeed, and  *)
(* a line fits the buffer of fgets.  A parameter holds what its caller put *)
(* there: the operations on sections hand its key on to the rewriting.     *)
(***************************************************************************)
EXTENDS Integers, Sequences, FiniteSets

CONSTANTS
  Sections, Keys, Values,
  NULL,          \* no such node
  Missing,       \* no such file
  InitialFiles,  \* files found on disk before the first init_ini_file
  MaxSections,   \* MAX_INIFILE_SECTION_NUM
  MaxKeyvals,    \* INIFILE_KEYVALUE_ARRAY_LEN
  MaxOps,        \* bound on operations that reach the rewriting
  MaxCrashes,    \* bound on crashes of the process
  MaxFails       \* bound on failing fopen and on a full string pool

Kinds == {"section", "bare", "keyvalue", "note", "blank", "error"}
Line == {l \in [type : Kinds, sec : Sections \cup {NULL}, key : Keys \cup {NULL},
                val : Values \cup {NULL}, note : BOOLEAN] :
           /\ l.type \in {"section", "bare"} => l.sec \in Sections
           /\ l.type = "keyvalue" => l.key \in Keys /\ l.val \in Values}
Node == [Keys -> Values \cup {NULL}]
Nodes == [Sections -> Node \cup {NULL}]

ASSUME NamesAssumption == IsFiniteSet(Sections) /\ IsFiniteSet(Keys)  \* names are bounded strings
ASSUME NullAssumption == NULL \notin Sections \cup Keys \cup Values \cup Node
ASSUME FilesAssumption == InitialFiles \subseteq Seq(Line) /\ Missing \notin Seq(Line)
ASSUME BareAssumption ==  \* only the last line can be without a newline
  \A f \in InitialFiles : \A i \in DOMAIN f : f[i].type = "bare" => i = Len(f)
ASSUME BoundsAssumption == /\ MaxSections \in Nat /\ MaxKeyvals \in Nat
                           /\ MaxOps \in Nat /\ MaxCrashes \in Nat /\ MaxFails \in Nat

VARIABLES
  open,      \* flag of the INI_FILE: STRUCT_NODE_IN_USED
  nodes,     \* sections of the file and their key-value pairs
  disk, tmp, \* the file and its .tmp: lines, or Missing
  pc,        \* "idle", or the step of the rewriting
  out, res,  \* lines that go to the .tmp, and the ret of the rewriting
  ret,       \* last return value
  before,    \* history: the file when the last rewriting began
  drift,     \* history: the file open is known to differ from its nodes
  ops, crashes, fails

vars == <<open, nodes, disk, tmp, pc, out, res, ret, before, drift, ops, crashes, fails>>

INIFILE_NO_EXIST == -1
INIFILE_FORMAT_ERROR == -2
INIFILE_NUM_OUT_ARRAY == -6
INIFILE_MEMORY_POOL_OUT == -10
INIFILE_SECTION_NOFOUND == -11
INIFILE_KEYVALUE_NOFOUND == -12
INIFILE_SECTION_ALREAD == -13
INIFILE_KEYVALUE_ALREAD == -14

Closed == [s \in Sections |-> NULL]
NoKeys == [k \in Keys |-> NULL]

Plain(type) == [type |-> type, sec |-> NULL, key |-> NULL, val |-> NULL, note |-> FALSE]
Header(s) == [Plain("section") EXCEPT !.sec = s]
Pair(k, v) == [Plain("keyvalue") EXCEPT !.key = k, !.val = v]

-----------------------------------------------------------------------------
(* Reading a file                                                          *)

Heads(lines) == {i \in DOMAIN lines : lines[i].type \in {"section", "bare"}}
Pairs(lines) == {i \in DOMAIN lines : lines[i].type = "keyvalue"}
Errors(lines) == {i \in DOMAIN lines : lines[i].type = "error"}

(* Two lines with no section header between them: i < j.                   *)
Together(lines, i, j) == i < j /\ \A h \in Heads(lines) : ~(i < h /\ h <= j)

(* init_every_line_inifile: what line i is refused for, after the lines    *)
(* before it.                                                              *)
LineError(lines, i) ==
  LET heads == {h \in Heads(lines) : h < i}
      pairs == {p \in Pairs(lines) : p < i}
  IN CASE i \in Heads(lines) ->
            IF Cardinality(heads) >= MaxSections THEN INIFILE_NUM_OUT_ARRAY
            ELSE IF \E h \in heads : lines[h].sec = lines[i].sec THEN INIFILE_FORMAT_ERROR
            ELSE 0
       [] i \in Pairs(lines) ->
            IF heads = {} THEN INIFILE_FORMAT_ERROR
            ELSE IF Cardinality(pairs) >= MaxKeyvals THEN INIFILE_NUM_OUT_ARRAY
            ELSE IF \E p \in pairs : Together(lines, p, i) /\ lines[p].key = lines[i].key
                 THEN INIFILE_FORMAT_ERROR
            ELSE 0
       [] i \in Errors(lines) -> INIFILE_FORMAT_ERROR
       [] OTHER -> 0

Least(S) == CHOOSE i \in S : \A j \in S : i <= j

(* read_analys_ini_file stops at the first line that is refused ...        *)
ReadError(lines) ==
  LET bad == {i \in DOMAIN lines : LineError(lines, i) # 0}
  IN IF bad = {} THEN 0 ELSE LineError(lines, Least(bad))

(* ... and otherwise has put every pair under the header before it.        *)
ReadNodes(lines) ==
  [s \in Sections |->
     IF \A h \in Heads(lines) : lines[h].sec # s THEN NULL
     ELSE [k \in Keys |->
             LET under == {p \in Pairs(lines) : /\ lines[p].key = k
                                                /\ \E h \in Heads(lines) :
                                                     lines[h].sec = s /\ Together(lines, h, p)}
             IN IF under = {} THEN NULL ELSE lines[Least(under)].val]]

-----------------------------------------------------------------------------
(* The rewritings: the lines written, and the ret they end with.           *)

Named(lines, s) == {h \in Heads(lines) : lines[h].sec = s}
After(lines, i) == SubSeq(lines, i + 1, Len(lines))
UpTo(lines, i) == SubSeq(lines, 1, i)

(* Lines are judged up to the first one in S, or all of them; LINE_ERROR   *)
(* ends the rewriting.                                                     *)
Written(lines, S, new) ==
  [out |-> new,
   res |-> IF \E e \in Errors(lines) : \A i \in S : e < i THEN INIFILE_FORMAT_ERROR ELSE 0]

(* rewrite_after_update: the first line with the key after the header, in  *)
(* whatever section.  A note behind the value keeps its own newline, so    *)
(* that a blank line follows.                                              *)
RewriteAfterUpdate(lines, s, k, v) ==
  LET hits == {p \in Pairs(lines) : lines[p].key = k /\ \E h \in Named(lines, s) : h < p}
      p == Least(hits)
  IN Written(lines, hits,
       IF hits = {} THEN lines
       ELSE UpTo(lines, p - 1) \o <<[lines[p] EXCEPT !.val = v]>>
              \o (IF lines[p].note THEN <<Plain("blank")>> ELSE <<>>) \o After(lines, p))

(* Mutated form of RewriteAfterAdd: the pair goes to the end of the file.  *)
RewriteAfterAddLast(lines, s, k, v) ==
  Written(lines, Named(lines, s),
    IF Named(lines, s) = {} THEN lines ELSE Append(lines, Pair(k, v)))

(* rewrite_after_add for a key: behind the header, in the header's own     *)
(* line when that has no newline.                                          *)
RewriteAfterAdd(lines, s, k, v) ==
  LET h == Least(Named(lines, s))
  IN Written(lines, Named(lines, s),
       IF Named(lines, s) = {} THEN lines
       ELSE IF lines[h].type = "bare" THEN UpTo(lines, h - 1) \o <<Plain("error")>>
       ELSE UpTo(lines, h) \o <<Pair(k, v)>> \o After(lines, h))

(* The header is the last line and has no newline.                         *)
Unfinished(lines, s) == \E h \in Named(lines, s) : lines[h].type = "bare"

(* rewrite_after_add for a section: at the top, whatever the lines are.    *)
RewriteAfterAddSection(lines, s) ==
  [out |-> <<Header(s), Plain("blank")>> \o lines, res |-> 0]

(* Mutated form of Dropped: every line up to the next header goes.         *)
DroppedWhole(lines, s, k) ==
  LET h == Least(Named(lines, s))
  IN IF Named(lines, s) = {} THEN {}
     ELSE {h} \cup {i \in DOMAIN lines : Together(lines, h, i)}

(* The lines rewrite_after_delete leaves out: the header, also when only a *)
(* key is to go, and the pairs under it, or the first one with the key.    *)
Dropped(lines, s, k) ==
  LET h == Least(Named(lines, s))
      under == {p \in Pairs(lines) : Together(lines, h, p) /\ (k = NULL \/ lines[p].key = k)}
  IN IF Named(lines, s) = {} THEN {}
     ELSE {h} \cup IF k = NULL \/ under = {} THEN under ELSE {Least(under)}

Without(lines, S) ==
  LET kept == {i \in DOMAIN lines : i \notin S}
      nth(n) == CHOOSE i \in kept : Cardinality({j \in kept : j <= i}) = n
  IN [n \in 1 .. Cardinality(kept) |-> lines[nth(n)]]

(* rewrite_after_delete: lines are judged up to the deleted pair, or the   *)
(* next header.  ret is not reset: when the name is not found it is what   *)
(* the last memcmp returned.                                               *)
RewriteAfterDelete(lines, s, k) ==
  LET gone == Dropped(lines, s, k)
      pair == gone \cap Pairs(lines)
      next == {i \in Heads(lines) : \E h \in Named(lines, s) : i > h}
      w == Written(lines, IF k # NULL /\ pair # {} THEN pair ELSE next, Without(lines, gone))
      found == IF k = NULL THEN gone # {} ELSE pair # {}
  IN IF w.res # 0 \/ found THEN {w} ELSE {[w EXCEPT !.res = r] : r \in {-1, 0, 1}}

-----------------------------------------------------------------------------
(* The operations                                                          *)

Returns(r) == /\ ret' = r
              /\ UNCHANGED <<open, nodes, disk, tmp, pc, out, res, before, drift, ops, crashes, fails>>

Fail(r) == /\ fails < MaxFails
           /\ fails' = fails + 1
           /\ ret' = r
           /\ UNCHANGED <<open, nodes, disk, tmp, pc, out, res, before, drift, ops, crashes>>

(* The nodes are changed and the file is to be rewritten as w says; off    *)
(* marks the operation after which the two are known to differ.            *)
Rewrite(newnodes, w, off) ==
  /\ ops < MaxOps
  /\ ops' = ops + 1
  /\ nodes' = newnodes
  /\ out' = w.out
  /\ res' = w.res
  /\ before' = disk
  /\ drift' = (drift \/ off)
  /\ pc' = "write"
  /\ UNCHANGED <<open, disk, tmp, ret, crashes, fails>>

Ready == open /\ pc = "idle"

(* init_ini_file: a file that cannot be read leaves nothing behind.        *)
InitIniFile ==
  /\ ~open /\ pc = "idle"
  /\ IF disk = Missing THEN ret' = INIFILE_NO_EXIST /\ UNCHANGED <<open, nodes>>
     ELSE IF ReadError(disk) # 0 THEN ret' = ReadError(disk) /\ UNCHANGED <<open, nodes>>
     ELSE ret' = 0 /\ open' = TRUE /\ nodes' = ReadNodes(disk)
  /\ UNCHANGED <<disk, tmp, pc, out, res, before, drift, ops, crashes, fails>>

(* init_ini_file runs out of string memory.                                *)
InitFails ==
  /\ ~open /\ pc = "idle"
  /\ Fail(INIFILE_MEMORY_POOL_OUT)

UpdateValueOfKey(s, k, v) ==
  /\ Ready
  /\ IF nodes[s] = NULL THEN Returns(INIFILE_SECTION_NOFOUND)
     ELSE IF nodes[s][k] = NULL THEN Returns(INIFILE_KEYVALUE_NOFOUND)
     ELSE \/ Rewrite([nodes EXCEPT ![s][k] = v], RewriteAfterUpdate(disk, s, k, v), FALSE)
          \/ Fail(INIFILE_MEMORY_POOL_OUT)

KeyCount == Cardinality({sk \in Sections \X Keys :
                           nodes[sk[1]] # NULL /\ nodes[sk[1]][sk[2]] # NULL})
SectionCount == Cardinality({s \in Sections : nodes[s] # NULL})

(* Mutated form of AddValueOfKey: the array is found full one pair late.   *)
AddValueOfKeyLate(s, k, v) ==
  /\ Ready
  /\ IF nodes[s] = NULL THEN Returns(INIFILE_SECTION_NOFOUND)
     ELSE IF nodes[s][k] # NULL THEN Returns(INIFILE_KEYVALUE_ALREAD)
     ELSE IF KeyCount > MaxKeyvals THEN Returns(INIFILE_NUM_OUT_ARRAY)
     ELSE Rewrite([nodes EXCEPT ![s][k] = v], RewriteAfterAdd(disk, s, k, v), FALSE)

AddValueOfKey(s, k, v) ==
  /\ Ready
  /\ IF nodes[s] = NULL THEN Returns(INIFILE_SECTION_NOFOUND)
     ELSE IF nodes[s][k] # NULL THEN Returns(INIFILE_KEYVALUE_ALREAD)
     ELSE IF KeyCount >= MaxKeyvals THEN Returns(INIFILE_NUM_OUT_ARRAY)
     ELSE \/ Rewrite([nodes EXCEPT ![s][k] = v], RewriteAfterAdd(disk, s, k, v), Unfinished(disk, s))
          \/ Fail(INIFILE_MEMORY_POOL_OUT)

(* add_ini_section adds a node without keys; its rewriting, given a        *)
(* parameter with a key in it, looks for the new header in the old file.   *)
AddIniSection(s, k, v) ==
  /\ Ready
  /\ IF nodes[s] # NULL THEN Returns(INIFILE_SECTION_ALREAD)
     ELSE IF SectionCount >= MaxSections THEN Returns(INIFILE_NUM_OUT_ARRAY)
     ELSE \/ Rewrite([nodes EXCEPT ![s] = NoKeys],
                     IF k = NULL THEN RewriteAfterAddSection(disk, s)
                     ELSE RewriteAfterAdd(disk, s, k, v), k # NULL)
          \/ Fail(INIFILE_MEMORY_POOL_OUT)

DeleteValueOfKey(s, k) ==
  /\ Ready
  /\ IF nodes[s] = NULL THEN Returns(INIFILE_SECTION_NOFOUND)
     ELSE IF nodes[s][k] = NULL THEN Returns(INIFILE_KEYVALUE_NOFOUND)
     ELSE \E w \in RewriteAfterDelete(disk, s, k) : Rewrite([nodes EXCEPT ![s][k] = NULL], w, TRUE)

(* delete_ini_section removes the node and its keys; its rewriting, given  *)
(* a parameter with a key in it, only removes that key.                    *)
DeleteIniSection(s, k) ==
  /\ Ready
  /\ IF nodes[s] = NULL THEN Returns(INIFILE_SECTION_NOFOUND)
     ELSE \E w \in RewriteAfterDelete(disk, s, k) : Rewrite([nodes EXCEPT ![s] = NULL], w, k # NULL)

DestroyIniSource ==
  /\ Ready
  /\ open' = FALSE
  /\ nodes' = Closed
  /\ drift' = FALSE
  /\ UNCHANGED <<disk, tmp, pc, out, res, ret, before, ops, crashes, fails>>

-----------------------------------------------------------------------------
(* The end of a rewriting                                                  *)

(* The .tmp is complete and closed.                                        *)
WriteTmp ==
  /\ pc = "write"
  /\ res >= 0
  /\ tmp' = out
  /\ pc' = "remove"
  /\ UNCHANGED <<open, nodes, disk, out, res, ret, before, drift, ops, crashes, fails>>

(* delete_tmp_name_file after a negative ret, or because an fopen failed;  *)
(* the nodes stay changed.                                                 *)
DropTmp ==
  /\ pc = "write"
  /\ \/ res < 0 /\ ret' = res /\ UNCHANGED <<drift, fails>>
     \/ fails < MaxFails /\ fails' = fails + 1 /\ ret' = INIFILE_NO_EXIST /\ drift' = TRUE
  /\ tmp' = Missing
  /\ pc' = "idle"
  /\ UNCHANGED <<open, nodes, disk, out, res, before, ops, crashes>>

(* Mutated form of RemoveOld: "rm -rf <name>*".                            *)
RemoveOldAndTmp ==
  /\ pc = "remove"
  /\ disk' = Missing
  /\ tmp' = Missing
  /\ pc' = "move"
  /\ UNCHANGED <<open, nodes, out, res, ret, before, drift, ops, crashes, fails>>

(* re_name_ini_file: rm -rf of the file ...                                *)
RemoveOld ==
  /\ pc = "remove"
  /\ disk' = Missing
  /\ pc' = "move"
  /\ UNCHANGED <<open, nodes, tmp, out, res, ret, before, drift, ops, crashes, fails>>

(* ... && mv of the .tmp; the operation returns.                           *)
MoveTmp ==
  /\ pc = "move"
  /\ disk' = tmp
  /\ tmp' = Missing
  /\ pc' = "idle"
  /\ ret' = res
  /\ UNCHANGED <<open, nodes, out, res, before, drift, ops, crashes, fails>>

(* The process dies; a .tmp that was being written is cut off anywhere.    *)
Crash ==
  /\ open
  /\ crashes < MaxCrashes
  /\ crashes' = crashes + 1
  /\ open' = FALSE
  /\ nodes' = Closed
  /\ drift' = FALSE
  /\ pc' = "idle"
  /\ IF pc = "write"
     THEN \E n \in 0 .. Len(out) : tmp' = UpTo(out, n)
     ELSE UNCHANGED tmp
  /\ UNCHANGED <<disk, out, res, ret, before, ops, fails>>

-----------------------------------------------------------------------------
Init ==
  /\ open = FALSE /\ nodes = Closed
  /\ disk \in InitialFiles /\ tmp = Missing
  /\ pc = "idle" /\ out = disk /\ res = 0 /\ ret = 0 /\ before = disk /\ drift = FALSE
  /\ ops = 0 /\ crashes = 0 /\ fails = 0

Next ==
  \/ InitIniFile \/ InitFails \/ DestroyIniSource
  \/ \E s \in Sections :
       \/ \E k \in Keys \cup {NULL} :
            \/ DeleteIniSection(s, k)
            \/ \E v \in Values : AddIniSection(s, k, v)
       \/ \E k \in Keys :
            \/ DeleteValueOfKey(s, k)
            \/ \E v \in Values : UpdateValueOfKey(s, k, v) \/ AddValueOfKey(s, k, v)
  \/ WriteTmp \/ DropTmp \/ RemoveOld \/ MoveTmp \/ Crash

Spec == Init /\ [][Next]_vars
-----------------------------------------------------------------------------
(* Type correctness of the node lists, the two files and the counters; the *)
(* nodes in use never outnumber section_array and keyval_array.            *)
TypeOK ==
  /\ open \in BOOLEAN
  /\ nodes \in Nodes /\ SectionCount <= MaxSections /\ KeyCount <= MaxKeyvals
  /\ disk \in Seq(Line) \cup {Missing} /\ tmp \in Seq(Line) \cup {Missing}
  /\ out \in Seq(Line) /\ before \in Seq(Line)
  /\ pc \in {"idle", "write", "remove", "move"}
  /\ drift \in BOOLEAN /\ ret \in -15 .. 1 /\ res \in {-2, -1, 0, 1}
  /\ ops \in 0 .. MaxOps /\ crashes \in 0 .. MaxCrashes /\ fails \in 0 .. MaxFails

Mirrored == /\ disk # Missing
            /\ ReadError(disk) = 0
            /\ ReadNodes(disk) = nodes

(* Between operations the file says what the nodes say, so that a later    *)
(* init_ini_file reads back the same sections, keys and values, although   *)
(* the code edits the two separately and in different orders; as long as   *)
(* no fopen fails, delete_value_ofkey is not used, a section is added or   *)
(* deleted with a parameter that holds no key (the rewritings branch on    *)
(* parameter->key, lines 937 and 1081), and no key is added to a header    *)
(* that ends the file without a newline.                                   *)
FileMirrorsNodes == open /\ pc = "idle" /\ ~drift => Mirrored

(* The same of every operation on a key that did not fail: reading and     *)
(* writing the ini file is operating on the nodes (head comment of         *)
(* inifile.c, line 6).                                                     *)
EditsAreNodeEdits ==
  /\ open /\ pc = "idle" /\ fails = 0
  /\ \A s \in Sections : nodes[s] = NULL <=> ReadNodes(before)[s] = NULL
  => Mirrored

(* Wherever the process dies, the file is the one before the operation or  *)
(* the one after it; between rm and mv it is gone and the complete new one *)
(* is in the .tmp (re_name_ini_file).                                      *)
NothingLost ==
  \/ disk = before
  \/ disk # Missing /\ disk = out
  \/ disk = Missing /\ tmp # Missing /\ tmp = out

(* Notes stay: no rewriting removes a line that holds only a comment.      *)
NotesKept ==
  [][pc = "write" /\ pc' = "remove" =>
       Cardinality({i \in DOMAIN disk : disk[i].type = "note"})
         = Cardinality({i \in DOMAIN tmp' : tmp'[i].type = "note"})]_vars
=============================================================================
