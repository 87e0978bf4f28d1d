------------------------------- MODULE IniV1 -------------------------------
(* Version 1.0.0 of the ini library: src/v1.0.0/inifile.c.                  *)
(*                                                                          *)
(* A file is read into a list of nodes (initIniFile), every operation       *)
(* changes the list and then writes the whole file again from it            *)
(* (updateIniFile: truncate, one write per line), and                       *)
(* exitOperationIniFile gives the list back.  The library is not used by    *)
(* two threads at once; what makes it hard is what lies between the list    *)
(* and the file: the forms a line is read in and written in are not the     *)
(* same, a write may fail or the process may die between two lines, and     *)
(* the file that is left is read again later.                               *)
(*                                                                          *)
(* Strings are abstracted to what the code tells apart: their text, its     *)
(* length, and how the stored copy ends (exactly, with one blank or more,   *)
(* with the line's newline).  Blank lines and the blanks in front of a      *)
(* value are layout and left out.                                           *)
EXTENDS Integers, Sequences, SequencesExt, FiniteSetsExt

CONSTANTS
    Texts,        \* the texts of callers and files, and what is cut from them
    Sections,     \* texts callers pass as section names
    Keys,         \* texts callers pass as keys
    Values,       \* texts callers pass as values
    Size(_),      \* the number of characters of a text
    MaxString,    \* MAX_STRING_LEN
    MaxPair,      \* the characters of key and value a line of fgets has room for
    Taken(_),     \* what the first fgets takes of a value that has no room,
    Rest(_),      \* and the line it leaves to the next one
    Cut(_),       \* a text without its last character
    Garbage,      \* what the allocator leaves in the name of a freed node
    InitialFiles, \* the files a run may start from
    MaxOps,       \* bound: operations on the file
    MaxFaults     \* bound: crashes and failed system calls

ASSUME BoundsAssumption == MaxOps \in Nat /\ MaxFaults \in Nat
ASSUME LengthAssumption ==
    MaxString \in Nat \ {0} /\ MaxPair \in Nat /\ \A t \in Texts : Size(t) \in Nat
ASSUME TextsAssumption ==
    /\ Sections \cup Keys \cup Values \cup {Garbage, ""} \subseteq Texts
    /\ \A t \in Texts : Cut(t) \in Texts /\ Taken(t) \in Texts
ASSUME CutAssumption ==
    /\ Size("") = 0
    /\ \A t \in Texts : Size(Cut(t)) <= Size(t) /\ Size(Taken(t)) <= Size(t)
(* The allocator writes its pointers over the name.                          *)
ASSUME GarbageAssumption == Garbage \notin Sections

VARIABLES
    disk,    \* the file: its lines, and whether the last one lacks its newline
    nodes,   \* the list of nodes of INI_FILE, first to last
    freed,   \* the only node has been freed and is still linked
    pc,      \* "closed", "idle" (between calls), "open" or "write" (updateIniFile)
    out,     \* lines of this update that are in the file
    ret,     \* what the last finished operation returned
    wret,    \* what its updateIniFile returned (no caller looks)
    op,      \* the last operation and its arguments
    ops,     \* number of operations begun
    faults   \* number of faults so far

vars == <<disk, nodes, freed, pc, out, ret, wret, op, ops, faults>>

-----------------------------------------------------------------------------
(* Return codes: LineType of inifile.h, and the codes of the operations.    *)
WRITEERROR    == -4
REPEATNODEKEY == -3
OPENFILEERROR == -2
TOOLONG       == -1

(* Not a code: a copy of negative length, which kills the process.          *)
DIES          == -6

(* A stored string and the string a caller passes.                          *)
Str(t, tail) == [text |-> t, tail |-> tail]
Exact(t)     == Str(t, "none")

Pair(name, v, nl) == [note |-> FALSE, name |-> name, value |-> v, nl |-> nl]
Note(name)        == [note |-> TRUE, name |-> name, value |-> "", nl |-> FALSE]
Node(note, name)  == [note |-> note, name |-> name, pairs |-> <<>>]

Strings == [text : Texts, tail : {"none", "blank", "blanks", "nl"}]

Pairs == [note : BOOLEAN, name : Strings, value : Texts, nl : BOOLEAN]

Nodes == [note : BOOLEAN, name : Strings, pairs : Seq(Pairs)]

(* A line of a file, and a file: "bare" says that its last line has no       *)
(* newline.                                                                  *)
Line(kind, name, value) == [kind |-> kind, name |-> name, value |-> value]

Lines ==
    [kind : {"head", "note", "pair", "junk"},
     name : [text : Texts, tail : {"none", "blank", "blanks"}], value : Texts]

Files == {f \in [lines : Seq(Lines), bare : BOOLEAN] : f.lines = <<>> => ~f.bare}

(* Keys and values of a file are no longer than the arrays of a node, and    *)
(* what fgets leaves of a line fits the next call.                           *)
ASSUME FilesAssumption ==
    /\ \A f \in InitialFiles :
          /\ f \in Files
          /\ \A i \in DOMAIN f.lines : f.lines[i].kind = "pair" =>
                Size(f.lines[i].name.text) <= MaxString /\ Size(f.lines[i].value) <= MaxString
    /\ \A t \in Texts : Rest(t) \in Lines

-----------------------------------------------------------------------------
(* The list operations *)

(* A stored string answers to a name when it is the name followed by        *)
(* nothing but blanks; the stored copy of a note ends with its newline.     *)
Answers(stored, name) ==
    /\ stored.text = name.text
    /\ \/ stored.tail = name.tail
       \/ name.tail = "none" /\ stored.tail \in {"blank", "blanks"}
       \/ name.tail = "blank" /\ stored.tail = "blanks"

First(S) == IF S = {} THEN 0 ELSE Min(S)

(* Neither search looks at isNote. *)
findIniKeyValue(node, key) ==
    First({j \in DOMAIN node.pairs : Answers(node.pairs[j].name, key)})

findIniFileNode(ns, section) ==
    First({i \in DOMAIN ns : Answers(ns[i].name, section)})

listIniFileNode_insert(ns, node) == Append(ns, node)

listkeyValueNode_insert(ns, i, pair) == [ns EXCEPT ![i].pairs = Append(@, pair)]

(* Mutant: the pair behind the deleted one is not linked to the one before.  *)
listkeyValueNode_deleteRest(ns, i, j) == [ns EXCEPT ![i].pairs = SubSeq(@, 1, j - 1)]

listkeyValueNode_delete(ns, i, j) == [ns EXCEPT ![i].pairs = RemoveAt(@, j)]

listIniFileNode_delete(ns, i) == RemoveAt(ns, i)

-----------------------------------------------------------------------------
(* Reading.  "bare" says that the line has no newline: it is the last one,   *)
(* or fgets stopped inside it.  The ends of the name and of the value are    *)
(* found by counting back from the end of the line, newline included, so a   *)
(* bare line loses a character, and one without enough of them kills the     *)
(* process (copyBeginEnd).                                                   *)

CutStr(s) == CASE s.tail = "blanks" -> Str(s.text, "blank")
               [] s.tail = "blank"  -> Exact(s.text)
               [] OTHER             -> Exact(Cut(s.text))

Result(r, ns) == [ret |-> r, nodes |-> ns]

Newline(bare) == IF bare THEN 0 ELSE 1
Trailing(tail) == CASE tail = "blank" -> 1 [] tail = "blanks" -> 2 [] OTHER -> 0

(* More than MAX_STRING_LEN + 2 characters with the two brackets.            *)
HeaderTooLong(name, bare) == Size(name.text) + Trailing(name.tail) + Newline(bare) > MaxString

initLineNode(ns, line, bare) ==
    LET name == IF bare THEN CutStr(line.name) ELSE line.name
    IN  IF HeaderTooLong(line.name, bare) THEN Result(TOOLONG, ns)
        ELSE IF bare /\ line.name = Exact("") THEN Result(DIES, ns)
        ELSE IF findIniFileNode(ns, name) # 0 THEN Result(REPEATNODEKEY, ns)
        ELSE Result(0, listIniFileNode_insert(ns, Node(FALSE, name)))

(* More than MAX_STRING_LEN characters with the semicolon.                   *)
NoteTooLong(text, bare) == 1 + Size(text) + Newline(bare) > MaxString

(* A note is a node of its own at the beginning of the file and after such   *)
(* a node, and an entry of the last section otherwise.                       *)
initLineNotes(ns, line, bare) ==
    LET name == Str(line.name.text, IF bare THEN "none" ELSE "nl")
    IN  IF ns = <<>> \/ Last(ns).note
        THEN listIniFileNode_insert(ns, Node(TRUE, name))
        ELSE listkeyValueNode_insert(ns, Len(ns), Note(name))

(* A pair in front of the first section is ignored. *)
initLineKeyValue(ns, line, bare) ==
    LET value == IF bare THEN Cut(line.value) ELSE line.value
    IN  IF ns = <<>> \/ Last(ns).note THEN Result(0, ns)
        ELSE IF findIniKeyValue(Last(ns), line.name) # 0 THEN Result(REPEATNODEKEY, ns)
        ELSE IF bare /\ line.value = "" THEN Result(DIES, ns)
        ELSE Result(0, listkeyValueNode_insert(ns, Len(ns), Pair(line.name, value, FALSE)))

(* Lines that are none of the three are dropped.  A pair is never too long:  *)
(* fgets has split it before.                                                *)
initLineContext(ns, line, bare) ==
    CASE line.kind = "head" -> initLineNode(ns, line, bare)
      [] line.kind = "note" -> IF NoteTooLong(line.name.text, bare) THEN Result(TOOLONG, ns)
                               ELSE Result(0, initLineNotes(ns, line, bare))
      [] line.kind = "pair" -> initLineKeyValue(ns, line, bare)
      [] line.kind = "junk" -> Result(0, ns)

(* A pair that fgets gives in two parts: a line without its newline, and     *)
(* whatever line the rest is.                                                *)
Split(line) == line.kind = "pair" /\ Size(line.name.text) + Size(line.value) > MaxPair

(* The first line that is refused ends the reading. *)
Continue(acc, line, bare) ==
    IF acc.ret < 0 THEN acc ELSE initLineContext(acc.nodes, line, bare)

ReadLine(acc, line, bare) ==
    IF Split(line)
    THEN Continue(Continue(acc, [line EXCEPT !.value = Taken(line.value)], TRUE), Rest(line.value), bare)
    ELSE Continue(acc, line, bare)

(* What has been read after each line of a file.                             *)
Reading(file) ==
    LET n == Len(file.lines)
        read[i \in 0 .. n] ==
            IF i = 0 THEN Result(0, <<>>)
            ELSE ReadLine(read[i - 1], file.lines[i], file.bare /\ i = n)
    IN  read

readIniFile(file) == Reading(file)[Len(file.lines)]

-----------------------------------------------------------------------------
(* Writing.  A note is written behind its semicolon; the newline that a      *)
(* stored note, or a value set by an operation, carries becomes an empty     *)
(* line.                                                                     *)

NoteLine(x) == Line("note", Exact(x.name.text), "")

NodeLine(n) == IF n.note THEN NoteLine(n) ELSE Line("head", n.name, "")

PairLine(p) == IF p.note THEN NoteLine(p) ELSE Line("pair", p.name, p.value)

NodeLines(n) == <<NodeLine(n)>> \o [j \in DOMAIN n.pairs |-> PairLine(n.pairs[j])]

Image(ns) == FlattenSeq([i \in DOMAIN ns |-> NodeLines(ns[i])])

-----------------------------------------------------------------------------
Init ==
    /\ disk \in InitialFiles
    /\ nodes = <<>>
    /\ freed = FALSE
    /\ pc = "closed"
    /\ out = 0
    /\ ret = 0
    /\ wret = 0
    /\ op = [name |-> "none"]
    /\ ops = 0
    /\ faults = 0

(* NULL when a line is refused: what was read is lost. *)
initIniFile ==
    /\ pc = "closed"
    /\ LET r == readIniFile(disk) IN
         IF r.ret < 0 THEN UNCHANGED <<nodes, pc>>
                      ELSE nodes' = r.nodes /\ pc' = "idle"
    /\ ret' = 0 /\ wret' = 0
    /\ op' = [name |-> "init"]
    /\ UNCHANGED <<disk, freed, out, ops, faults>>

(* The lengths of the arguments are checked, nothing else.  For a section    *)
(* the key is looked at too, through its pointer: a caller that leaves it    *)
(* NULL dies there, with nothing changed (as in exitOperationIniFile).       *)
ini_parameter_check(texts) == \A t \in texts : Size(t) \in 1 .. MaxString

(* Every operation is a call with a return code; one that returns 0 leaves   *)
(* the new list and goes on to updateIniFile, the others change nothing.     *)
Refuse(code) ==
    /\ ret' = code
    /\ UNCHANGED <<nodes, freed, pc, out, wret>>

(* Mutant: the list is changed and the file is not written.                  *)
AcceptUnwritten(ns) ==
    /\ ret' = 0
    /\ nodes' = ns
    /\ wret' = 0
    /\ UNCHANGED <<freed, pc, out>>

Accept(ns) ==
    /\ ret' = 0
    /\ nodes' = ns
    /\ pc' = "open" /\ wret' = 0
    /\ UNCHANGED <<freed, out>>

Operation(record) ==
    /\ pc = "idle" /\ ~freed /\ ops < MaxOps
    /\ op' = record
    /\ ops' = ops + 1
    /\ UNCHANGED <<disk, faults>>

updateValueOfKey(s, k, v) ==
    LET p == findIniFileNode(nodes, Exact(s))
        q == findIniKeyValue(nodes[p], Exact(k))
    IN  /\ Operation([name |-> "update", section |-> s, key |-> k, value |-> v])
        /\ IF ~ini_parameter_check({s, k, v}) THEN Refuse(-1)
           ELSE IF p = 0 THEN Refuse(-2)
           ELSE IF q = 0 THEN Refuse(-3)
           ELSE Accept([nodes EXCEPT ![p].pairs[q].value = v, ![p].pairs[q].nl = TRUE])

addValueOfKey(s, k, v) ==
    LET p == findIniFileNode(nodes, Exact(s))
        q == findIniKeyValue(nodes[p], Exact(k))
    IN  /\ Operation([name |-> "add", section |-> s, key |-> k, value |-> v])
        /\ IF ~ini_parameter_check({s, k, v}) THEN Refuse(-1)
           ELSE IF p = 0 THEN Refuse(-2)
           ELSE IF q # 0 THEN Refuse(-3)
           ELSE Accept(listkeyValueNode_insert(nodes, p, Pair(Str(k, "blank"), v, TRUE)))

deleteValueOfKey(s, k) ==
    LET p == findIniFileNode(nodes, Exact(s))
        q == findIniKeyValue(nodes[p], Exact(k))
    IN  /\ Operation([name |-> "delete", section |-> s, key |-> k])
        /\ IF ~ini_parameter_check({s, k}) THEN Refuse(-1)
           ELSE IF p = 0 THEN Refuse(-2)
           ELSE IF q = 0 THEN Refuse(-3)
           ELSE Accept(listkeyValueNode_delete(nodes, p, q))

(* Mutant: a section that is there already is not refused.                   *)
addSetctionAgain(s) ==
    /\ Operation([name |-> "addSection", section |-> s])
    /\ IF ~ini_parameter_check({s}) THEN Refuse(-1)
       ELSE Accept(listIniFileNode_insert(nodes, Node(FALSE, Exact(s))))

addSetction(s) ==
    LET p == findIniFileNode(nodes, Exact(s))
    IN  /\ Operation([name |-> "addSection", section |-> s])
        /\ IF ~ini_parameter_check({s}) THEN Refuse(-1)
           ELSE IF p # 0 THEN Refuse(-2)
           ELSE Accept(listIniFileNode_insert(nodes, Node(FALSE, Exact(s))))

(* listIniFileNode_delete frees the only node of a list and leaves the list  *)
(* as it is: head still points to the freed node, whose entries are not      *)
(* freed and whose name the allocator may have overwritten.  updateIniFile   *)
(* then writes the file from it.                                             *)
FreeOnlyNode ==
    \E left \in {nodes[1].name, Exact(Garbage)} :
        /\ nodes' = [nodes EXCEPT ![1].name = left]
        /\ freed' = TRUE
        /\ ret' = 0
        /\ pc' = "open" /\ wret' = 0
        /\ UNCHANGED out

deleteSection(s) ==
    LET p == findIniFileNode(nodes, Exact(s))
    IN  /\ Operation([name |-> "deleteSection", section |-> s])
        /\ IF ~ini_parameter_check({s}) THEN Refuse(-1)
           ELSE IF p = 0 THEN Refuse(-2)
           ELSE IF Len(nodes) = 1 THEN FreeOnlyNode
           ELSE Accept(listIniFileNode_delete(nodes, p))

(* getValueOfKey changes nothing: its answer, or "" for NULL.                *)
getValueOfKey(ns, s, k) ==
    LET p == findIniFileNode(ns, Exact(s))
        q == findIniKeyValue(ns[p], Exact(k))
    IN  IF p = 0 THEN "" ELSE IF q = 0 THEN "" ELSE ns[p].pairs[q].value

-----------------------------------------------------------------------------
(* updateIniFile: the truncation, then a write for every line.               *)

(* Mutant: the file is opened without O_TRUNC, and the lines go behind the   *)
(* old ones.                                                                 *)
OpenAppend ==
    /\ pc = "open"
    /\ pc' = "write"
    /\ UNCHANGED <<disk, nodes, freed, out, ret, wret, op, ops, faults>>

Truncate ==
    /\ pc = "open"
    /\ disk' = [lines |-> <<>>, bare |-> FALSE]
    /\ pc' = "write"
    /\ UNCHANGED <<nodes, freed, out, ret, wret, op, ops, faults>>

WriteLine ==
    /\ pc = "write" /\ out < Len(Image(nodes))
    /\ disk' = [disk EXCEPT !.lines = Append(@, Image(nodes)[out + 1])]
    /\ out' = out + 1
    /\ UNCHANGED <<nodes, freed, pc, ret, wret, op, ops, faults>>

CloseFile ==
    /\ pc = "write" /\ out = Len(Image(nodes))
    /\ pc' = "idle" /\ out' = 0
    /\ UNCHANGED <<disk, nodes, freed, ret, wret, op, ops, faults>>

(* The file cannot be opened: it is not truncated, and the operation has     *)
(* changed the list alone.                                                   *)
OpenFails ==
    /\ pc = "open" /\ faults < MaxFaults
    /\ faults' = faults + 1
    /\ wret' = OPENFILEERROR
    /\ pc' = "idle"
    /\ UNCHANGED <<disk, nodes, freed, out, ret, op, ops>>

(* What a write that does not complete leaves of its line, up to the last    *)
(* character but the newline: of a header at least the bracket, of a pair    *)
(* perhaps not the equals sign.                                              *)
Fragments(line) ==
    CASE line.kind = "head" -> {line, [line EXCEPT !.name = CutStr(@)], [line EXCEPT !.name = Exact("")]}
      [] line.kind = "note" -> {line, [line EXCEPT !.name = CutStr(@)]}
      [] OTHER -> {line, [line EXCEPT !.value = Cut(@)], [line EXCEPT !.kind = "junk"]}

Torn ==
    \/ UNCHANGED disk
    \/ \E line \in Fragments(Image(nodes)[out + 1]) :
          disk' = [lines |-> Append(disk.lines, line), bare |-> TRUE]

(* A write fails: the loop returns at once, with the rest unwritten.         *)
WriteFails ==
    /\ pc = "write" /\ out < Len(Image(nodes)) /\ faults < MaxFaults
    /\ Torn
    /\ faults' = faults + 1
    /\ wret' = WRITEERROR
    /\ pc' = "idle" /\ out' = 0
    /\ UNCHANGED <<nodes, freed, ret, op, ops>>

(* Mutant: the end of a session does not forget the freed node.              *)
ClosedDangling ==
    /\ nodes' = <<>>
    /\ pc' = "closed" /\ out' = 0
    /\ UNCHANGED <<freed, ret, wret, op, ops>>

(* exitOperationIniFile; with the freed node still linked it frees it twice. *)
(* The death of the process between two calls is no different.               *)
Closed ==
    /\ nodes' = <<>> /\ freed' = FALSE
    /\ pc' = "closed" /\ out' = 0
    /\ UNCHANGED <<ret, wret, op, ops>>

exitOperationIniFile ==
    /\ pc = "idle"
    /\ Closed
    /\ UNCHANGED <<disk, faults>>

(* The process dies in the middle of an update. *)
Crash ==
    /\ pc \in {"open", "write"} /\ faults < MaxFaults
    /\ IF pc = "write" /\ out < Len(Image(nodes)) THEN Torn ELSE UNCHANGED disk
    /\ faults' = faults + 1
    /\ Closed

updateIniFile == Truncate \/ WriteLine \/ CloseFile \/ OpenFails \/ WriteFails

Call ==
    \/ \E s \in Sections, k \in Keys, v \in Values :
           updateValueOfKey(s, k, v) \/ addValueOfKey(s, k, v)
    \/ \E s \in Sections, k \in Keys : deleteValueOfKey(s, k)
    \/ \E s \in Sections : addSetction(s) \/ deleteSection(s)

Next == initIniFile \/ Call \/ updateIniFile \/ exitOperationIniFile \/ Crash

Spec == Init /\ [][Next]_vars

-----------------------------------------------------------------------------
(* Properties *)

(* Type invariant: the shape of the file, of the list and of the control.    *)
TypeOK ==
    /\ disk \in Files
    /\ nodes \in Seq(Nodes)
    /\ freed \in BOOLEAN /\ (freed => Len(nodes) = 1)
    /\ pc \in {"closed", "idle", "open", "write"}
    /\ out \in 0 .. (IF pc = "write" THEN Len(Image(nodes)) ELSE 0)
    /\ ret \in -3 .. 0 /\ wret \in {0, OPENFILEERROR, WRITEERROR}
    /\ ops \in 0 .. MaxOps /\ faults \in 0 .. MaxFaults

(* What of a list a file can carry: the newline behind a value is not read   *)
(* back.                                                                     *)
Carried(ns) ==
    [i \in DOMAIN ns |->
        [ns[i] EXCEPT !.pairs = [j \in DOMAIN @ |-> [@[j] EXCEPT !.nl = FALSE]]]]

(* A note read from a last line without a newline has no newline stored, and *)
(* then answers to its text like a section or a key.                         *)
BareNote(ns) ==
    \E i \in DOMAIN ns :
        \/ ns[i].note /\ ns[i].name.tail = "none"
        \/ \E j \in DOMAIN ns[i].pairs : ns[i].pairs[j].note /\ ns[i].pairs[j].name.tail = "none"

(* The file was written by hand with a key twice, the second time with more  *)
(* blanks behind it, which initLineKeyValue admits: a second entry answers   *)
(* to the key.                                                               *)
SecondOf(ns, s, k) ==
    LET p == findIniFileNode(ns, Exact(s)) IN
    p # 0 /\ \E j \in DOMAIN ns[p].pairs :
                /\ ns[p].pairs[j].name \in {Str(k, "blank"), Str(k, "blanks")}
                /\ ~ns[p].pairs[j].nl

(* And so may a section: "[s]" and then "[s ]".                              *)
SecondSection(ns, s) == \E i \in DOMAIN ns : ns[i].name \in {Str(s, "blank"), Str(s, "blanks")}

(* The lines readIniFile takes in one piece and does not find too long with  *)
(* their newline.  The library itself writes others: ini_parameter_check     *)
(* admits a section name of MAX_STRING_LEN characters, whose header is       *)
(* refused, and a key and a value whose line fgets splits (updateIniFile's   *)
(* buffer is then one byte short, too); a note that was accepted as the bare *)
(* last line may be too long with the newline it is given.                   *)
Fits(lines) ==
    \A i \in DOMAIN lines :
        /\ lines[i].kind = "head" => ~HeaderTooLong(lines[i].name, FALSE)
        /\ lines[i].kind = "note" => ~NoteTooLong(lines[i].name.text, FALSE)
        /\ ~Split(lines[i])

(* Between calls, after an update that completed (and whatever failed        *)
(* before it), opening the file again gives the list in memory: what         *)
(* updateIniFile writes is what readIniFile reads, order, notes and the      *)
(* asymmetric treatment of blanks included, as long as its lines fit.        *)
ReopenAgrees ==
    (pc = "idle" /\ wret = 0 /\ ~freed /\ ~BareNote(nodes) /\ Fits(disk.lines)) =>
        readIniFile(disk) = Result(0, Carried(nodes))

(* An operation that returned 0, and whose update was written in lines that  *)
(* fit, is in the file as a later initIniFile reads it: the value is there,  *)
(* the key or the section is gone or is there.                               *)
SuccessIsInFile ==
    LET there == readIniFile(disk).nodes
        Has(s) == findIniFileNode(there, Exact(s)) # 0
    IN  (pc = "idle" /\ ret = 0 /\ wret = 0 /\ ~freed /\ ~BareNote(nodes) /\ Fits(disk.lines)) =>
        CASE op.name \in {"update", "add"} -> getValueOfKey(there, op.section, op.key) = op.value
          [] op.name = "delete"        -> \/ getValueOfKey(there, op.section, op.key) = ""
                                          \/ SecondOf(nodes, op.section, op.key)
          [] op.name = "addSection"    -> Has(op.section)
          [] op.name = "deleteSection" -> ~Has(op.section) \/ SecondSection(nodes, op.section)
          [] OTHER                     -> TRUE

(* Wherever an update stops, by a failed call or by the death of the         *)
(* process, the complete lines it has left are a file that can be opened, if *)
(* they fit: no prefix of an image is refused for a repeated section or key. *)
(* The cut last line is not covered; it may kill the next initIniFile.       *)
AnyPrefixOpens ==
    LET whole == IF disk.bare THEN Front(disk.lines) ELSE disk.lines
    IN  (disk \notin InitialFiles /\ Fits(whole)) =>
            readIniFile([lines |-> whole, bare |-> FALSE]).ret = 0

(* An operation leaves every other key of every other section as it was: the *)
(* value getValueOfKey gives for it does not change.                         *)
OnlyTheTarget ==
    [][(pc = "idle" /\ pc' = "open") =>
        \A s \in Sections, k \in Keys :
            (s # op'.section \/ (op'.name \in {"update", "add", "delete"} /\ k # op'.key)) =>
                getValueOfKey(nodes', s, k) = getValueOfKey(nodes, s, k)]_vars

(* The comments of inifile.h admit strings of up to MAX_STRING_LEN           *)
(* characters, and ini_parameter_check accepts them: whatever list the       *)
(* library holds, the file it writes from it can be opened again.  It is not *)
(* an invariant: Fits says which lines the library writes and then refuses.  *)
ReloadsOwnFile ==
    (pc = "idle" /\ wret = 0) => readIniFile(disk).ret = 0
=============================================================================
