------------------------------ MODULE MCIniV1 ------------------------------
(* Small instances of IniV1: the texts, the last character cut from them,    *)
(* and the files a run starts from.                                          *)
EXTENDS IniV1

Sizes == [s |-> 1, s1 |-> 2, s2 |-> 3, s3 |-> 5, s4 |-> 4, k |-> 1, k1 |-> 2, k2 |-> 3,
          v |-> 1, v1 |-> 2, v2 |-> 3, g |-> 1]

MCSize(t) == IF t = "" THEN 0 ELSE Sizes[t]

Shorter == [s |-> "", s1 |-> "s", s2 |-> "s1", s3 |-> "s4", s4 |-> "s2", k |-> "", k1 |-> "k",
            k2 |-> "k1", v |-> "", v1 |-> "v", v2 |-> "v1", g |-> ""]

MCCut(t) == IF t = "" THEN t ELSE Shorter[t]

(* The only pair that is split is k2 with v2: fgets takes the line without   *)
(* its newline and the end of v2, which has an equals sign.                  *)
MCTaken(t) == MCCut(t)
MCRest(t) == Line("pair", Exact("k1"), "v")

Header(s)      == Line("head", Exact(s), "")
Key(k, v)    == Line("pair", Exact(k), v)
Spaced(k, v) == Line("pair", Str(k, "blank"), v)
Comment(t)   == Line("note", Exact(t), "")
Junk         == Line("junk", Exact(""), "")

File(lines, bare) == [lines |-> lines, bare |-> bare]

(* A hand-written file with notes in all places and a stray pair and line;   *)
(* one whose last line has no newline; one with two sections and a key       *)
(* written three times, with ever more blanks; one with a section twice in   *)
(* that way; notes alone, the last one bare and as long as a note may then   *)
(* be; one with a pair that is split; one that is refused.                   *)
MCInitialFiles ==
    { File(<<Key("k1", "v2"), Comment("k1"), Header("s1"), Key("k1", "v1"),
             Comment("k1"), Junk>>, FALSE),
      File(<<Header("s1"), Key("k1", "v1")>>, TRUE),
      File(<<Header("s1"), Key("k1", "v1"), Spaced("k1", "v2"),
             Line("pair", Str("k1", "blanks"), "v1"), Header("s2")>>, FALSE),
      File(<<Header("s1"), Line("head", Str("s1", "blank"), ""), Key("k1", "v1"),
             Comment("k1")>>, TRUE),
      File(<<Comment("s1"), Comment("s2")>>, TRUE),
      File(<<Header("s1"), Key("k2", "v2")>>, FALSE),
      File(<<Header("s1"), Spaced("k1", "v1"), Key("k1", "v2")>>, FALSE) }
============================================================================
