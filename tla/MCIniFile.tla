----------------------------- MODULE MCIniFile -----------------------------
(***************************************************************************)
(* Small instances of IniFile: files with notes, blank lines, values with  *)
(* a comment behind them, and files init_ini_file refuses.                 *)
(***************************************************************************)
EXTENDS IniFile

CONSTANTS s1, s2, k1, k2, v1, v2

Commented(k, v) == [Pair(k, v) EXCEPT !.note = TRUE]

(* Two sections, as in the conf file of main(), and one with nothing.      *)
FullFile == <<Plain("note"), Header(s1), Commented(k1, v1), Plain("blank"),
              Header(s2), Plain("note"), Pair(k1, v2), Pair(k2, v1)>>
EmptyFile == <<>>

(* Refused: a key before any section, the same section or key twice.       *)
Headless == <<Pair(k1, v1), Header(s1)>>
TwiceSection == <<Header(s1), Header(s1)>>
TwiceKey == <<Header(s1), Pair(k1, v1), Plain("blank"), Pair(k1, v2)>>

(* The last line is a header without a newline.                            *)
BareFile == <<Header(s1), Pair(k1, v1), [Header(s2) EXCEPT !.type = "bare"]>>

MCPlainFiles == {FullFile, EmptyFile, Headless, TwiceSection, TwiceKey}
MCFiles == MCPlainFiles \cup {BareFile}
=============================================================================
