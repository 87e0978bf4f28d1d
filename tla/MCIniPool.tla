----------------------------- MODULE MCIniPool -----------------------------
(***************************************************************************)
(* Small instances of IniPool: strings of one to three characters.         *)
(***************************************************************************)
EXTENDS IniPool

MCStrings == {<<1>>, <<1, 2>>, <<2, 1, 2>>}

(* Only short and long ones, for runs with more operations.                *)
MCFewStrings == {<<1>>, <<2, 1, 2>>}
=============================================================================
