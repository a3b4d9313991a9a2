----------------------------- MODULE MCWorkspace -----------------------------
(* Names with a backslash: at the beginning and within, and after two dots.   *)
EXTENDS Workspace

MCBackslashed == {"\\a\\..c", "..\\a"}

MCSlashed ==
  [name \in MCBackslashed |-> IF name = "..\\a" THEN <<"..", "a">> ELSE <<"", "a", "..c">>]
=============================================================================
