---------------------------- MODULE MCFsRakazo -----------------------------
(* The calls are interchangeable; the two computers are not. *)
EXTENDS FsRakazo, TLC

CallSymmetry == Permutations(Calls)
=============================================================================
