------------------------ MODULE MCComputerControl ------------------------
(***************************************************************************)
(* The bridge on a small instance.  Requests, containers and bots are      *)
(* interchangeable, so safety runs may use Symmetry; liveness runs do not. *)
(***************************************************************************)
EXTENDS ComputerControl, TLC

Symmetry == Permutations(Requests) \cup Permutations(Computers) \cup Permutations(Bots)
=============================================================================
