------------------------------ MODULE MCHarness ------------------------------
(* A Lead whose agent has no session object, and a teammate whose agent carries
   its header and whose native call comes with its session's policy. *)
EXTENDS Harness, TLC

CONSTANTS lead, mate

MCSessions == {lead, mate}
MCBots     == MCSessions \cup {Account, DefaultScope}
MCParent   == lead :> None @@ mate :> lead
MCInline   == {mate}
MCBare     == {lead}

Shared == [share |-> TRUE, keep |-> FALSE, account |-> FALSE]

Anywhere == {Shared}

TeamCallers == {[by |-> mate, policy |-> TRUE], [by |-> None, policy |-> FALSE]}

CallSymmetry == Permutations(ToolCalls) \cup Permutations(NativeCalls)
=============================================================================
