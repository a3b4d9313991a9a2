--------------------------- MODULE MCRakazoPlugin ---------------------------
(* A Lead whose agent has no session object, and a teammate whose lineage only
   the session store knows. *)
EXTENDS RakazoPlugin, TLC

CONSTANTS lead, mate

MCSessions == {lead, mate}
MCBots     == MCSessions \cup {Account}
MCParent   == [s \in MCSessions |-> IF s = mate THEN lead ELSE None]
MCBare     == {lead}
MCLate     == {mate}

Row(share, keep, account) == [share |-> share, keep |-> keep, account |-> account]
SharedKeptAccount == {Row(TRUE, FALSE, FALSE), Row(FALSE, TRUE, FALSE), Row(FALSE, FALSE, TRUE)}
OnlyAccount == {Row(FALSE, FALSE, TRUE)}
CallSymmetry == Permutations(Calls)

DefaultRow == {Row(FALSE, FALSE, FALSE)}
=============================================================================
