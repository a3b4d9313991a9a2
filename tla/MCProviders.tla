---------------------------- MODULE MCProviders -----------------------------
(* Three sessions, under the lineages that differ: a Team of two levels, a  *)
(* chain of three and a cycle.                                              *)
EXTENDS Providers, TLC

CONSTANTS lead, mate, helper

MCSessions == {lead, mate, helper}
MCBots     == MCSessions \cup {Account, DefaultScope}

Team  == lead :> None @@ mate :> lead @@ helper :> None
Chain == lead :> None @@ mate :> lead @@ helper :> mate
Cycle == lead :> mate @@ mate :> lead @@ helper :> mate

EveryLineage == {Team, Chain, Cycle}
TeamOnly     == {Team}

AnyCaller == [by: MCSessions, policy: BOOLEAN] \cup [by: {None}, policy: {FALSE}]

Shared  == [share |-> TRUE, keep |-> FALSE, account |-> FALSE]
=============================================================================
