------------------------------- MODULE Scope --------------------------------
(***************************************************************************)
(* Which computer a session works on.  The plugin and the seam providers   *)
(* each have a function from a session to the scope its computer is named  *)
(* after, over the same lineage: parent[s] is the parentSession in s's     *)
(* header, known inline from the agent (inline) or from the session store  *)
(* (stored).                                                               *)
(***************************************************************************)
EXTENDS Naturals, FiniteSetsExt

CONSTANTS
  Sessions,
  Account,   \* the scope an account deployment names
  MaxHops,   \* the longest lineage scopeKeyFor walks: 32
  None

ASSUME ScopeAssumption ==
  /\ Account \notin Sessions
  /\ None \notin Sessions \cup {Account}
  /\ MaxHops \in Nat \ {0}

Configs == [share: BOOLEAN, keep: BOOLEAN, account: BOOLEAN]

KnownParent(s, parent, known) == IF s \in known THEN parent[s] ELSE None

-----------------------------------------------------------------------------
(* plugin/index.js *)

\* Mutant: the parent in the store is never asked for.
ScopeKeyOfInline(s, config, parent, inline, stored) ==
  CASE config.account -> Account
    [] ~config.account /\ ~config.share -> s
    [] OTHER -> IF KnownParent(s, parent, inline) = None THEN s ELSE parent[s]

ScopeKeyOf(s, config, parent, inline, stored) ==
  CASE config.account -> Account
    [] ~config.account /\ ~config.share -> s
    [] OTHER -> IF KnownParent(s, parent, inline \cup stored) = None THEN s ELSE parent[s]

\* Mutant: only the agent's own header is asked.
IsPrincipalInline(s, parent, inline, stored) == KnownParent(s, parent, inline) = None

IsPrincipal(s, parent, inline, stored) == KnownParent(s, parent, inline \cup stored) = None

-----------------------------------------------------------------------------
(* providers/bridge.js *)

\* One hop: a session without a known parent stays itself.
Hop(t, parent, stored) ==
  IF KnownParent(t, parent, stored) = None THEN t ELSE parent[t]

\* The session after n hops.
Ancestor(s, parent, stored) ==
  LET up[n \in 0..MaxHops] == IF n = 0 THEN s ELSE Hop(up[n - 1], parent, stored)
  IN up

\* Mutant: the parent only, never the parent's parent.
ScopeKeyForOneHop(s, parent, stored) == Ancestor(s, parent, stored)[1]

\* The first session met twice, or the last one when the hops run out: an
\* outermost ancestor is met twice at once, a cycle where it closes.
ScopeKeyFor(s, parent, stored) ==
  LET up == Ancestor(s, parent, stored)
      again == {n \in 1..MaxHops : \E m \in 0..(n - 1) : up[m] = up[n]}
  IN up[Min(again \cup {MaxHops})]
-----------------------------------------------------------------------------
\* The reference: a session and all its ancestors, the least set that has with
\* every session its parent.
Reachable(s, parent) ==
  {t \in Sessions :
     \A S \in SUBSET Sessions :
       s \in S /\ (\A u \in S : parent[u] # None => parent[u] \in S) => t \in S}
=============================================================================
