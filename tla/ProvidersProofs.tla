--------------------------- MODULE ProvidersProofs ---------------------------
(***************************************************************************)
(* Of all the calls for one bot identity only one creates its computer,    *)
(* and the scope of a call is where its session's lineage ends, for every  *)
(* set of sessions, lineages, callers and calls.                           *)
(*                                                                         *)
(* Ancestor, the walk along a lineage, is a recursive function.  The       *)
(* library's induction theorems take an operator that the provers cannot   *)
(* instantiate, so the inductions here are over sets: the naturals below a *)
(* bound that fail to have a property would have a least element.          *)
(***************************************************************************)
EXTENDS Providers, FiniteSetTheorems, WellFoundedInduction, TLAPS

-----------------------------------------------------------------------------
(* What the walk computes, for every lineage and every bound on its hops.   *)

\* A set of natural numbers has a least element.
LEMMA LeastElement ==
  ASSUME NEW T, T \subseteq Nat, T # {}
  PROVE  \E m \in T : \A k \in T : ~(k < m)
<1> DEFINE R == {ss \in Nat \X Nat : ss[1] < ss[2]}
<1>1. IsWellFoundedOn(R, Nat)
  BY NatLessThanWellFounded DEF OpToRel
<1>2. PICK m \in T : \A k \in T : ~(<<k, m>> \in R)
  BY <1>1, WFMin
<1>3. ASSUME NEW k \in T PROVE ~(k < m)
  <2>1. k \in Nat /\ m \in Nat
    OBVIOUS
  <2>2. <<k, m>> \notin R
    BY <1>2
  <2> QED
    BY <2>1, <2>2
<1> QED
  BY <1>3

\* A parent in the store is a session.
LEMMA HopStays ==
  ASSUME NEW parent \in [Sessions -> Sessions \cup {None}], NEW stored,
         NEW t \in Sessions
  PROVE  Hop(t, parent, stored) \in Sessions
BY DEF Hop, KnownParent

\* There is a function that satisfies Ancestor's recursion, so Ancestor does.
LEMMA AncestorDef ==
  ASSUME NEW s, NEW parent, NEW stored
  PROVE  Ancestor(s, parent, stored) =
           [n \in 0..MaxHops |-> IF n = 0 THEN s
                                 ELSE Hop(Ancestor(s, parent, stored)[n-1], parent, stored)]
<1> DEFINE Walks(n, f) == \A k \in 0..n :
                   f[k] = IF k = 0 THEN s ELSE Hop(f[k-1], parent, stored)
           T == {n \in Nat : ~\E f : Walks(n, f)}
<1>1. T = {}
  <2> SUFFICES ASSUME T # {} PROVE FALSE
    OBVIOUS
  <2>1. PICK m \in T : \A k \in T : ~(k < m)
    BY LeastElement
  <2>2. m \in Nat
    OBVIOUS
  <2>3. CASE m = 0
    <3>1. Walks(0, [k \in 0..0 |-> s])
      OBVIOUS
    <3> QED
      BY <2>3, <3>1
  <2>4. CASE m # 0
    <3>0. m - 1 \in Nat /\ m - 1 < m
      BY <2>2, <2>4
    <3>1. m - 1 \in Nat /\ m - 1 \notin T
      <4> HIDE DEF T
      <4> QED
        BY <2>1, <3>0
    <3>2. PICK f : Walks(m - 1, f)
      BY <3>1
    <3> DEFINE g == [k \in 0..m |-> IF k = m THEN Hop(f[m - 1], parent, stored) ELSE f[k]]
    <3>3. ASSUME NEW k \in 0..m
          PROVE  g[k] = IF k = 0 THEN s ELSE Hop(g[k-1], parent, stored)
      <4>1. CASE k = m
        BY <2>2, <2>4, <4>1
      <4>2. CASE k # m
        <5>1. k \in 0..(m-1) /\ (k # 0 => k - 1 \in 0..m /\ k - 1 # m)
          BY <2>2, <4>2
        <5>2. f[k] = IF k = 0 THEN s ELSE Hop(f[k-1], parent, stored)
          BY <3>2, <5>1
        <5>3. g[k] = f[k] /\ (k # 0 => g[k-1] = f[k-1])
          BY <4>2, <5>1
        <5> HIDE DEF g
        <5> QED
          BY <5>2, <5>3
      <4> QED
        BY <4>1, <4>2
    <3>4. Walks(m, g)
      BY <3>3
    <3> QED
      BY <3>4
  <2> QED
    BY <2>3, <2>4
<1>2. PICK f : Walks(MaxHops, f)
  <2>1. MaxHops \in Nat
    BY ScopeAssumption
  <2> QED
    BY <1>1, <2>1
<1> DEFINE h == [n \in 0..MaxHops |-> f[n]]
<1>3. h = [n \in 0..MaxHops |-> IF n = 0 THEN s ELSE Hop(h[n-1], parent, stored)]
  <2>1. ASSUME NEW n \in 0..MaxHops
        PROVE  h[n] = IF n = 0 THEN s ELSE Hop(h[n-1], parent, stored)
    <3>1. MaxHops \in Nat /\ (n # 0 => n - 1 \in 0..MaxHops)
      BY ScopeAssumption
    <3> QED
      BY <1>2, <3>1
  <2> HIDE DEF Walks
  <2> QED
    BY <2>1
<1> HIDE DEF h
<1> QED
  BY <1>3 DEF Ancestor

Parents == [Sessions -> Sessions \cup {None}]

\* The recursion, unfolded at each place.
LEMMA AncestorStep ==
  ASSUME NEW s, NEW parent, NEW stored
  PROVE  /\ Ancestor(s, parent, stored)[0] = s
         /\ \A n \in 1..MaxHops :
              Ancestor(s, parent, stored)[n] = Hop(Ancestor(s, parent, stored)[n-1], parent, stored)
<1> DEFINE up == Ancestor(s, parent, stored)
<1>1. up = [n \in 0..MaxHops |-> IF n = 0 THEN s ELSE Hop(up[n-1], parent, stored)]
  BY AncestorDef
<1>2. MaxHops \in Nat
  BY ScopeAssumption
<1> HIDE DEF up
<1>3. up[0] = s
  BY <1>1, <1>2
<1>4. ASSUME NEW n \in 1..MaxHops PROVE up[n] = Hop(up[n-1], parent, stored)
  <2>1. n \in 0..MaxHops /\ n # 0
    OBVIOUS
  <2> QED
    BY <1>1, <2>1
<1> QED
  BY <1>3, <1>4 DEF up

\* What holds of the session itself and is kept by every hop holds of every ancestor.
LEMMA AncestorKeeps ==
  ASSUME NEW s, NEW parent, NEW stored, NEW S, NEW i \in 0..MaxHops,
         Ancestor(s, parent, stored)[i] \in S,
         \A t \in S : Hop(t, parent, stored) \in S
  PROVE  \A n \in i..MaxHops : Ancestor(s, parent, stored)[n] \in S
<1> DEFINE up == Ancestor(s, parent, stored)
           T == {n \in i..MaxHops : up[n] \notin S}
<1>0. /\ MaxHops \in Nat /\ T \subseteq Nat
      /\ \A n \in 1..MaxHops : up[n] = Hop(up[n-1], parent, stored)
  BY ScopeAssumption, AncestorStep
<1>1. T = {}
  <2> SUFFICES ASSUME T # {} PROVE FALSE
    OBVIOUS
  <2>1. PICK m \in T : \A k \in T : ~(k < m)
    BY <1>0, LeastElement
  <2>2. m \in i..MaxHops /\ up[m] \notin S
    OBVIOUS
  <2>3. m # i
    BY <2>2
  <2>4. m - 1 \in i..MaxHops /\ m - 1 < m /\ m \in 1..MaxHops
    BY <1>0, <2>2, <2>3
  <2>5. m - 1 \notin T
    <3> HIDE DEF T
    <3> QED
      BY <2>1, <2>4
  <2>6. up[m-1] \in S
    BY <2>4, <2>5
  <2> HIDE DEF up
  <2> QED
    BY <1>0, <2>2, <2>4, <2>6
<1> QED
  BY <1>1

\* scopeKeyFor ends on an ancestor: the first that it meets twice, or the last.
LEMMA ScopeKeyForEnds ==
  ASSUME NEW s, NEW parent, NEW stored
  PROVE  \E n \in 1..MaxHops :
           /\ ScopeKeyFor(s, parent, stored) = Ancestor(s, parent, stored)[n]
           /\ \/ n = MaxHops
              \/ \E m \in 0..(n - 1) :
                   Ancestor(s, parent, stored)[m] = Ancestor(s, parent, stored)[n]
           /\ \A k \in 1..(n - 1) : \A m \in 0..(k - 1) :
                Ancestor(s, parent, stored)[m] # Ancestor(s, parent, stored)[k]
<1> DEFINE up == Ancestor(s, parent, stored)
           again == {n \in 1..MaxHops : \E m \in 0..(n - 1) : up[m] = up[n]}
           ends == again \cup {MaxHops}
<1>1. MaxHops \in Nat \ {0} /\ ends \subseteq 1..MaxHops /\ ends # {}
  BY ScopeAssumption
<1>2. \E n \in ends : \A k \in ends : n <= k
  <2>1. PICK n \in ends : \A k \in ends : ~(k < n)
    <3>1. ends \subseteq Nat
      BY <1>1
    <3> HIDE DEF ends
    <3> QED
      BY <1>1, <3>1, LeastElement
  <2>2. \A k \in ends : n <= k
    <3> HIDE DEF ends
    <3> QED
      BY <1>1, <2>1
  <2> QED
    BY <2>2
<1>3. Min(ends) \in ends /\ \A k \in ends : Min(ends) <= k
  <2> HIDE DEF ends
  <2> QED
    BY <1>2 DEF Min
<1>4. ScopeKeyFor(s, parent, stored) = up[Min(ends)]
  BY DEF ScopeKeyFor
<1>5. Min(ends) \in 1..MaxHops
  <2> HIDE DEF ends
  <2> QED
    BY <1>1, <1>3
<1>6. Min(ends) = MaxHops \/ \E m \in 0..(Min(ends) - 1) : up[m] = up[Min(ends)]
  BY <1>3
<1>7. ASSUME NEW k \in 1..(Min(ends) - 1), NEW m \in 0..(k - 1) PROVE up[m] # up[k]
  <2>1. k \in 1..MaxHops /\ ~(Min(ends) <= k)
    <3> HIDE DEF ends
    <3> QED
      BY <1>1, <1>5
  <2>2. k \notin again
    <3> HIDE DEF again
    <3> QED
      BY <1>3, <2>1
  <2> QED
    BY <2>1, <2>2
<1> HIDE DEF ends
<1> QED
  BY <1>4, <1>5, <1>6, <1>7

\* The scope is a session.
LEMMA ScopeKeyForType ==
  ASSUME NEW parent \in Parents, NEW stored, NEW s \in Sessions
  PROVE  ScopeKeyFor(s, parent, stored) \in Sessions
<1>1. \A n \in 0..MaxHops : Ancestor(s, parent, stored)[n] \in Sessions
  <2>1. 0 \in 0..MaxHops /\ Ancestor(s, parent, stored)[0] \in Sessions
    BY ScopeAssumption, AncestorStep
  <2>2. \A t \in Sessions : Hop(t, parent, stored) \in Sessions
    BY HopStays DEF Parents
  <2> QED
    BY <2>1, <2>2, AncestorKeeps
<1>2. PICK n \in 1..MaxHops : ScopeKeyFor(s, parent, stored) = Ancestor(s, parent, stored)[n]
  BY ScopeKeyForEnds
<1>3. n \in 0..MaxHops
  BY ScopeAssumption
<1> QED
  BY <1>1, <1>2, <1>3

\* In a lineage of two levels both functions name the Lead.
LEMMA ScopesAgree ==
  ASSUME NEW parent \in Parents, NEW s \in Sessions, NEW config \in Configs,
         config.share, ~config.account,
         \A t \in Sessions : parent[t] # None => parent[parent[t]] = None
  PROVE  ScopeKeyFor(s, parent, Sessions) = ScopeKeyOf(s, config, parent, {}, Sessions)
<1> DEFINE root == IF parent[s] = None THEN s ELSE parent[s]
           up == Ancestor(s, parent, Sessions)
<1>1. ScopeKeyOf(s, config, parent, {}, Sessions) = root
  BY DEF ScopeKeyOf, KnownParent
<1>2. root \in Sessions /\ parent[root] = None
  BY DEF Parents
<1>3. up[1] = root
  <2>1. 1 \in 1..MaxHops /\ up[0] = s /\ up[1] = Hop(up[1-1], parent, Sessions)
    BY ScopeAssumption, AncestorStep
  <2> QED
    BY <2>1 DEF Hop, KnownParent
<1>4. \A t \in {root} : Hop(t, parent, Sessions) \in {root}
  BY <1>2 DEF Hop, KnownParent
<1> HIDE DEF root
<1>5. \A n \in 1..MaxHops : up[n] = root
  <2>1. 1 \in 0..MaxHops
    BY ScopeAssumption
  <2>2. \A n \in 1..MaxHops : up[n] \in {root}
    BY <1>3, <1>4, <2>1, AncestorKeeps
  <2> QED
    BY <2>2
<1>6. PICK n \in 1..MaxHops : ScopeKeyFor(s, parent, Sessions) = up[n]
  BY ScopeKeyForEnds
<1> QED
  BY <1>1, <1>5, <1>6
-----------------------------------------------------------------------------
\* A closed set of sessions holds all that is reachable from its members.
LEMMA ReachableLeast ==
  ASSUME NEW parent \in Parents, NEW s \in Sessions, NEW S \in SUBSET Sessions,
         s \in S, \A u \in S : parent[u] # None => parent[u] \in S
  PROVE  Reachable(s, parent) \subseteq S
BY DEF Reachable

\* The scope is an ancestor, or the session itself.
LEMMA ScopeIsReachable ==
  ASSUME NEW parent \in Parents, NEW s \in Sessions
  PROVE  ScopeKeyFor(s, parent, Sessions) \in Reachable(s, parent)
<1> SUFFICES ASSUME NEW S \in SUBSET Sessions, s \in S,
                    \A u \in S : parent[u] # None => parent[u] \in S
             PROVE  ScopeKeyFor(s, parent, Sessions) \in S
  BY ScopeKeyForType DEF Reachable
<1>1. \A t \in S : Hop(t, parent, Sessions) \in S
  BY DEF Hop, KnownParent
<1>2. 0 \in 0..MaxHops /\ Ancestor(s, parent, Sessions)[0] \in S
  BY ScopeAssumption, AncestorStep
<1>3. \A n \in 0..MaxHops : Ancestor(s, parent, Sessions)[n] \in S
  BY <1>1, <1>2, AncestorKeeps
<1>4. PICK n \in 1..MaxHops : ScopeKeyFor(s, parent, Sessions) = Ancestor(s, parent, Sessions)[n]
  BY ScopeKeyForEnds
<1>5. n \in 0..MaxHops
  BY ScopeAssumption
<1> QED
  BY <1>3, <1>4, <1>5

\* Where the walk comes to a session that it met before, what it met is all
\* there is, and a session without a parent among it is where it ended.
LEMMA RepeatEndsAtRoot ==
  ASSUME NEW parent \in Parents, NEW s \in Sessions,
         NEW n \in 1..MaxHops, NEW m \in 0..(n - 1),
         Ancestor(s, parent, Sessions)[m] = Ancestor(s, parent, Sessions)[n],
         NEW r \in Reachable(s, parent), parent[r] = None
  PROVE  Ancestor(s, parent, Sessions)[n] = r
<1> DEFINE up == Ancestor(s, parent, Sessions)
           S == {up[k] : k \in 0..(n - 1)}
<1>0. /\ MaxHops \in Nat /\ up[0] = s
      /\ \A k \in 1..MaxHops : up[k] = Hop(up[k-1], parent, Sessions)
  BY ScopeAssumption, AncestorStep
<1>1. \A k \in 0..MaxHops : up[k] \in Sessions
  <2>1. 0 \in 0..MaxHops /\ up[0] \in Sessions
    BY <1>0
  <2>2. \A t \in Sessions : Hop(t, parent, Sessions) \in Sessions
    BY HopStays DEF Parents
  <2> QED
    BY <2>1, <2>2, AncestorKeeps
<1> HIDE DEF up
<1>2. S \in SUBSET Sessions /\ s \in S
  <2>1. 0 \in 0..(n-1) /\ \A k \in 0..(n-1) : k \in 0..MaxHops
    BY <1>0
  <2> QED
    BY <1>0, <1>1, <2>1
<1>3. ASSUME NEW u \in S, parent[u] # None PROVE parent[u] \in S
  <2>1. PICK k \in 0..(n - 1) : u = up[k]
    OBVIOUS
  <2>2. k + 1 \in 1..MaxHops /\ (k + 1) - 1 = k /\ (k + 1 # n => k + 1 \in 0..(n - 1))
    BY <1>0
  <2>3. up[k + 1] = Hop(u, parent, Sessions)
    BY <1>0, <2>1, <2>2
  <2>4. up[k + 1] = parent[u]
    BY <1>2, <1>3, <2>3 DEF Hop, KnownParent
  <2>5. up[k + 1] \in S
    <3>1. CASE k + 1 = n
      BY <3>1 DEF up
    <3>2. CASE k + 1 # n
      BY <2>2, <3>2
    <3> QED
      BY <3>1, <3>2
  <2> QED
    BY <2>4, <2>5
<1>4. r \in S
  <2> HIDE DEF S
  <2> QED
    BY <1>2, <1>3, ReachableLeast
<1>5. PICK j \in 0..(n - 1) : up[j] = r
  BY <1>4
<1>6. \A t \in {r} : Hop(t, parent, Sessions) \in {r}
  BY DEF Hop, KnownParent
<1>7. j \in 0..MaxHops /\ n \in j..MaxHops
  BY <1>0
<1>8. \A k \in j..MaxHops : up[k] \in {r}
  BY <1>5, <1>6, <1>7, AncestorKeeps DEF up
<1> QED
  BY <1>7, <1>8 DEF up

\* A lineage that has an end within the walk is followed to it.
LEMMA ScopeIsRoot ==
  ASSUME NEW parent \in Parents, NEW s \in Sessions,
         IsFiniteSet(Sessions), Cardinality(Sessions) <= MaxHops,
         NEW r \in Reachable(s, parent), parent[r] = None
  PROVE  ScopeKeyFor(s, parent, Sessions) = r
<1> DEFINE up == Ancestor(s, parent, Sessions)
<1>0. MaxHops \in Nat
  BY ScopeAssumption
<1>1. PICK n \in 1..MaxHops :
        /\ ScopeKeyFor(s, parent, Sessions) = up[n]
        /\ n = MaxHops \/ \E m \in 0..(n - 1) : up[m] = up[n]
        /\ \A k \in 1..(n - 1) : \A m \in 0..(k - 1) : up[m] # up[k]
  BY ScopeKeyForEnds
<1>2. \E m \in 0..(n - 1) : up[m] = up[n]
  <2> SUFFICES ASSUME ~\E m \in 0..(n - 1) : up[m] = up[n] PROVE FALSE
    OBVIOUS
  <2>1. n = MaxHops
    BY <1>1
  <2>2. \A k \in 0..MaxHops : up[k] \in Sessions
    <3>1. 0 \in 0..MaxHops /\ up[0] \in Sessions
      BY <1>0, AncestorStep
    <3>2. \A t \in Sessions : Hop(t, parent, Sessions) \in Sessions
      BY HopStays DEF Parents
    <3> QED
      BY <3>1, <3>2, AncestorKeeps
  <2>3. up = [k \in 0..MaxHops |-> IF k = 0 THEN s ELSE Hop(up[k-1], parent, Sessions)]
    BY AncestorDef
  <2> HIDE DEF up
  <2>4. up \in [0..MaxHops -> Sessions]
    BY <2>2, <2>3
  <2>5. IsFiniteSet(0..MaxHops) /\ Cardinality(0..MaxHops) = MaxHops + 1
    BY <1>0, FS_Interval
  <2>6. Cardinality(Sessions) < Cardinality(0..MaxHops)
    BY <1>0, <2>5, FS_CardinalityType
  <2>7. PICK i, j \in 0..MaxHops : i # j /\ up[i] = up[j]
    BY <2>4, <2>5, <2>6, FS_PigeonHole
  <2>8. ASSUME NEW a \in 0..MaxHops, NEW b \in 0..MaxHops, a < b PROVE up[a] # up[b]
    <3>1. a \in 0..(b - 1) /\ (b = n \/ b \in 1..(n - 1))
      BY <1>0, <2>1, <2>8
    <3> QED
      BY <1>1, <3>1
  <2> QED
    BY <1>0, <2>7, <2>8
<1>3. up[n] = r
  BY <1>2, RepeatEndsAtRoot
<1> QED
  BY <1>1, <1>3

-----------------------------------------------------------------------------
(* The inductive invariant.                                                 *)

(* CacheInv does not speak of lineages, so that it holds too while they      *)
(* change; ScopesOK does.                                                   *)

\* What a call is while it is on its way.
CallOK ==
  \A c \in Calls :
    /\ phase[c] = "idle" => call[c] = NoCall
    /\ phase[c] # "idle" => call[c].bot \in Bots
    /\ phase[c] \in {"creating", "issuing", "issued", "refused"} => call[c].on = c
    /\ phase[c] \in {"issued", "ready", "sent", "served"} => call[c].record # NoRecord
    /\ phase[c] = "done" /\ call[c].on = c => call[c].record # NoRecord
    /\ phase[c] = "waiting" => call[c].on \in Calls \ {c}

\* The creates that have provisioned and not been answered: each holds the lock
\* of its bot.
Locked == {c \in Calls : phase[c] = "issuing"}

CreatingOK ==
  /\ \A b \in Bots : creating[b] \in [id: Creates, capability: Creates] \cup {NoCreate}
  /\ \A c \in Locked : creating[call[c].bot].capability = c

\* A promise in the map is that of the call that creates, every call that ever
\* created left a promise or a record there, and who waits, waits for a create
\* of its own bot.
CacheOK ==
  /\ \A b \in Bots : promise[b] # None => call[promise[b]].on = promise[b] /\ call[promise[b]].bot = b
  /\ \A c \in Calls : call[c].on = c =>
       promise[call[c].bot] = c \/ record[call[c].bot] # NoRecord
  /\ \A c \in Calls : call[c].on # None =>
       call[call[c].on].on = call[c].on /\ call[call[c].on].bot = call[c].bot

CacheInv == TypeOK /\ CallOK /\ CreatingOK /\ CacheOK /\ OneCreatePerBot

ScopesOK == \A c \in Calls : phase[c] # "idle" => call[c].bot = BotOf(call[c].by, call[c].policy)

-----------------------------------------------------------------------------
(* Types.                                                                   *)

LEMMA LineageIsOne == TypeOK => lineage \in Parents
BY ProvidersAssumption DEF TypeOK, Parents

LEMMA BotOfType ==
  ASSUME TypeOK, NEW s \in Sessions \cup {None}, NEW policy \in BOOLEAN
  PROVE  BotOf(s, policy) \in Bots
BY LineageIsOne, ProvidersAssumption, ScopeKeyForType DEF BotOf

LEMMA CallersType ==
  ASSUME NEW caller \in Callers
  PROVE  caller.by \in Sessions \cup {None} /\ caller.policy \in BOOLEAN
BY ProvidersAssumption

LEMMA CacheInit == Init => CacheInv
<1> SUFFICES ASSUME Init PROVE CacheInv
  OBVIOUS
<1> USE DEF Init, BridgeInit
<1>1. TypeOK
  BY DEF TypeOK, BridgeTypeOK, NoCreate, NoRecord, NoCall, Records, Phases, Outcomes
<1>2. CallOK
  BY DEF CallOK
<1>3. CreatingOK
  BY DEF CreatingOK, Locked
<1>4. CacheOK /\ OneCreatePerBot
  BY ProvidersAssumption, ScopeAssumption DEF CacheOK, OneCreatePerBot, NoCall
<1> QED
  BY <1>1, <1>2, <1>3, <1>4 DEF CacheInv

-----------------------------------------------------------------------------
(* What a step does to a call and at the bridge.                            *)

LEMMA NextSteps ==
  [Next]_vars =>
    \/ \E c \in Calls :
         \/ \E caller \in Callers : Ensure(c, caller.by, caller.policy)
         \/ BridgeProvisions(c) \/ BridgeIssues(c) \/ BridgeFails(c)
         \/ CreateReturns(c) \/ CreateFails(c) \/ Resume(c)
         \/ Sends(c) \/ BridgeServes(c) \/ Returns(c)
         \/ CallFails(c) \/ Aborts(c)
    \/ BridgeRestarts \/ UNCHANGED vars
BY DEF Next, Steps

\* What a call asks for, it asks for until it ends.
LEMMA CreateStays ==
  ASSUME TypeOK, [Next]_vars, NEW c \in Calls, phase[c] # "idle"
  PROVE  call'[c].on = call[c].on /\ call'[c].bot = call[c].bot
<1>1. ASSUME NEW d \in Calls, NEW caller \in Callers, Ensure(d, caller.by, caller.policy)
      PROVE  call'[c] = call[c]
  BY <1>1 DEF Ensure, Begins, TypeOK
<1>2. ASSUME NEW d \in Calls, BridgeIssues(d) \/ Resume(d)
      PROVE  call'[c].on = call[c].on /\ call'[c].bot = call[c].bot
  BY <1>2 DEF BridgeIssues, Resume, TypeOK
<1>3. ASSUME NEW d \in Calls,
             \/ BridgeProvisions(d) \/ BridgeFails(d) \/ CreateReturns(d) \/ CreateFails(d)
             \/ Sends(d) \/ BridgeServes(d) \/ Returns(d) \/ CallFails(d) \/ Aborts(d)
      PROVE  call' = call
  BY <1>3 DEF BridgeProvisions, BridgeFails, CreateReturns, CreateFails, Sends, BridgeServes,
              Returns, CallFails, Aborts, Ends
<1>4. BridgeRestarts \/ UNCHANGED vars => call' = call
  BY DEF BridgeRestarts, vars
<1> QED
  BY <1>1, <1>2, <1>3, <1>4 DEF Next, Steps

\* What a call's create does at the bridge.
BridgeMove(c) ==
  \/ Provision(call[c].bot, c, c) /\ Locked' = Locked \cup {c}
  \/ /\ c \in Locked /\ Locked' = Locked \ {c}
     /\ Issue(call[c].bot) \/ GiveUp(call[c].bot)
  \/ ProvisionLate(call[c].bot, c) /\ Locked' = Locked

LEMMA BridgeMoves ==
  ASSUME TypeOK, CallOK, [Steps]_vars
  PROVE  \/ UNCHANGED bridge /\ Locked' = Locked
         \/ \E c \in Calls : /\ phase[c] # "idle" /\ call[c].on = c /\ call[c].bot \in Bots
                             /\ BridgeMove(c)
<1>1. ASSUME NEW c \in Calls, NEW to, phase[c] # "issuing", to # "issuing",
             phase' = [phase EXCEPT ![c] = to]
      PROVE  Locked' = Locked
  BY <1>1 DEF TypeOK, Locked
<1>2. ASSUME NEW c \in Calls, NEW to, phase[c] = "issuing", to # "issuing",
             phase' = [phase EXCEPT ![c] = to]
      PROVE  c \in Locked /\ Locked' = Locked \ {c}
  BY <1>2 DEF TypeOK, Locked
<1>3. ASSUME NEW c \in Calls, BridgeProvisions(c) \/ BridgeIssues(c) \/ BridgeFails(c)
      PROVE  phase[c] # "idle" /\ call[c].on = c /\ call[c].bot \in Bots
  BY <1>3 DEF BridgeProvisions, BridgeIssues, BridgeFails, CallOK
<1>4. ASSUME NEW c \in Calls, BridgeProvisions(c)
      PROVE  BridgeMove(c)
  BY <1>4 DEF BridgeProvisions, BridgeMove, TypeOK, Locked
<1>5. ASSUME NEW c \in Calls, BridgeIssues(c)
      PROVE  BridgeMove(c)
  BY <1>2, <1>5 DEF BridgeIssues, BridgeMove
<1>6. ASSUME NEW c \in Calls, BridgeFails(c)
      PROVE  BridgeMove(c) \/ (UNCHANGED bridge /\ Locked' = Locked)
  BY <1>1, <1>2, <1>6 DEF BridgeFails, BridgeMove
<1>7. ASSUME NEW c \in Calls, NEW caller \in Callers, Ensure(c, caller.by, caller.policy)
      PROVE  UNCHANGED bridge /\ Locked' = Locked
  BY <1>1, <1>7 DEF Ensure, Begins
<1>8. ASSUME NEW c \in Calls,
             \/ CreateReturns(c) \/ CreateFails(c) \/ Resume(c) \/ Sends(c)
             \/ BridgeServes(c) \/ Returns(c) \/ CallFails(c) \/ Aborts(c)
      PROVE  UNCHANGED bridge /\ Locked' = Locked
  <2>1. UNCHANGED bridge
    BY <1>8 DEF CreateReturns, CreateFails, Resume, Sends, BridgeServes, Returns, CallFails,
                Aborts, Ends
  <2>2. \/ phase' = phase
        \/ /\ phase[c] # "issuing"
           /\ \E to \in {"ready", "done", "sent", "served"} : phase' = [phase EXCEPT ![c] = to]
    BY <1>8 DEF CreateReturns, CreateFails, Resume, Sends, BridgeServes, Returns, CallFails,
                Aborts, Ends
  <2>3. phase' = phase => Locked' = Locked
    BY DEF Locked
  <2> QED
    BY <1>1, <2>1, <2>2, <2>3
<1>9. CASE UNCHANGED vars
  BY <1>9 DEF vars, bridge, Locked
<1> QED
  BY <1>3, <1>4, <1>5, <1>6, <1>7, <1>8, <1>9 DEF Steps

LEMMA BridgeForgets == TypeOK /\ BridgeRestarts => Forget /\ Locked' = {}
BY DEF BridgeRestarts, TypeOK, Locked

\* A step of the bridge keeps its types, and who holds which lock.
LEMMA BridgeKeeps == CacheInv /\ [Next]_vars => BridgeTypeOK' /\ CreatingOK'
<1> SUFFICES ASSUME CacheInv, [Next]_vars PROVE BridgeTypeOK' /\ CreatingOK'
  OBVIOUS
<1>0. TypeOK /\ CallOK /\ CreatingOK /\ BridgeTypeOK /\ Calls \subseteq Creates
  BY ProvidersAssumption DEF CacheInv, TypeOK
<1>1. \A c \in Locked : c \in Calls /\ call'[c].bot = call[c].bot /\ call[c].bot \in Bots
  BY <1>0, CreateStays DEF Locked, CallOK
<1>2. CASE UNCHANGED bridge /\ Locked' = Locked
  BY <1>0, <1>1, <1>2 DEF bridge, BridgeTypeOK, CreatingOK
<1>3. CASE Forget /\ Locked' = {}
  BY <1>0, <1>3 DEF Forget, BridgeTypeOK, CreatingOK, NoCreate
<1>4. ASSUME NEW c \in Calls, phase[c] # "idle", call[c].bot \in Bots, BridgeMove(c)
      PROVE  BridgeTypeOK' /\ CreatingOK'
  <2> DEFINE b == call[c].bot
  <2>1. CASE Provision(b, c, c) /\ Locked' = Locked \cup {c}
    <3>1. container' \in [Bots -> Creates \cup {None}] /\ container'[b] \in Creates
      BY <1>0, <1>4, <2>1, ScopeAssumption, ProvidersAssumption DEF Provision, BridgeTypeOK
    <3>2. /\ creating' = [creating EXCEPT ![b] = [id |-> container'[b], capability |-> c]]
          /\ creating[b] = NoCreate /\ opens' = opens
      BY <2>1 DEF Provision
    <3>3. BridgeTypeOK'
      BY <1>0, <1>4, <3>1, <3>2 DEF BridgeTypeOK
    <3>4. /\ creating'[b].capability = c
          /\ \A k \in Bots \ {b} : creating'[k] = creating[k]
          /\ creating'[b] \in [id: Creates, capability: Creates]
      BY <1>0, <1>4, <3>1, <3>2 DEF BridgeTypeOK
    <3>5. \A d \in Locked : call[d].bot # b
      BY <1>0, <1>1, <3>2, ProvidersAssumption DEF CreatingOK, NoCreate
    <3>6. call'[c].bot = b
      BY <1>0, <1>4, CreateStays
    <3> HIDE DEF b
    <3>7. \A d \in Locked' : creating'[call'[d].bot].capability = d
      BY <1>0, <1>1, <2>1, <3>4, <3>5, <3>6 DEF CreatingOK
    <3> QED
      BY <1>0, <3>3, <3>4, <3>7 DEF CreatingOK, NoCreate
  <2>2. CASE c \in Locked /\ Locked' = Locked \ {c} /\ (Issue(b) \/ GiveUp(b))
    <3>1. creating' = [creating EXCEPT ![b] = NoCreate] /\ container' = container
      BY <2>2 DEF Issue, GiveUp
    <3>2. opens' \in [Creates -> Creates \cup {None}]
      <4>1. creating[b].id \in Creates \cup {None} /\ creating[b].capability \in Creates \cup {None}
        BY <1>0, <1>4 DEF BridgeTypeOK
      <4>2. opens' = opens \/ opens' = [opens EXCEPT ![creating[b].id] = creating[b].capability]
        BY <2>2 DEF Issue, GiveUp
      <4> QED
        BY <1>0, <4>1, <4>2 DEF BridgeTypeOK
    <3>3. BridgeTypeOK'
      BY <1>0, <3>1, <3>2 DEF BridgeTypeOK, NoCreate
    <3>4. \A d \in Locked \ {c} : call[d].bot # b
      BY <1>0, <2>2 DEF CreatingOK
    <3>5. /\ creating'[b] = NoCreate
          /\ \A k \in Bots \ {b} : creating'[k] = creating[k]
      BY <1>0, <1>4, <3>1 DEF BridgeTypeOK
    <3> HIDE DEF b
    <3>6. \A d \in Locked' : creating'[call'[d].bot].capability = d
      BY <1>0, <1>1, <2>2, <3>4, <3>5 DEF CreatingOK
    <3> QED
      BY <1>0, <3>3, <3>5, <3>6 DEF CreatingOK, NoCreate
  <2>3. CASE ProvisionLate(b, c) /\ Locked' = Locked
    BY <1>0, <1>1, <1>4, <2>3 DEF ProvisionLate, BridgeTypeOK, CreatingOK
  <2> QED
    BY <1>4, <2>1, <2>2, <2>3 DEF BridgeMove
<1> QED
  BY <1>0, <1>2, <1>3, <1>4, BridgeMoves, BridgeForgets DEF Next

-----------------------------------------------------------------------------
(* Types.                                                                   *)

LEMMA EnsureTypes ==
  ASSUME TypeOK, NEW c \in Calls, NEW caller \in Callers,
         Ensure(c, caller.by, caller.policy)
  PROVE  /\ BotOf(caller.by, caller.policy) \in Bots
         /\ call' \in [Calls -> [by: Sessions \cup {None}, policy: BOOLEAN,
                                  bot: Bots \cup {None}, on: Calls \cup {None},
                                  record: Records]]
         /\ phase' \in [Calls -> Phases]
         /\ promise' \in [Bots -> Calls \cup {None}]
         /\ UNCHANGED <<bridge, lineage, record, dropped, outcome>>
<1> DEFINE b == BotOf(caller.by, caller.policy)
<1>0. b \in Bots /\ caller.by \in Sessions \cup {None} /\ caller.policy \in BOOLEAN
  BY CallersType, BotOfType
<1>1. PICK next \in {"ready", "waiting", "creating"}, on \in Calls \cup {None}, rec \in Records :
        Begins(c, caller.by, caller.policy, next, on, rec)
  <2>1. record[b] \in Records /\ NoRecord \in Records /\ promise[b] \in Calls \cup {None}
    BY <1>0 DEF TypeOK, Records
  <2> QED
    BY <2>1 DEF Ensure
<1>2. promise' = promise \/ promise' = [promise EXCEPT ![b] = c]
  BY DEF Ensure
<1> QED
  BY <1>0, <1>1, <1>2 DEF Begins, TypeOK, Phases, bridge

LEMMA TypeStep == CacheInv /\ [Next]_vars => TypeOK' /\ CreatingOK'
<1> SUFFICES ASSUME CacheInv, [Next]_vars PROVE TypeOK'
  BY BridgeKeeps
<1>0. TypeOK /\ CallOK /\ CreatingOK /\ BridgeTypeOK'
  BY BridgeKeeps DEF CacheInv
<1>1. ASSUME NEW c \in Calls, NEW caller \in Callers, Ensure(c, caller.by, caller.policy)
      PROVE  TypeOK'
  BY <1>0, <1>1, EnsureTypes DEF TypeOK
<1>2. ASSUME NEW c \in Calls, BridgeProvisions(c) \/ BridgeFails(c) \/ BridgeIssues(c)
      PROVE  TypeOK'
  <2>1. phase' \in [Calls -> Phases]
    BY <1>0, <1>2 DEF BridgeProvisions, BridgeFails, BridgeIssues, TypeOK, Phases
  <2>2. BridgeIssues(c) => creating[call[c].bot] \in Records
    BY <1>0 DEF BridgeIssues, Issue, CreatingOK, CallOK, Locked, Records
  <2>3. \/ call' = call
        \/ BridgeIssues(c) /\ call' = [call EXCEPT ![c].record = creating[call[c].bot]]
    BY <1>2 DEF BridgeProvisions, BridgeFails, BridgeIssues
  <2>4. call' \in [Calls -> [by: Sessions \cup {None}, policy: BOOLEAN,
                              bot: Bots \cup {None}, on: Calls \cup {None},
                              record: Records]]
    BY <1>0, <2>2, <2>3 DEF TypeOK
  <2> QED
    BY <1>0, <1>2, <2>1, <2>4 DEF BridgeProvisions, BridgeFails, BridgeIssues, TypeOK, cache
<1>3. ASSUME NEW c \in Calls, CreateReturns(c) \/ CreateFails(c)
      PROVE  TypeOK'
  BY <1>0, <1>3 DEF CreateReturns, CreateFails, TypeOK, Phases, Outcomes, cache
<1>4. ASSUME NEW c \in Calls, Resume(c)
      PROVE  TypeOK'
  <2>1. call[c].on \in Calls
    BY <1>0, <1>4 DEF Resume, CallOK
  <2> QED
    BY <1>0, <1>4, <2>1 DEF Resume, TypeOK, Phases, Outcomes, cache
<1>5. ASSUME NEW c \in Calls,
             Sends(c) \/ BridgeServes(c) \/ Returns(c) \/ CallFails(c) \/ Aborts(c)
      PROVE  TypeOK'
  BY <1>0, <1>5
     DEF Sends, BridgeServes, Returns, CallFails, Aborts, Ends, TypeOK, Phases, Outcomes, cache
<1>6. CASE BridgeRestarts
  BY <1>0, <1>6 DEF BridgeRestarts, TypeOK, Phases, cache
<1>7. CASE UNCHANGED vars
  BY <1>0, <1>7 DEF vars, TypeOK
<1> QED
  BY <1>1, <1>2, <1>3, <1>4, <1>5, <1>6, <1>7 DEF Next, Steps

-----------------------------------------------------------------------------
(* Calls and the map.                                                       *)

\* What CallOK says of one call.
CallFine(c) ==
  /\ phase[c] = "idle" => call[c] = NoCall
  /\ phase[c] # "idle" => call[c].bot \in Bots
  /\ phase[c] \in {"creating", "issuing", "issued", "refused"} => call[c].on = c
  /\ phase[c] \in {"issued", "ready", "sent", "served"} => call[c].record # NoRecord
  /\ phase[c] = "done" /\ call[c].on = c => call[c].record # NoRecord
  /\ phase[c] = "waiting" => call[c].on \in Calls \ {c}

\* A call that is not c stays as it is.
LEMMA BystanderCall ==
  ASSUME CallOK, NEW c \in Calls, CallFine(c)',
         \A d \in Calls \ {c} : call'[d] = call[d] /\ phase'[d] = phase[d]
  PROVE  CallOK'
BY DEF CallOK, CallFine

\* A call that begins finds a record, a promise or neither.
LEMMA EnsureBegins ==
  ASSUME CacheInv, NEW c \in Calls, NEW s, NEW policy, BotOf(s, policy) \in Bots,
         Ensure(c, s, policy)
  PROVE  /\ call[c].on = None /\ phase[c] = "idle"
         /\ \A b \in Bots : promise[b] # c
         /\ LET b == BotOf(s, policy) IN
            \/ /\ record[b] # NoRecord /\ promise' = promise
               /\ Begins(c, s, policy, "ready", None, record[b])
            \/ /\ promise[b] \in Calls \ {c} /\ promise' = promise
               /\ Begins(c, s, policy, "waiting", promise[b], NoRecord)
            \/ /\ record[b] = NoRecord /\ promise[b] = None
               /\ promise' = [promise EXCEPT ![b] = c]
               /\ Begins(c, s, policy, "creating", c, NoRecord)
<1>1. call[c].on = None /\ phase[c] = "idle"
  <2>1. phase[c] = "idle" /\ call[c] = NoCall
    BY DEF Ensure, CacheInv, CallOK
  <2> QED
    BY <2>1 DEF NoCall
<1>2. \A b \in Bots : promise[b] # c
  BY <1>1, ProvidersAssumption DEF CacheInv, CacheOK
<1> DEFINE b == BotOf(s, policy)
<1>3. promise[b] \in Calls \cup {None} /\ promise[b] # c
  BY <1>2 DEF CacheInv, TypeOK
<1> HIDE DEF b
<1>4. \/ record[b] # NoRecord /\ Begins(c, s, policy, "ready", None, record[b]) /\ promise' = promise
      \/ /\ record[b] = NoRecord /\ promise[b] # None /\ promise' = promise
         /\ Begins(c, s, policy, "waiting", promise[b], NoRecord)
      \/ /\ record[b] = NoRecord /\ promise[b] = None
         /\ promise' = [promise EXCEPT ![b] = c]
         /\ Begins(c, s, policy, "creating", c, NoRecord)
  BY DEF Ensure, b
<1> QED
  BY <1>1, <1>2, <1>3, <1>4 DEF b

\* What is written of a call that begins.
LEMMA BeginsWrites ==
  ASSUME TypeOK, NEW c \in Calls, NEW s, NEW policy, NEW next, NEW on, NEW rec,
         Begins(c, s, policy, next, on, rec)
  PROVE  /\ phase'[c] = next /\ call'[c].on = on /\ call'[c].record = rec
         /\ call'[c].bot = BotOf(s, policy) /\ call'[c].by = s /\ call'[c].policy = policy
         /\ \A d \in Calls \ {c} : call'[d] = call[d] /\ phase'[d] = phase[d]
BY DEF Begins, TypeOK

LEMMA CallStep == CacheInv /\ [Next]_vars => CallOK'
<1> SUFFICES ASSUME CacheInv, [Next]_vars PROVE CallOK'
  OBVIOUS
<1>0. TypeOK /\ CallOK /\ CreatingOK
  BY DEF CacheInv
<1>1. ASSUME NEW c \in Calls, NEW caller \in Callers, Ensure(c, caller.by, caller.policy)
      PROVE  CallOK'
  <2> DEFINE b == BotOf(caller.by, caller.policy)
  <2>1. b \in Bots
    BY <1>0, <1>1, EnsureTypes
  <2>2. PICK next, on, rec :
          /\ Begins(c, caller.by, caller.policy, next, on, rec)
          /\ \/ next = "ready" /\ rec # NoRecord
             \/ next = "waiting" /\ on \in Calls \ {c}
             \/ next = "creating" /\ on = c
    BY <1>1, <2>1, EnsureBegins
  <2>3. CallFine(c)'
    BY <1>0, <2>1, <2>2, BeginsWrites DEF CallFine
  <2> QED
    BY <1>0, <2>2, <2>3, BeginsWrites, BystanderCall
<1>2. ASSUME NEW c \in Calls, NEW next, phase' = [phase EXCEPT ![c] = next], call' = call,
             \/ next = "issuing" /\ phase[c] = "creating"
             \/ next = "refused" /\ phase[c] \in {"creating", "issuing"}
             \/ next \in {"ready", "sent", "served", "done"}
                  /\ phase[c] \in {"issued", "ready", "sent", "served"}
             \/ next = "done" /\ phase[c] = "waiting"
      PROVE  CallOK'
  <2>1. /\ phase'[c] = next /\ call'[c] = call[c]
        /\ \A d \in Calls \ {c} : call'[d] = call[d] /\ phase'[d] = phase[d]
    BY <1>0, <1>2 DEF TypeOK
  <2>2. CallFine(c)'
    BY <1>0, <1>2, <2>1 DEF CallFine, CallOK
  <2> QED
    BY <1>0, <2>1, <2>2, BystanderCall
<1>3. ASSUME NEW c \in Calls, BridgeProvisions(c) \/ BridgeFails(c)
      PROVE  CallOK'
  BY <1>2, <1>3 DEF BridgeProvisions, BridgeFails
<1>4. ASSUME NEW c \in Calls, NEW next, NEW rec,
             phase' = [phase EXCEPT ![c] = next], call' = [call EXCEPT ![c].record = rec],
             rec # NoRecord, phase[c] # "idle",
             next = "issued" => call[c].on = c, next \in {"issued", "ready"}
      PROVE  CallOK'
  <2>1. /\ phase'[c] = next /\ call'[c].record = rec
        /\ call'[c].on = call[c].on /\ call'[c].bot = call[c].bot
        /\ \A d \in Calls \ {c} : call'[d] = call[d] /\ phase'[d] = phase[d]
    BY <1>0, <1>4 DEF TypeOK
  <2>2. CallFine(c)'
    BY <1>0, <1>4, <2>1 DEF CallFine, CallOK
  <2> QED
    BY <1>0, <2>1, <2>2, BystanderCall
<1>5. ASSUME NEW c \in Calls, BridgeIssues(c)
      PROVE  CallOK'
  <2>1. creating[call[c].bot] # NoRecord /\ call[c].on = c
    BY <1>0, <1>5 DEF BridgeIssues, Issue, NoCreate, NoRecord, CallOK
  <2> QED
    BY <1>4, <1>5, <2>1 DEF BridgeIssues
<1>6. ASSUME NEW c \in Calls, Resume(c)
      PROVE  CallOK'
  <2>1. CASE /\ Kept(call[c].on) /\ phase' = [phase EXCEPT ![c] = "ready"]
             /\ call' = [call EXCEPT ![c].record = call[call[c].on].record]
    <3>1. phase[c] = "waiting" /\ call[c].on \in Calls
      BY <1>0, <1>6 DEF Resume, CallOK
    <3>2. call[call[c].on].on = call[c].on
      BY <3>1, ProvidersAssumption DEF CacheInv, CacheOK
    <3>3. call[call[c].on].record # NoRecord
      BY <1>0, <2>1, <3>1, <3>2 DEF Kept, CallOK
    <3> QED
      BY <1>4, <2>1, <3>1, <3>3
  <2>2. CASE phase' = [phase EXCEPT ![c] = "done"] /\ call' = call
    BY <1>2, <1>6, <2>2 DEF Resume
  <2> QED
    BY <1>6, <2>1, <2>2 DEF Resume
<1>7. ASSUME NEW c \in Calls,
             \/ CreateReturns(c) \/ Sends(c) \/ BridgeServes(c)
             \/ Returns(c) \/ CallFails(c) \/ Aborts(c)
      PROVE  CallOK'
  BY <1>2, <1>7 DEF CreateReturns, Sends, BridgeServes, Returns, CallFails, Aborts, Ends
<1>8. CASE BridgeRestarts
  <2>1. \A c \in Calls :
          phase'[c] = phase[c] \/ (phase[c] = "issuing" /\ phase'[c] = "refused")
    BY <1>0, <1>8 DEF BridgeRestarts, TypeOK
  <2>2. call' = call
    BY <1>8 DEF BridgeRestarts
  <2> QED
    BY <1>0, <2>1, <2>2 DEF CallOK
<1>9. CASE UNCHANGED vars \/ \E c \in Calls : CreateFails(c)
  <2>1. UNCHANGED <<call, phase>>
    BY <1>9 DEF vars, CreateFails
  <2> QED
    BY <1>0, <2>1 DEF CallOK
<1> QED
  BY <1>1, <1>3, <1>5, <1>6, <1>7, <1>8, <1>9 DEF Next, Steps

\* A step that begins no call and leaves the map alone.
LEMMA CacheFrame ==
  ASSUME TypeOK, CacheOK, OneCreatePerBot,
         \A c \in Calls : call'[c].on = call[c].on /\ call'[c].bot = call[c].bot,
         UNCHANGED promise, UNCHANGED record
  PROVE  CacheOK' /\ OneCreatePerBot'
BY DEF TypeOK, CacheOK, OneCreatePerBot

LEMMA CacheStep == CacheInv /\ [Next]_vars => CacheOK' /\ OneCreatePerBot'
<1> SUFFICES ASSUME CacheInv, [Next]_vars PROVE CacheOK' /\ OneCreatePerBot'
  OBVIOUS
<1>0. TypeOK /\ CallOK /\ CacheOK /\ OneCreatePerBot
  BY DEF CacheInv
<1>a. \A d \in Calls : call[d].on = d => call[d].bot \in Bots
  <2>1. \A d \in Calls : call[d].on = d => phase[d] # "idle"
    BY <1>0, ProvidersAssumption DEF CallOK, NoCall
  <2> QED
    BY <1>0, <2>1 DEF CallOK
<1>1. ASSUME NEW c \in Calls, NEW caller \in Callers, Ensure(c, caller.by, caller.policy)
      PROVE  CacheOK' /\ OneCreatePerBot'
  <2> DEFINE b == BotOf(caller.by, caller.policy)
  <2>0. b \in Bots /\ UNCHANGED record /\ c # None
    BY <1>0, <1>1, EnsureTypes, ProvidersAssumption
  <2>1. /\ call[c].on = None
        /\ \A k \in Bots : promise[k] # c
        /\ \/ /\ record[b] # NoRecord /\ promise' = promise
              /\ Begins(c, caller.by, caller.policy, "ready", None, record[b])
           \/ /\ promise[b] \in Calls \ {c} /\ promise' = promise
              /\ Begins(c, caller.by, caller.policy, "waiting", promise[b], NoRecord)
           \/ /\ record[b] = NoRecord /\ promise[b] = None
              /\ promise' = [promise EXCEPT ![b] = c]
              /\ Begins(c, caller.by, caller.policy, "creating", c, NoRecord)
    BY <1>1, <2>0, EnsureBegins
  <2>2. ASSUME NEW on, NEW rec, NEW next, Begins(c, caller.by, caller.policy, next, on, rec)
        PROVE  /\ call'[c].on = on /\ call'[c].bot = b
               /\ \A d \in Calls \ {c} : call'[d] = call[d]
    BY <1>0, <2>2, BeginsWrites
  <2> HIDE DEF b
  <2>3. \A d \in Calls \ {c} : call[d].on # c
    BY <1>0, <2>0, <2>1 DEF CacheOK
  <2>4. \A k \in Bots : promise[k] # None => promise[k] \in Calls \ {c}
    BY <1>0, <2>1 DEF TypeOK
  <2>5. \A d \in Calls \ {c} : call[d].on \in Calls \cup {None}
    BY <1>0 DEF TypeOK
  <2>6. ASSUME UNCHANGED promise, call'[c].on # c, call'[c].bot = b,
               \A d \in Calls \ {c} : call'[d] = call[d],
               call'[c].on # None => call'[c].on \in Calls /\ call[call'[c].on].on = call'[c].on
                                       /\ call[call'[c].on].bot = b
        PROVE  CacheOK' /\ OneCreatePerBot'
    <3>1. \A k \in Bots : promise'[k] # None =>
            call'[promise'[k]].on = promise'[k] /\ call'[promise'[k]].bot = k
      BY <1>0, <2>4, <2>6 DEF CacheOK
    <3>2. \A d \in Calls : call'[d].on = d =>
            promise'[call'[d].bot] = d \/ record'[call'[d].bot] # NoRecord
      BY <1>0, <2>0, <2>6 DEF CacheOK
    <3>3. \A d \in Calls : call'[d].on # None =>
            call'[call'[d].on].on = call'[d].on /\ call'[call'[d].on].bot = call'[d].bot
      BY <1>0, <2>3, <2>5, <2>6 DEF CacheOK
    <3>4. OneCreatePerBot'
      BY <1>0, <2>6 DEF OneCreatePerBot
    <3> QED
      BY <3>1, <3>2, <3>3, <3>4 DEF CacheOK
  <2>7. CASE promise' = promise
             /\ Begins(c, caller.by, caller.policy, "ready", None, record[b])
    BY <2>0, <2>2, <2>6, <2>7
  <2>8. CASE promise[b] \in Calls \ {c} /\ promise' = promise
             /\ Begins(c, caller.by, caller.policy, "waiting", promise[b], NoRecord)
    <3>1. call[promise[b]].on = promise[b] /\ call[promise[b]].bot = b
      BY <1>0, <2>0, <2>8, ProvidersAssumption DEF CacheOK
    <3>2. /\ call'[c].on = promise[b] /\ call'[c].bot = b
          /\ \A d \in Calls \ {c} : call'[d] = call[d]
      BY <2>2, <2>8
    <3> QED
      BY <2>6, <2>8, <3>1, <3>2
  <2>9. CASE /\ record[b] = NoRecord /\ promise[b] = None
             /\ Begins(c, caller.by, caller.policy, "creating", c, NoRecord)
             /\ promise' = [promise EXCEPT ![b] = c]
    <3>1. /\ call'[c].on = c /\ call'[c].bot = b
          /\ \A d \in Calls \ {c} : call'[d] = call[d]
      BY <2>2, <2>9
    <3>2. promise'[b] = c /\ \A k \in Bots \ {b} : promise'[k] = promise[k]
      BY <1>0, <2>0, <2>9 DEF TypeOK
    <3>3. \A d \in Calls \ {c} : call[d].on = d => call[d].bot # b
      BY <1>0, <2>0, <2>9, ProvidersAssumption DEF CacheOK
    <3>4. \A k \in Bots : promise'[k] # None =>
            call'[promise'[k]].on = promise'[k] /\ call'[promise'[k]].bot = k
      BY <1>0, <2>4, <3>1, <3>2 DEF CacheOK
    <3>5. \A d \in Calls : call'[d].on = d =>
            promise'[call'[d].bot] = d \/ record'[call'[d].bot] # NoRecord
      BY <1>0, <1>a, <2>0, <3>1, <3>2, <3>3 DEF CacheOK
    <3>6. \A d \in Calls : call'[d].on # None =>
            call'[call'[d].on].on = call'[d].on /\ call'[call'[d].on].bot = call'[d].bot
      BY <1>0, <2>3, <2>5, <3>1 DEF CacheOK
    <3>7. OneCreatePerBot'
      BY <1>0, <3>1, <3>3 DEF OneCreatePerBot
    <3> QED
      BY <3>4, <3>5, <3>6, <3>7 DEF CacheOK
  <2> QED
    BY <2>1, <2>7, <2>8, <2>9
<1>2. ASSUME NEW c \in Calls, CreateReturns(c)
      PROVE  CacheOK' /\ OneCreatePerBot'
  <2> DEFINE b == call[c].bot
  <2>1. call[c].on = c /\ call[c].record # NoRecord /\ b \in Bots
    BY <1>0, <1>2 DEF CreateReturns, CallOK
  <2>2. /\ promise'[b] = None /\ \A k \in Bots \ {b} : promise'[k] = promise[k]
        /\ record'[b] = call[c].record /\ \A k \in Bots \ {b} : record'[k] = record[k]
        /\ call' = call
    BY <1>0, <1>2, <2>1 DEF CreateReturns, TypeOK
  <2> HIDE DEF b
  <2> QED
    BY <1>0, <1>a, <2>1, <2>2 DEF CacheOK, OneCreatePerBot
<1>3. ASSUME NEW c \in Calls, BridgeIssues(c) \/ Resume(c)
      PROVE  CacheOK' /\ OneCreatePerBot'
  <2>1. UNCHANGED promise /\ UNCHANGED record
    BY <1>3 DEF BridgeIssues, Resume, cache
  <2>2. \A d \in Calls : call'[d].on = call[d].on /\ call'[d].bot = call[d].bot
    BY <1>0, <1>3 DEF BridgeIssues, Resume, TypeOK
  <2> QED
    BY <1>0, <2>1, <2>2, CacheFrame
<1>4. ASSUME NEW c \in Calls,
             \/ BridgeProvisions(c) \/ BridgeFails(c) \/ CreateFails(c) \/ Sends(c)
             \/ BridgeServes(c) \/ Returns(c) \/ CallFails(c) \/ Aborts(c)
      PROVE  UNCHANGED <<promise, record, call>>
  BY <1>4 DEF BridgeProvisions, BridgeFails, CreateFails, Sends, BridgeServes, Returns,
              CallFails, Aborts, Ends, cache
<1>5. BridgeRestarts \/ UNCHANGED vars => UNCHANGED <<promise, record, call>>
  BY DEF BridgeRestarts, vars, cache
<1>6. CASE UNCHANGED <<promise, record, call>>
  BY <1>0, <1>6, CacheFrame
<1> QED
  BY <1>1, <1>2, <1>3, <1>4, <1>5, <1>6 DEF Next, Steps

LEMMA CacheInductive == CacheInv /\ [Next]_vars => CacheInv'
BY TypeStep, CallStep, CacheStep DEF CacheInv

LEMMA CacheInvariant == Spec => []CacheInv
BY CacheInit, CacheInductive, PTL DEF Spec

-----------------------------------------------------------------------------
(* Where a record comes from.                                               *)

\* The map keeps the record of a create for the bot that it was made for.
LEMMA CacheGrows ==
  ASSUME CacheInv, [Next]_vars, NEW b \in Bots
  PROVE  \/ record'[b] = record[b]
         \/ \E c \in Calls : record'[b] = call[c].record /\ call[c].bot = b
<1>0. TypeOK
  BY DEF CacheInv
<1>1. \A c \in Calls : CreateReturns(c) =>
        record'[b] = record[b] \/ (record'[b] = call[c].record /\ call[c].bot = b)
  BY <1>0 DEF CreateReturns, TypeOK
<1>2. ASSUME NEW c \in Calls,
             \/ BridgeProvisions(c) \/ BridgeIssues(c) \/ BridgeFails(c) \/ CreateFails(c)
             \/ Resume(c) \/ Sends(c) \/ BridgeServes(c) \/ Returns(c) \/ CallFails(c)
             \/ Aborts(c)
      PROVE  record' = record
  BY <1>2 DEF BridgeProvisions, BridgeIssues, BridgeFails, CreateFails, Resume, Sends,
              BridgeServes, Returns, CallFails, Aborts, Ends, cache
<1>3. \A c \in Calls, caller \in Callers : Ensure(c, caller.by, caller.policy) => record' = record
  BY DEF Ensure, Begins
<1>4. BridgeRestarts \/ UNCHANGED vars => record' = record
  BY DEF BridgeRestarts, vars, cache
<1> QED
  BY <1>1, <1>2, <1>3, <1>4, NextSteps

\* A call has its record from the map, from the bridge, which has just created
\* it for the call's bot, or from the call for the same bot that it waited for.
LEMMA RecordGrows ==
  ASSUME CacheInv, [Next]_vars, NEW c \in Calls, call'[c].record # NoRecord
  PROVE  LET b == call'[c].bot
             rec == call'[c].record
         IN \/ rec = call[c].record /\ b = call[c].bot
            \/ b \in Bots /\ rec = record[b]
            \/ b \in Bots /\ rec = creating[b] /\ creating[b] # NoCreate
            \/ \E d \in Calls : rec = call[d].record /\ b = call[d].bot
<1> DEFINE b == call'[c].bot
           rec == call'[c].record
<1>0. TypeOK /\ CallOK
  BY DEF CacheInv
<1>1. ASSUME NEW d \in Calls, NEW caller \in Callers, Ensure(d, caller.by, caller.policy)
      PROVE  call'[c] = call[c] \/ (b \in Bots /\ rec = record[b])
  <2>1. BotOf(caller.by, caller.policy) \in Bots
    BY <1>0, <1>1, EnsureTypes
  <2>2. PICK next, on, r : /\ Begins(d, caller.by, caller.policy, next, on, r)
                           /\ r = record[BotOf(caller.by, caller.policy)] \/ r = NoRecord
    BY <1>1, <2>1, EnsureBegins
  <2> QED
    BY <1>0, <2>1, <2>2, BeginsWrites
<1>2. ASSUME NEW d \in Calls, BridgeIssues(d)
      PROVE  call'[c] = call[c] \/ (b \in Bots /\ rec = creating[b] /\ creating[b] # NoCreate)
  <2>1. call[d].bot \in Bots /\ creating[call[d].bot] # NoCreate
    BY <1>0, <1>2 DEF BridgeIssues, Issue, CallOK
  <2> QED
    BY <1>0, <1>2, <2>1 DEF BridgeIssues, TypeOK
<1>3. ASSUME NEW d \in Calls, Resume(d)
      PROVE  call'[c] = call[c] \/ \E e \in Calls : rec = call[e].record /\ b = call[e].bot
  <2>1. phase[d] = "waiting" /\ call[d].on \in Calls
    BY <1>0, <1>3 DEF Resume, CallOK
  <2>2. call[call[d].on].bot = call[d].bot
    BY <2>1, ProvidersAssumption DEF CacheInv, CacheOK
  <2> QED
    BY <1>0, <1>3, <2>1, <2>2 DEF Resume, TypeOK
<1>4. ASSUME NEW d \in Calls,
             \/ BridgeProvisions(d) \/ BridgeFails(d) \/ CreateReturns(d) \/ CreateFails(d)
             \/ Sends(d) \/ BridgeServes(d) \/ Returns(d) \/ CallFails(d) \/ Aborts(d)
      PROVE  call'[c] = call[c]
  BY <1>4 DEF BridgeProvisions, BridgeFails, CreateReturns, CreateFails, Sends, BridgeServes,
              Returns, CallFails, Aborts, Ends
<1>5. BridgeRestarts \/ UNCHANGED vars => call'[c] = call[c]
  BY DEF BridgeRestarts, vars
<1>6. call'[c] = call[c] => rec = call[c].record /\ b = call[c].bot
  OBVIOUS
<1> QED
  BY <1>1, <1>2, <1>3, <1>4, <1>5, <1>6, NextSteps

\* Only the bridge refuses, and only a record that it does not accept.
LEMMA RefusedByBridge ==
  ASSUME CacheInv, [Next]_vars, NEW c \in Calls, outcome[c] # "refused", outcome'[c] = "refused"
  PROVE  /\ call[c].record \in [id: Creates, capability: Calls]
         /\ ~Accepts(call[c].record.id, call[c].record.capability)
<1>0. TypeOK /\ CallOK
  BY DEF CacheInv
<1>1. ASSUME NEW d \in Calls, BridgeServes(d)
      PROVE  /\ phase[c] = "sent"
             /\ ~Accepts(call[c].record.id, call[c].record.capability)
  BY <1>0, <1>1 DEF BridgeServes, TypeOK
<1>2. ASSUME NEW d \in Calls,
             \/ BridgeProvisions(d) \/ BridgeIssues(d) \/ BridgeFails(d) \/ CreateReturns(d)
             \/ CreateFails(d) \/ Resume(d) \/ Sends(d) \/ Returns(d) \/ CallFails(d)
             \/ Aborts(d)
      PROVE  FALSE
  BY <1>0, <1>2 DEF BridgeProvisions, BridgeIssues, BridgeFails, CreateReturns, CreateFails,
                    Resume, Sends, Returns, CallFails, Aborts, Ends, TypeOK
<1>3. \A d \in Calls, caller \in Callers : ~Ensure(d, caller.by, caller.policy)
  BY DEF Ensure, Begins
<1>4. ~BridgeRestarts /\ ~UNCHANGED vars
  BY DEF BridgeRestarts, vars
<1>5. /\ phase[c] = "sent"
      /\ ~Accepts(call[c].record.id, call[c].record.capability)
  BY <1>1, <1>2, <1>3, <1>4, NextSteps
<1>6. call[c].record # NoRecord /\ call[c].record \in Records
  BY <1>0, <1>5 DEF CallOK, TypeOK
<1> QED
  BY <1>5, <1>6 DEF Records

-----------------------------------------------------------------------------
(* The scopes: the lineages of one behaviour stay.                          *)

LEMMA ScopesStep == CacheInv /\ ScopesOK /\ [Next]_vars => ScopesOK'
<1> SUFFICES ASSUME CacheInv, ScopesOK, [Next]_vars, NEW c \in Calls, phase'[c] # "idle"
             PROVE  (call[c].bot = BotOf(call[c].by, call[c].policy))'
  BY DEF ScopesOK
<1>0. TypeOK
  BY DEF CacheInv
<1>1. lineage' = lineage
  <2>1. \A d \in Calls, caller \in Callers : Ensure(d, caller.by, caller.policy) => lineage' = lineage
    BY DEF Ensure, Begins
  <2>2. ASSUME NEW d \in Calls,
               \/ BridgeProvisions(d) \/ BridgeIssues(d) \/ BridgeFails(d) \/ CreateReturns(d)
               \/ CreateFails(d) \/ Resume(d) \/ Sends(d) \/ BridgeServes(d) \/ Returns(d)
               \/ CallFails(d) \/ Aborts(d)
        PROVE  lineage' = lineage
    BY <2>2 DEF BridgeProvisions, BridgeIssues, BridgeFails, CreateReturns, CreateFails, Resume,
           Sends, BridgeServes, Returns, CallFails, Aborts, Ends
  <2>3. BridgeRestarts \/ UNCHANGED vars => lineage' = lineage
    BY DEF BridgeRestarts, vars
  <2> QED
    BY <2>1, <2>2, <2>3, NextSteps
<1>2. \A s, policy : BotOf(s, policy)' = BotOf(s, policy)
  BY <1>1 DEF BotOf
<1>3. \/ phase[c] = "idle" /\ call'[c].bot = BotOf(call'[c].by, call'[c].policy)
      \/ /\ phase[c] # "idle" /\ call'[c].bot = call[c].bot
         /\ call'[c].by = call[c].by /\ call'[c].policy = call[c].policy
  <2>1. ASSUME NEW d \in Calls, NEW caller \in Callers, Ensure(d, caller.by, caller.policy)
        PROVE  \/ phase[c] = "idle" /\ call'[c].bot = BotOf(call'[c].by, call'[c].policy)
               \/ phase[c] # "idle" /\ call'[c] = call[c]
    BY <1>0, <2>1 DEF Ensure, Begins, TypeOK
  <2>2. ASSUME NEW d \in Calls, BridgeIssues(d) \/ Resume(d)
        PROVE  /\ phase[c] # "idle" /\ call'[c].bot = call[c].bot
               /\ call'[c].by = call[c].by /\ call'[c].policy = call[c].policy
    BY <1>0, <2>2 DEF BridgeIssues, Resume, TypeOK
  <2>3. ASSUME NEW d \in Calls,
               \/ BridgeProvisions(d) \/ BridgeFails(d) \/ CreateReturns(d) \/ CreateFails(d)
               \/ Sends(d) \/ BridgeServes(d) \/ Returns(d) \/ CallFails(d) \/ Aborts(d)
        PROVE  phase[c] # "idle" /\ call' = call
    BY <1>0, <2>3 DEF BridgeProvisions, BridgeFails, CreateReturns, CreateFails, Sends,
       BridgeServes, Returns, CallFails, Aborts, Ends, TypeOK
  <2>4. CASE BridgeRestarts \/ UNCHANGED vars
    BY <1>0, <2>4 DEF BridgeRestarts, vars, TypeOK
  <2> QED
    BY <2>1, <2>2, <2>3, <2>4, NextSteps
<1> QED
  BY <1>2, <1>3 DEF ScopesOK

LEMMA ScopesInvariant == Spec => []ScopesOK
<1>1. Init => ScopesOK
  BY DEF Init, ScopesOK
<1> QED
  BY <1>1, CacheInvariant, ScopesStep, PTL DEF Spec

-----------------------------------------------------------------------------
(* The theorems.                                                            *)

\* The providers' state keeps its types: the map in particular holds nothing but
\* records with a capability, and promises, also after a create that failed.
THEOREM ProvidersTypeCorrect == Spec => []TypeOK
<1>1. CacheInv => TypeOK
  BY DEF CacheInv
<1> QED
  BY <1>1, CacheInvariant, PTL

\* Of all calls for one bot identity only one ever creates its computer.
THEOREM OneCreateCorrect == Spec => []OneCreatePerBot
<1>1. CacheInv => OneCreatePerBot
  BY DEF CacheInv
<1> QED
  BY <1>1, CacheInvariant, PTL

\* What a call with a session's policy works on is what scopeKeyFor says.
LEMMA PolicyCallsScope ==
  ASSUME CacheInv, ScopesOK, NEW c \in Calls, call[c].by # None, call[c].policy
  PROVE  /\ call[c].by \in Sessions /\ lineage \in Parents
         /\ call[c].bot = ScopeKeyFor(call[c].by, lineage, Sessions)
<1>1. phase[c] # "idle" /\ call[c].by \in Sessions
  BY DEF CacheInv, CallOK, TypeOK, NoCall
<1>2. call[c].bot = BotOf(call[c].by, call[c].policy)
  BY <1>1 DEF ScopesOK
<1> QED
  BY <1>1, <1>2, LineageIsOne DEF CacheInv, BotOf

\* In a Team of two levels the native tools and a sharing plugin's name the same
\* computer.
THEOREM TeamToolsCorrect == Spec => []TeamToolsShareComputer
<1>1. CacheInv /\ ScopesOK => TeamToolsShareComputer
  <2> SUFFICES ASSUME CacheInv, ScopesOK, RowConfig.share, ~RowConfig.account, TwoLevels,
                      NEW c \in Calls, call[c].by # None, call[c].policy
               PROVE  call[c].bot = ScopeKeyOf(call[c].by, RowConfig, lineage, {}, Sessions)
    BY DEF TeamToolsShareComputer
  <2> QED
    BY PolicyCallsScope, ProvidersAssumption, ScopesAgree DEF TwoLevels
<1> QED
  BY <1>1, CacheInvariant, ScopesInvariant, PTL

\* A call works on its session or an ancestor of it and, where no lineage can be
\* longer than the walk, on the one without a parent.
THEOREM TeamRootCorrect ==
  ASSUME IsFiniteSet(Sessions), Cardinality(Sessions) <= MaxHops
  PROVE  Spec => []CallReachesTeamRoot
<1>1. CacheInv /\ ScopesOK => CallReachesTeamRoot
  <2> SUFFICES ASSUME CacheInv, ScopesOK, NEW c \in Calls, call[c].by # None, call[c].policy
               PROVE  /\ call[c].bot \in Reachable(call[c].by, lineage)
                      /\ \A r \in Reachable(call[c].by, lineage) :
                           lineage[r] = None => call[c].bot = r
    BY DEF CallReachesTeamRoot
  <2> QED
    BY PolicyCallsScope, ScopeIsReachable, ScopeIsRoot
<1> QED
  BY <1>1, CacheInvariant, ScopesInvariant, PTL
=============================================================================
