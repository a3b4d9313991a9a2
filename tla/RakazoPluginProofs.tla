-------------------------- MODULE RakazoPluginProofs --------------------------
(***************************************************************************)
(* A container is provisioned for one scope, by one create, and nothing    *)
(* that the plugin keeps or asks for ever leaves that scope, for every set *)
(* of sessions, lineages and row configs.                                  *)
(***************************************************************************)
EXTENDS RakazoPlugin, TLAPS

-----------------------------------------------------------------------------
(* The inductive invariant.                                                 *)

CallOK ==
  \A c \in Calls :
    /\ phase[c] = "idle" => call[c] = NoCall
    /\ call[c].op # None => call[c].scope \in Bots
    /\ call[c].op \in {"use", "destroy"} => call[c].id # None
    /\ phase[c] = "provisioned" \/ (phase[c] = "answered" /\ call[c].op = "create") =>
         call[c].op = "create" /\ call[c].id # None
    /\ phase[c] = "admitted" => call[c].op = "destroy"

\* The create named id provisioned, or asked, for scope b.  No step unmakes it.
Made(id, b) == id \in Calls /\ call[id].op = "create" /\ call[id].scope = b

MadeOK ==
  /\ \A b \in Bots : container[b] # None => Made(container[b], b)
  /\ \A b \in Bots, id \in Creates : owned[b][id] # None => Made(id, b)
  /\ \A c \in Calls : call[c].id # None => Made(call[c].id, call[c].scope)
  /\ \A at \in {"sent", "admitted"} : \A d \in deletes[at] : d.by \in Sessions => Made(d.id, d.by)

\* Who may ask for a deletion, by what the row says.
DeletesOK ==
  /\ config.account => prune.stage = "off"
  /\ \A at \in {"sent", "admitted"} : \A d \in deletes[at] :
       ~config.account /\ (config.keep => d.by = Pruning)

PluginInv == TypeOK /\ CallOK /\ MadeOK /\ DeletesOK

LEMMA PluginInit == Init => PluginInv
<1> SUFFICES ASSUME Init PROVE PluginInv
  OBVIOUS
<1> USE DEF Init, BridgeInit
<1>1. TypeOK
  <2>1. BridgeTypeOK
    BY DEF BridgeTypeOK, NoCreate
  <2>2. call \in [Calls -> [op: {"create", "use", "destroy", None},
                            scope: Bots \cup {None}, id: Creates \cup {None},
                            capability: Calls \cup {None}]]
    BY DEF NoCall
  <2> QED
    BY <2>1, <2>2 DEF TypeOK, Idle
<1>2. CallOK
  BY PluginAssumption DEF CallOK, NoCall
<1>3. MadeOK
  <2>1. \A c \in Calls : call[c].id = None
    BY DEF NoCall
  <2>2. \A b \in Bots, id \in Creates : owned[b][id] = None
    OBVIOUS
  <2> QED
    BY <2>1, <2>2 DEF MadeOK
<1>4. DeletesOK
  BY DEF DeletesOK, Idle
<1> QED
  BY <1>1, <1>2, <1>3, <1>4 DEF PluginInv

-----------------------------------------------------------------------------
(* Scopes.                                                                  *)

LEMMA ScopeOfType == ASSUME TypeOK, NEW s \in Sessions PROVE ScopeOf(s) \in Bots
<1>1. Parent \in [Sessions -> Sessions \cup {None}] /\ Sessions \cup {Account} \subseteq Bots
  BY PluginAssumption
<1> QED
  BY <1>1 DEF ScopeOf, ScopeKeyOf, KnownParent

\* A session that is released is the principal of its own scope.
LEMMA ReleasedScopeIsOwn ==
  ASSUME TypeOK, NEW s \in Sessions, ~config.account,
         ~config.share \/ IsPrincipal(s, Parent, Inline, stored)
  PROVE  ScopeOf(s) = s
BY DEF ScopeOf, ScopeKeyOf, IsPrincipal

\* Two sessions with the same screen of the same scope have the computer's own.
LEMMA ScreensDiffer ==
  ASSUME TypeOK, NEW s \in Sessions, NEW t \in Sessions, s # t, ScopeOf(s) = ScopeOf(t),
         ScreenIdFor(s, ScopeOf(s)) = ScreenIdFor(t, ScopeOf(t))
  PROVE  \A u \in {s, t} : u \in Bare \/ u = ScopeOf(u)
<1>1. s # None /\ t # None /\ s # Account /\ t # Account
  BY ScopeAssumption
<1>2. config.account => ScopeOf(s) = Account
  BY DEF ScopeOf, ScopeKeyOf
<1>3. ~config.account /\ ~config.share => ScopeOf(s) = s /\ ScopeOf(t) = t
  BY DEF ScopeOf, ScopeKeyOf
<1> QED
  BY <1>1, <1>2, <1>3 DEF ScreenIdFor
-----------------------------------------------------------------------------
(* Types.                                                                   *)

CallRecords == [op: {"create", "use", "destroy", None}, scope: Bots \cup {None},
                id: Creates \cup {None}, capability: Calls \cup {None}]

\* A step of the bridge keeps its types.
LEMMA BridgeKeeps ==
  ASSUME TypeOK,
         \/ UNCHANGED bridge
         \/ Forget
         \/ \E b \in Bots : Issue(b) \/ GiveUp(b)
         \/ \E b \in Bots, c \in Calls : Provision(b, c, c) \/ ProvisionLate(b, c)
         \/ \E id \in Creates : Delete(id)
  PROVE  BridgeTypeOK'
<1>0. Calls \subseteq Creates /\ BridgeTypeOK
  BY PluginAssumption DEF TypeOK
<1>1. CASE UNCHANGED bridge
  BY <1>0, <1>1 DEF bridge, BridgeTypeOK
<1>2. CASE Forget
  BY <1>0, <1>2 DEF Forget, BridgeTypeOK, NoCreate
<1>3. ASSUME NEW b \in Bots, Issue(b)
      PROVE  BridgeTypeOK'
  BY <1>0, <1>3 DEF Issue, BridgeTypeOK, NoCreate
<1>4. ASSUME NEW b \in Bots, GiveUp(b)
      PROVE  BridgeTypeOK'
  BY <1>0, <1>4 DEF GiveUp, BridgeTypeOK, NoCreate
<1>5. ASSUME NEW b \in Bots, NEW c \in Calls, Provision(b, c, c)
      PROVE  BridgeTypeOK'
  BY <1>0, <1>5 DEF Provision, BridgeTypeOK
<1>6. ASSUME NEW b \in Bots, NEW c \in Calls, ProvisionLate(b, c)
      PROVE  BridgeTypeOK'
  BY <1>0, <1>6 DEF ProvisionLate, BridgeTypeOK
<1>7. ASSUME NEW id \in Creates, Delete(id)
      PROVE  BridgeTypeOK'
  BY <1>0, <1>7 DEF Delete, BridgeTypeOK
<1> QED
  BY <1>1, <1>2, <1>3, <1>4, <1>5, <1>6, <1>7

\* What a tool call sends is typed.
LEMMA SendsTypes ==
  ASSUME TypeOK, NEW c \in Calls, NEW s \in Sessions, NEW op \in {"create", "use", "destroy"},
         NEW id \in Creates \cup {None}, NEW capability \in Calls \cup {None},
         Sends(c, s, op, ScopeOf(s), id, capability)
  PROVE  TypeOK'
<1>0. TypeOK /\ ScopeOf(s) \in Bots
  BY ScopeOfType
<1>1. BridgeTypeOK'
  BY <1>0, BridgeKeeps DEF Sends
<1>2. call' \in [Calls -> CallRecords]
  BY <1>0 DEF Sends, TypeOK, CallRecords
<1> QED
  BY <1>0, <1>1, <1>2 DEF Sends, TypeOK, CallRecords, harness

\* What is held is held under a scope by the capability of a tool call.
LEMMA HoldersHold ==
  ASSUME TypeOK, NEW s \in Sessions, NEW id \in Creates, NEW b \in Holders(ScopeOf(s), id)
  PROVE  b = ScopeOf(s) /\ b \in Bots /\ owned[b][id] \in Calls
<1>1. TypeOK /\ b = ScopeOf(s) /\ b \in Bots /\ owned[b][id] # None
  BY ScopeOfType DEF Holders
<1> QED
  BY <1>1 DEF TypeOK

LEMMA ReleaseTypes ==
  ASSUME TypeOK, NEW scope \in Bots, NEW principal, NEW by \in Sessions \cup {Unloading},
         ReleaseSession(scope, principal, by)
  PROVE  /\ owned' \in [Bots -> [Creates -> Calls \cup {None}]]
         /\ deletes' \in [{"sent", "admitted"} -> SUBSET Deletes]
<1>1. CASE UNCHANGED <<owned, deletes>>
  BY <1>1 DEF TypeOK
<1>2. CASE /\ owned' = [owned EXCEPT ![scope] = [id \in Creates |-> None]]
           /\ Deletion(IF config.keep THEN {}
                       ELSE {[id |-> id, capability |-> owned[scope][id], by |-> by] :
                             id \in Held(scope)})
  <2>1. \A id \in Held(scope) : id \in Creates /\ owned[scope][id] \in Calls
    BY DEF TypeOK, Held
  <2>2. {[id |-> id, capability |-> owned[scope][id], by |-> by] : id \in Held(scope)} \subseteq Deletes
    BY <2>1 DEF Deletes
  <2> QED
    BY <1>2, <2>2 DEF TypeOK, Deletion
<1> QED
  BY <1>1, <1>2 DEF ReleaseSession
\* What the sessions' agents send to the bridge.
LEMMA ToolSends ==
  ASSUME TypeOK, NEW c \in Calls, NEW s \in Sessions,
         \/ Create(c, s)
         \/ \E id \in Creates : Use(c, s, id) \/ Destroy(c, s, id)
  PROVE  \/ Sends(c, s, "create", ScopeOf(s), None, None)
         \/ \E op \in {"use", "destroy"}, id \in Creates, k \in Calls :
              owned[ScopeOf(s)][id] # None /\ Sends(c, s, op, ScopeOf(s), id, k)
<1>0. ScopeOf(s) \in Bots
  BY ScopeOfType
<1>1. CASE Create(c, s)
  BY <1>1 DEF Create
<1>2. ASSUME NEW id \in Creates, Use(c, s, id) \/ Destroy(c, s, id)
      PROVE  \E op \in {"use", "destroy"}, k \in Calls :
               owned[ScopeOf(s)][id] # None /\ Sends(c, s, op, ScopeOf(s), id, k)
  <2>1. PICK b \in Holders(ScopeOf(s), id) :
          \/ Sends(c, s, "use", ScopeOf(s), id, owned[b][id])
          \/ Sends(c, s, "destroy", ScopeOf(s), id, owned[b][id])
    BY <1>2 DEF Use, Destroy
  <2>2. b = ScopeOf(s) /\ owned[b][id] \in Calls /\ owned[b][id] # None
    BY HoldersHold DEF Holders
  <2> QED
    BY <2>1, <2>2
<1> QED
  BY <1>1, <1>2

LEMMA TypeStep == TypeOK /\ CallOK /\ [Next]_vars => TypeOK'
<1> SUFFICES ASSUME TypeOK, CallOK, [Next]_vars PROVE TypeOK'
  OBVIOUS
<1>0. TypeOK /\ CallOK
  OBVIOUS
<1>1. ASSUME NEW c \in Calls, NEW s \in Sessions,
             Create(c, s) \/ \E id \in Creates : Use(c, s, id) \/ Destroy(c, s, id)
      PROVE  TypeOK'
  <2>1. CASE Sends(c, s, "create", ScopeOf(s), None, None)
    BY <2>1, SendsTypes
  <2>2. CASE \E op \in {"use", "destroy"}, id \in Creates, k \in Calls :
               Sends(c, s, op, ScopeOf(s), id, k)
    BY <2>2, SendsTypes
  <2> QED
    BY <1>1, <2>1, <2>2, ToolSends
<1>2. ASSUME NEW c \in Calls, BridgeProvisions(c)
      PROVE  TypeOK'
  <2>1. call[c].scope \in Bots
    BY <1>0, <1>2, PluginAssumption DEF CallOK, BridgeProvisions
  <2>2. BridgeTypeOK'
    BY <1>0, <1>2, <2>1, BridgeKeeps DEF BridgeProvisions
  <2>3. container'[call[c].scope] \in Creates \cup {None}
    BY <2>1, <2>2 DEF BridgeTypeOK
  <2>4. call' \in [Calls -> CallRecords]
    BY <1>0, <1>2, <2>3 DEF BridgeProvisions, TypeOK, CallRecords
  <2> QED
    BY <1>0, <1>2, <2>2, <2>4 DEF BridgeProvisions, BridgeSteps, TypeOK, CallRecords, harness
<1>3. ASSUME NEW c \in Calls, BridgeIssues(c) \/ BridgeFails(c) \/ BridgeAdmits(c) \/ BridgeDestroys(c)
      PROVE  TypeOK'
  <2>1. phase[c] \notin {"idle"} /\ call' = call
    BY <1>0, <1>3, PluginAssumption
       DEF BridgeIssues, BridgeFails, BridgeAdmits, BridgeDestroys, BridgeSteps, CallOK, NoCall
  <2>2. PICK from \in {"sent", "provisioned", "admitted"},
             to \in {"admitted", "answered", "refused"} : BridgeSteps(c, from, to)
    <3>1. BridgeIssues(c) => BridgeSteps(c, "provisioned", "answered")
      BY DEF BridgeIssues
    <3>2. BridgeFails(c) => \/ BridgeSteps(c, "sent", "refused")
                            \/ BridgeSteps(c, "provisioned", "refused")
                            \/ BridgeSteps(c, "admitted", "answered")
      BY DEF BridgeFails
    <3>3. BridgeAdmits(c) => \/ BridgeSteps(c, "sent", "admitted")
                             \/ BridgeSteps(c, "sent", "answered")
      BY DEF BridgeAdmits
    <3>4. BridgeDestroys(c) => BridgeSteps(c, "admitted", "answered")
      BY DEF BridgeDestroys
    <3> QED
      BY <1>3, <3>1, <3>2, <3>3, <3>4
  <2>3. \/ UNCHANGED bridge
        \/ \E b \in Bots : Issue(b) \/ GiveUp(b)
        \/ \E b \in Bots : ProvisionLate(b, c)
        \/ \E id \in Creates : Delete(id)
    <3>1. CASE BridgeIssues(c)
      BY <1>0, <3>1, PluginAssumption DEF BridgeIssues, BridgeSteps, CallOK
    <3>2. CASE BridgeFails(c)
      BY <1>0, <3>2, PluginAssumption DEF BridgeFails, BridgeSteps, CallOK
    <3>3. CASE BridgeAdmits(c)
      BY <3>3 DEF BridgeAdmits
    <3>4. CASE BridgeDestroys(c)
      <4>1. call[c].id \in Creates \cup {None}
        BY <1>0 DEF TypeOK
      <4>2. CASE call[c].id = None
        <5>1. \A b \in Bots : container[b] = None => container'[b] = None
          BY <3>4 DEF BridgeDestroys, Delete
        <5>2. container' = container
          BY <1>0, <3>4, <4>2 DEF BridgeDestroys, Delete, TypeOK, BridgeTypeOK
        <5> QED
          BY <3>4, <5>2 DEF BridgeDestroys, Delete, bridge
      <4> QED
        BY <3>4, <4>1, <4>2 DEF BridgeDestroys
    <3> QED
      BY <1>3, <3>1, <3>2, <3>3, <3>4
  <2>4. BridgeTypeOK'
    BY <1>0, <2>3, BridgeKeeps
  <2> QED
    BY <1>0, <2>1, <2>2, <2>4 DEF BridgeSteps, TypeOK, harness
<1>4. ASSUME NEW c \in Calls, Returns(c) \/ CallFails(c)
      PROVE  TypeOK'
  <2>1. BridgeTypeOK'
    BY <1>0, <1>4, BridgeKeeps DEF Returns, CallFails
  <2>2. Handles(c, owned) \in [Bots -> [Creates -> Calls \cup {None}]]
    BY <1>0 DEF TypeOK, Handles
  <2>3. owned' \in [Bots -> [Creates -> Calls \cup {None}]]
    BY <1>0, <1>4, <2>2 DEF Returns, CallFails, TypeOK
  <2>4. call' \in [Calls -> CallRecords]
    BY <1>0, <1>4 DEF Returns, CallFails, TypeOK, CallRecords, NoCall
  <2> QED
    BY <1>0, <1>4, <2>1, <2>3, <2>4 DEF Returns, CallFails, TypeOK, CallRecords, harness
<1>5. ASSUME NEW s \in Sessions, AgentOpens(s) \/ StoreLearns(s) \/ StoreForgets(s)
      PROVE  TypeOK'
  <2>1. BridgeTypeOK'
    BY <1>0, <1>5, BridgeKeeps DEF AgentOpens, StoreLearns, StoreForgets
  <2> QED
    BY <1>0, <1>5, <2>1 DEF AgentOpens, StoreLearns, StoreForgets, TypeOK, calls
<1>6. ASSUME NEW s \in Sessions, AgentDisposed(s)
      PROVE  TypeOK'
  <2>1. BridgeTypeOK'
    BY <1>0, <1>6, BridgeKeeps DEF AgentDisposed
  <2>2. /\ owned' \in [Bots -> [Creates -> Calls \cup {None}]]
        /\ deletes' \in [{"sent", "admitted"} -> SUBSET Deletes]
    <3>1. CASE UNCHANGED <<owned, deletes>>
      BY <1>0, <3>1 DEF TypeOK
    <3>2. CASE ReleaseSession(ScopeOf(s), IsPrincipal(s, Parent, Inline, stored), s)
      BY <1>0, <3>2, ScopeOfType, ReleaseTypes
    <3> QED
      BY <1>6, <3>1, <3>2 DEF AgentDisposed
  <2> QED
    BY <1>0, <1>6, <2>1, <2>2 DEF AgentDisposed, TypeOK, calls
<1>7. ASSUME NEW d \in deletes["sent"] \cup deletes["admitted"],
             BridgeAdmitsDelete(d) \/ BridgeDeletes(d) \/ DeleteFails(d)
      PROVE  TypeOK'
  <2>1. d \in Deletes
    BY <1>0 DEF TypeOK
  <2>2. BridgeTypeOK'
    <3>1. d.id \in Creates
      BY <2>1 DEF Deletes
    <3> QED
      BY <1>0, <1>7, <3>1, BridgeKeeps DEF BridgeAdmitsDelete, BridgeDeletes, DeleteFails
  <2>3. deletes' \in [{"sent", "admitted"} -> SUBSET Deletes]
    BY <1>0, <1>7, <2>1 DEF BridgeAdmitsDelete, BridgeDeletes, DeleteFails, TypeOK
  <2> QED
    BY <1>0, <1>7, <2>2, <2>3
       DEF BridgeAdmitsDelete, BridgeDeletes, DeleteFails, TypeOK, calls, harness
<1>8. ASSUME NEW b \in unload, UnloadReleases(b)
      PROVE  TypeOK'
  <2>1. BridgeTypeOK' /\ b \in Bots
    BY <1>0, <1>8, BridgeKeeps DEF UnloadReleases, TypeOK
  <2>2. /\ owned' \in [Bots -> [Creates -> Calls \cup {None}]]
        /\ deletes' \in [{"sent", "admitted"} -> SUBSET Deletes]
    BY <1>0, <1>8, <2>1, ReleaseTypes DEF UnloadReleases
  <2> QED
    BY <1>0, <1>8, <2>1, <2>2 DEF UnloadReleases, TypeOK, calls, harness
<1>9. CASE Load \/ Unload \/ PruneReadsSessions
  <2>1. BridgeTypeOK'
    BY <1>0, <1>9, BridgeKeeps DEF Load, Unload, PruneReadsSessions
  <2>2. prune' \in [stage: {"off", "sessions", "list"}, live: SUBSET Sessions]
    BY <1>0, <1>9 DEF Load, Unload, PruneReadsSessions, Idle, TypeOK
  <2> QED
    BY <1>0, <1>9, <2>1, <2>2 DEF Load, Unload, PruneReadsSessions, TypeOK, calls, harness
<1>10. CASE PruneReadsList
  <2>1. BridgeTypeOK'
    BY <1>0, <1>10, BridgeKeeps DEF PruneReadsList
  <2>2. \A b \in Bots : container[b] \in Listed =>
          [id |-> container[b], capability |-> Adopt, by |-> Pruning] \in Deletes
    BY DEF Listed, Deletes
  <2>3. {[id |-> container[b], capability |-> Adopt, by |-> Pruning] :
           b \in {b \in Bots \ prune.live : container[b] \in Listed}} \subseteq Deletes
    BY <2>2
  <2>4. deletes' \in [{"sent", "admitted"} -> SUBSET Deletes]
    BY <1>0, <1>10, <2>3 DEF PruneReadsList, Deletion, TypeOK
  <2> QED
    BY <1>0, <1>10, <2>1, <2>4 DEF PruneReadsList, Idle, TypeOK, calls, harness
<1>11. CASE HarnessDies
  <2>1. BridgeTypeOK'
    BY <1>0, <1>11, BridgeKeeps DEF HarnessDies
  <2> QED
    BY <1>0, <1>11, <2>1 DEF HarnessDies, Idle, TypeOK
<1>12. CASE BridgeRestarts
  <2>1. BridgeTypeOK'
    BY <1>0, <1>12, BridgeKeeps DEF BridgeRestarts
  <2> QED
    BY <1>0, <1>12, <2>1 DEF BridgeRestarts, TypeOK, harness
<1>13. CASE UNCHANGED vars
  BY <1>0, <1>13 DEF vars, TypeOK, BridgeTypeOK
<1> QED
  BY <1>1, <1>2, <1>3, <1>4, <1>5, <1>6, <1>7, <1>8, <1>9, <1>10, <1>11, <1>12, <1>13
     DEF Next, Steps

-----------------------------------------------------------------------------
(* The calls.                                                               *)

CallFine(c) ==
  /\ phase[c] = "idle" => call[c] = NoCall
  /\ call[c].op # None => call[c].scope \in Bots
  /\ call[c].op \in {"use", "destroy"} => call[c].id # None
  /\ phase[c] = "provisioned" \/ (phase[c] = "answered" /\ call[c].op = "create") =>
       call[c].op = "create" /\ call[c].id # None
  /\ phase[c] = "admitted" => call[c].op = "destroy"

\* The only steps that touch a call or how far it is.
LEMMA CallsChange ==
  ASSUME [Next]_vars
  PROVE  \/ UNCHANGED <<call, phase>>
         \/ \E c \in Calls, s \in Sessions :
              Create(c, s) \/ \E id \in Creates : Use(c, s, id) \/ Destroy(c, s, id)
         \/ \E c \in Calls : \/ BridgeProvisions(c) \/ BridgeIssues(c) \/ BridgeAdmits(c)
                             \/ BridgeDestroys(c) \/ BridgeFails(c) \/ Returns(c)
         \/ BridgeRestarts
<1>1. \A c \in Calls : CallFails(c) => UNCHANGED <<call, phase>>
  BY DEF CallFails
<1>2. \A s \in Sessions : AgentOpens(s) \/ AgentDisposed(s) \/ StoreLearns(s) \/ StoreForgets(s) =>
        UNCHANGED <<call, phase>>
  BY DEF AgentOpens, AgentDisposed, StoreLearns, StoreForgets, calls
<1>3. \A d \in deletes["sent"] \cup deletes["admitted"] :
        BridgeAdmitsDelete(d) \/ BridgeDeletes(d) \/ DeleteFails(d) => UNCHANGED <<call, phase>>
  BY DEF BridgeAdmitsDelete, BridgeDeletes, DeleteFails, calls
<1>4. \A b \in unload : UnloadReleases(b) => UNCHANGED <<call, phase>>
  BY DEF UnloadReleases, calls
<1>5. Load \/ Unload \/ PruneReadsSessions \/ PruneReadsList => UNCHANGED <<call, phase>>
  BY DEF Load, Unload, PruneReadsSessions, PruneReadsList, calls
<1>6. HarnessDies \/ UNCHANGED vars => UNCHANGED <<call, phase>>
  BY DEF HarnessDies, vars
<1> QED
  BY <1>1, <1>2, <1>3, <1>4, <1>5, <1>6 DEF Next, Steps

LEMMA CallStep == TypeOK /\ CallOK /\ [Next]_vars => CallOK'
<1> SUFFICES ASSUME TypeOK, CallOK, [Next]_vars, NEW x \in Calls PROVE CallFine(x)'
  BY DEF CallOK, CallFine
<1>0. TypeOK /\ CallFine(x)
  BY DEF CallOK, CallFine
<1>1. CASE UNCHANGED <<call, phase>>
  BY <1>0, <1>1 DEF CallFine
<1>2. ASSUME NEW c \in Calls, NEW s \in Sessions,
             Create(c, s) \/ \E id \in Creates : Use(c, s, id) \/ Destroy(c, s, id)
      PROVE  CallFine(x)'
  <2>1. PICK op \in {"create", "use", "destroy"}, id \in Creates \cup {None},
             k \in Calls \cup {None} :
          (op \in {"use", "destroy"} => id # None) /\ Sends(c, s, op, ScopeOf(s), id, k)
    BY <1>2, ToolSends, PluginAssumption
  <2>2. ScopeOf(s) \in Bots
    BY <1>0, ScopeOfType
  <2>3. CASE x = c
    BY <1>0, <2>1, <2>2, <2>3 DEF Sends, CallFine, TypeOK
  <2>4. CASE x # c
    BY <1>0, <2>1, <2>4 DEF Sends, CallFine, TypeOK
  <2> QED
    BY <2>3, <2>4
<1>3. ASSUME NEW c \in Calls, BridgeProvisions(c)
      PROVE  CallFine(x)'
  <2>1. call[c].op = "create" /\ call[c].scope \in Bots /\ c \in Creates
    BY <1>3, PluginAssumption DEF CallOK, BridgeProvisions
  <2>2. container'[call[c].scope] # None
    BY <1>0, <1>3, <2>1, PluginAssumption DEF BridgeProvisions, Provision, TypeOK, BridgeTypeOK
  <2>3. CASE x = c
    BY <1>0, <1>3, <2>1, <2>2, <2>3 DEF BridgeProvisions, BridgeSteps, CallFine, TypeOK
  <2>4. CASE x # c
    BY <1>0, <1>3, <2>4 DEF BridgeProvisions, BridgeSteps, CallFine, TypeOK
  <2> QED
    BY <2>3, <2>4
<1>4. ASSUME NEW c \in Calls,
             BridgeIssues(c) \/ BridgeAdmits(c) \/ BridgeDestroys(c) \/ BridgeFails(c)
      PROVE  CallFine(x)'
  <2>1. call' = call
    BY <1>4 DEF BridgeIssues, BridgeAdmits, BridgeDestroys, BridgeFails
  <2>2. CASE x # c
    <3>1. phase'[x] = phase[x]
      BY <1>0, <1>4, <2>2
         DEF BridgeIssues, BridgeAdmits, BridgeDestroys, BridgeFails, BridgeSteps, TypeOK
    <3> QED
      BY <1>0, <2>1, <3>1 DEF CallFine
  <2>3. CASE x = c
    <3>1. CASE BridgeIssues(c)
      BY <1>0, <2>1, <2>3, <3>1 DEF BridgeIssues, BridgeSteps, CallFine, TypeOK
    <3>2. CASE BridgeAdmits(c)
      BY <1>0, <2>1, <2>3, <3>2 DEF BridgeAdmits, BridgeSteps, CallFine, TypeOK
    <3>3. CASE BridgeDestroys(c)
      BY <1>0, <2>1, <2>3, <3>3 DEF BridgeDestroys, BridgeSteps, CallFine, TypeOK
    <3>4. CASE BridgeFails(c)
      BY <1>0, <2>1, <2>3, <3>4 DEF BridgeFails, BridgeSteps, CallFine, TypeOK
    <3> QED
      BY <1>4, <3>1, <3>2, <3>3, <3>4
  <2> QED
    BY <2>2, <2>3
<1>5. ASSUME NEW c \in Calls, Returns(c)
      PROVE  CallFine(x)'
  <2>1. CASE x # c
    BY <1>0, <1>5, <2>1 DEF Returns, CallFine, TypeOK
  <2>2. CASE x = c
    BY <1>0, <1>5, <2>2, PluginAssumption DEF Returns, CallFine, TypeOK, NoCall
  <2> QED
    BY <2>1, <2>2
<1>6. CASE BridgeRestarts
  BY <1>0, <1>6 DEF BridgeRestarts, CallFine
<1> QED
  BY <1>1, <1>2, <1>3, <1>4, <1>5, <1>6, CallsChange

-----------------------------------------------------------------------------
(* Who made what.                                                           *)

\* A create's scope is never revised.
LEMMA MadeStays ==
  ASSUME TypeOK, CallOK, [Next]_vars, NEW id, NEW b, Made(id, b)
  PROVE  Made(id, b)'
<1>0. TypeOK /\ CallOK /\ id \in Calls /\ call[id].op = "create" /\ call[id].scope = b
  BY DEF Made
<1>1. CASE UNCHANGED <<call, phase>>
  BY <1>0, <1>1 DEF Made
<1>2. ASSUME NEW c \in Calls, NEW s \in Sessions,
             Create(c, s) \/ \E x \in Creates : Use(c, s, x) \/ Destroy(c, s, x)
      PROVE  Made(id, b)'
  <2>1. PICK op, x, k : Sends(c, s, op, ScopeOf(s), x, k)
    BY <1>2, ToolSends
  <2>2. c # id
    BY <1>0, <2>1, PluginAssumption DEF Sends, CallOK, NoCall
  <2> QED
    BY <1>0, <2>1, <2>2 DEF Sends, Made, TypeOK
<1>3. ASSUME NEW c \in Calls, BridgeProvisions(c)
      PROVE  Made(id, b)'
  BY <1>0, <1>3 DEF BridgeProvisions, Made, TypeOK
<1>4. ASSUME NEW c \in Calls,
             BridgeIssues(c) \/ BridgeAdmits(c) \/ BridgeDestroys(c) \/ BridgeFails(c)
      PROVE  Made(id, b)'
  BY <1>0, <1>4 DEF BridgeIssues, BridgeAdmits, BridgeDestroys, BridgeFails, Made
<1>5. ASSUME NEW c \in Calls, Returns(c)
      PROVE  Made(id, b)'
  BY <1>0, <1>5 DEF Returns, Made, TypeOK
<1>6. CASE BridgeRestarts
  BY <1>0, <1>6 DEF BridgeRestarts, Made
<1> QED
  BY <1>1, <1>2, <1>3, <1>4, <1>5, <1>6, CallsChange

\* How a container comes and goes.
LEMMA ContainersChange ==
  ASSUME TypeOK, [Next]_vars
  PROVE  \/ UNCHANGED container
         \/ \E c \in Calls : /\ call[c].op = "create"
                             /\ \/ BridgeProvisions(c)
                                \/ BridgeFails(c) /\ ProvisionLate(call[c].scope, c)
         \/ \E c \in Calls : BridgeDestroys(c)
         \/ \E d \in deletes["admitted"] : BridgeDeletes(d)
<1>1. \A c \in Calls, s \in Sessions :
        Create(c, s) \/ (\E id \in Creates : Use(c, s, id) \/ Destroy(c, s, id)) => UNCHANGED container
  BY DEF Create, Use, Destroy, Sends, bridge
<1>2. \A c \in Calls :
        BridgeIssues(c) \/ BridgeAdmits(c) \/ Returns(c) \/ CallFails(c) => UNCHANGED container
  BY DEF BridgeIssues, Issue, BridgeAdmits, Returns, CallFails, bridge
<1>3. \A s \in Sessions : AgentOpens(s) \/ AgentDisposed(s) \/ StoreLearns(s) \/ StoreForgets(s) => UNCHANGED container
  BY DEF AgentOpens, AgentDisposed, StoreLearns, StoreForgets, bridge
<1>4. \A d : BridgeAdmitsDelete(d) \/ DeleteFails(d) => UNCHANGED container
  BY DEF BridgeAdmitsDelete, DeleteFails, bridge
<1>5. \A b \in unload : UnloadReleases(b) => UNCHANGED container
  BY DEF UnloadReleases, bridge
<1>6. Load \/ Unload \/ PruneReadsSessions \/ PruneReadsList => UNCHANGED container
  BY DEF Load, Unload, PruneReadsSessions, PruneReadsList, bridge
<1>7. HarnessDies \/ BridgeRestarts \/ UNCHANGED vars => UNCHANGED container
  BY DEF HarnessDies, BridgeRestarts, Forget, vars, bridge
<1>8. \A c \in Calls : BridgeProvisions(c) => call[c].op = "create"
  BY DEF BridgeProvisions
<1>9. \A c \in Calls : BridgeFails(c) =>
        \/ UNCHANGED container
        \/ call[c].op = "create" /\ ProvisionLate(call[c].scope, c)
  BY DEF BridgeFails, GiveUp, bridge
<1>10. \A d : BridgeDeletes(d) => d \in deletes["admitted"]
  BY DEF BridgeDeletes
<1> QED
  BY <1>1, <1>2, <1>3, <1>4, <1>5, <1>6, <1>7, <1>8, <1>9, <1>10 DEF Next, Steps

\* The creates that have provisioned and not been answered: each holds the lock
\* of its bot.
Locked == {c \in Calls : phase[c] = "provisioned"}

\* What a call's create does at the bridge.
BridgeMove(c) ==
  \/ Provision(call[c].scope, c, c) /\ Locked' = Locked \cup {c}
  \/ /\ c \in Locked /\ Locked' = Locked \ {c}
     /\ Issue(call[c].scope) \/ GiveUp(call[c].scope)
  \/ ProvisionLate(call[c].scope, c) /\ Locked' = Locked

LEMMA BridgeMoves ==
  ASSUME TypeOK, CallOK, [Steps]_vars
  PROVE  \/ UNCHANGED bridge /\ Locked' = Locked
         \/ \E c \in Calls : call[c].op = "create" /\ call[c].scope \in Bots /\ BridgeMove(c)
         \/ \E id : Delete(id) /\ Locked' = Locked
<1>1. ASSUME NEW c \in Calls, NEW from, NEW to, from # "provisioned", to # "provisioned",
             phase[c] = from, phase' = [phase EXCEPT ![c] = to]
      PROVE  Locked' = Locked
  BY <1>1 DEF TypeOK, Locked
<1>2. phase' = phase => Locked' = Locked
  BY DEF Locked
<1>3. ASSUME NEW c \in Calls, call[c].op = "create"
      PROVE  call[c].scope \in Bots
  BY <1>3, PluginAssumption DEF CallOK
<1>4. ASSUME NEW c \in Calls, BridgeProvisions(c)
      PROVE  call[c].op = "create" /\ BridgeMove(c)
  BY <1>4 DEF BridgeProvisions, BridgeSteps, BridgeMove, TypeOK, Locked
<1>5. ASSUME NEW c \in Calls, NEW to, to # "provisioned", BridgeSteps(c, "provisioned", to),
             Issue(call[c].scope) \/ GiveUp(call[c].scope)
      PROVE  call[c].op = "create" /\ BridgeMove(c)
  BY <1>5 DEF BridgeSteps, BridgeMove, CallOK, TypeOK, Locked
<1>6. ASSUME NEW c \in Calls, BridgeIssues(c)
      PROVE  call[c].op = "create" /\ BridgeMove(c)
  BY <1>5, <1>6 DEF BridgeIssues
<1>7. ASSUME NEW c \in Calls, BridgeFails(c)
      PROVE  \/ UNCHANGED bridge /\ Locked' = Locked
             \/ call[c].op = "create" /\ BridgeMove(c)
  <2>1. CASE call[c].op = "create" /\ BridgeSteps(c, "sent", "refused")
    BY <1>1, <1>7, <2>1 DEF BridgeFails, BridgeSteps, BridgeMove
  <2>2. CASE BridgeSteps(c, "provisioned", "refused") /\ GiveUp(call[c].scope)
    BY <1>5, <2>2
  <2>3. CASE BridgeSteps(c, "admitted", "answered") /\ UNCHANGED bridge
    BY <1>1, <2>3 DEF BridgeSteps
  <2> QED
    BY <1>7, <2>1, <2>2, <2>3 DEF BridgeFails
<1>8. ASSUME NEW c \in Calls, BridgeAdmits(c)
      PROVE  UNCHANGED bridge /\ Locked' = Locked
  BY <1>1, <1>8 DEF BridgeAdmits, BridgeSteps
<1>9. ASSUME NEW c \in Calls, BridgeDestroys(c)
      PROVE  Delete(call[c].id) /\ Locked' = Locked
  BY <1>1, <1>9 DEF BridgeDestroys, BridgeSteps
<1>10. ASSUME NEW c \in Calls, Returns(c)
       PROVE  UNCHANGED bridge /\ Locked' = Locked
  BY <1>1, <1>10 DEF Returns
<1>11. ASSUME NEW c \in Calls, NEW s \in Sessions,
              Create(c, s) \/ \E x \in Creates : Use(c, s, x) \/ Destroy(c, s, x)
       PROVE  UNCHANGED bridge /\ Locked' = Locked
  BY <1>1, <1>11 DEF Create, Use, Destroy, Sends
<1>12. \A d : BridgeDeletes(d) => Delete(d.id) /\ phase' = phase
  BY DEF BridgeDeletes, calls
<1>13. \A d : BridgeAdmitsDelete(d) \/ DeleteFails(d) => UNCHANGED bridge /\ phase' = phase
  BY DEF BridgeAdmitsDelete, DeleteFails, calls
<1>14. \A c \in Calls : CallFails(c) => UNCHANGED bridge /\ phase' = phase
  BY DEF CallFails
<1>15. \A s \in Sessions : AgentOpens(s) \/ AgentDisposed(s) \/ StoreLearns(s) \/ StoreForgets(s) =>
         UNCHANGED bridge /\ phase' = phase
  BY DEF AgentOpens, AgentDisposed, StoreLearns, StoreForgets, calls
<1>16. \A b \in unload : UnloadReleases(b) => UNCHANGED bridge /\ phase' = phase
  BY DEF UnloadReleases, calls
<1>17. Load \/ Unload \/ PruneReadsSessions \/ PruneReadsList \/ UNCHANGED vars =>
         UNCHANGED bridge /\ phase' = phase
  BY DEF Load, Unload, PruneReadsSessions, PruneReadsList, vars, bridge, calls
<1> QED
  BY <1>2, <1>3, <1>4, <1>6, <1>7, <1>8, <1>9, <1>10, <1>11, <1>12, <1>13, <1>14, <1>15, <1>16,
     <1>17 DEF Steps

LEMMA BridgeForgets == TypeOK /\ BridgeRestarts => Forget /\ Locked' = {}
BY DEF BridgeRestarts, TypeOK, Locked

ContainersMade == \A b \in Bots : container[b] # None => Made(container[b], b)

LEMMA ContainersStep == PluginInv /\ [Next]_vars => ContainersMade'
<1> SUFFICES ASSUME PluginInv, [Next]_vars, NEW b \in Bots, NEW id,
                    container'[b] = id, id # None
             PROVE  Made(id, b)'
  BY DEF ContainersMade, Made
<1>0. TypeOK /\ CallOK /\ (container[b] = id => Made(id, b))
  BY DEF PluginInv, MadeOK
<1>1. CASE container[b] = id
  BY <1>0, <1>1, MadeStays
<1>2. ASSUME NEW c \in Calls, call[c].op = "create",
             BridgeProvisions(c) \/ ProvisionLate(call[c].scope, c)
      PROVE  container[b] = id \/ Made(id, b)
  <2>1. call[c].scope \in Bots
    BY <1>0, <1>2, PluginAssumption DEF CallOK
  <2> QED
    BY <1>0, <1>2, <2>1 DEF BridgeProvisions, Provision, ProvisionLate, Made, TypeOK, BridgeTypeOK
<1>3. \A x : Delete(x) => container[b] = id
  BY DEF Delete
<1>4. \A c \in Calls : BridgeDestroys(c) => container[b] = id
  BY <1>3 DEF BridgeDestroys
<1>5. \A d : BridgeDeletes(d) => container[b] = id
  BY <1>3 DEF BridgeDeletes
<1> QED
  BY <1>0, <1>1, <1>2, <1>4, <1>5, ContainersChange, MadeStays

OwnedMade == \A b \in Bots, id \in Creates : owned[b][id] # None => Made(id, b)

\* A step adds to what is held only the computer of a create that is answered.
LEMMA OwnedGrows ==
  ASSUME TypeOK, CallOK, [Next]_vars, NEW b \in Bots, NEW id \in Creates, owned'[b][id] # None
  PROVE  \/ owned[b][id] # None
         \/ \E c \in Calls : call[c].id = id /\ call[c].scope = b
<1>1. CASE UNCHANGED owned
  BY <1>1
<1>2. ASSUME NEW c \in Calls, Returns(c) \/ CallFails(c)
      PROVE  owned[b][id] # None \/ (call[c].id = id /\ call[c].scope = b)
  <2>1. owned' = owned \/ owned' = Handles(c, owned)
    BY <1>2 DEF Returns, CallFails
  <2> QED
    BY <2>1 DEF Handles, TypeOK
<1>3. ASSUME NEW scope, NEW principal, NEW by, ReleaseSession(scope, principal, by)
      PROVE  owned[b][id] # None
  BY <1>3 DEF ReleaseSession, TypeOK
<1>4. \A s \in Sessions : AgentDisposed(s) => UNCHANGED owned \/ owned[b][id] # None
  BY <1>3 DEF AgentDisposed
<1>5. \A x \in unload : UnloadReleases(x) => owned[b][id] # None
  BY <1>3 DEF UnloadReleases
<1>6. ~HarnessDies
  BY DEF HarnessDies
<1>7. \A c \in Calls, s \in Sessions :
        Create(c, s) \/ (\E x \in Creates : Use(c, s, x) \/ Destroy(c, s, x)) => UNCHANGED owned
  BY DEF Create, Use, Destroy, Sends
<1>8. \A c \in Calls :
        BridgeProvisions(c) \/ BridgeIssues(c) \/ BridgeAdmits(c) \/ BridgeDestroys(c)
          \/ BridgeFails(c) => UNCHANGED owned
  BY DEF BridgeProvisions, BridgeIssues, BridgeAdmits, BridgeDestroys, BridgeFails, BridgeSteps
<1>9. \A s \in Sessions : AgentOpens(s) \/ StoreLearns(s) \/ StoreForgets(s) => UNCHANGED owned
  BY DEF AgentOpens, StoreLearns, StoreForgets
<1>10. \A d : BridgeAdmitsDelete(d) \/ BridgeDeletes(d) \/ DeleteFails(d) => UNCHANGED owned
  BY DEF BridgeAdmitsDelete, BridgeDeletes, DeleteFails
<1>11. Load \/ Unload \/ PruneReadsSessions \/ PruneReadsList \/ BridgeRestarts \/ UNCHANGED vars
         => UNCHANGED owned
  BY DEF Load, Unload, PruneReadsSessions, PruneReadsList, BridgeRestarts, vars
<1> QED
  BY <1>1, <1>2, <1>4, <1>5, <1>6, <1>7, <1>8, <1>9, <1>10, <1>11 DEF Next, Steps

LEMMA OwnedStep == PluginInv /\ [Next]_vars => OwnedMade'
<1> SUFFICES ASSUME PluginInv, [Next]_vars, NEW b \in Bots, NEW id \in Creates,
                    owned'[b][id] # None
             PROVE  Made(id, b)'
  BY DEF OwnedMade, Made
<1>0. TypeOK /\ CallOK /\ MadeOK /\ id # None
  BY PluginAssumption DEF PluginInv
<1>1. Made(id, b)
  BY <1>0, OwnedGrows DEF MadeOK
<1> QED
  BY <1>0, <1>1, MadeStays

NamedMade == \A c \in Calls : call[c].id # None => Made(call[c].id, call[c].scope)

\* What a call names it named before, or its agent's scope holds, or the create
\* has just found at Rakazo.
LEMMA NamedGrows ==
  ASSUME TypeOK, CallOK, [Next]_vars, NEW x \in Calls, NEW id, NEW b,
         call'[x].id = id, id # None, call'[x].scope = b
  PROVE  \/ call[x].id = id /\ call[x].scope = b
         \/ b \in Bots /\ id \in Creates /\ owned[b][id] # None
         \/ b \in Bots /\ container'[b] = id
<1>1. CASE call'[x] = call[x]
  BY <1>1
<1>2. ASSUME NEW c \in Calls, NEW s \in Sessions,
             Create(c, s) \/ \E y \in Creates : Use(c, s, y) \/ Destroy(c, s, y)
      PROVE  call'[x] = call[x] \/ (b \in Bots /\ id \in Creates /\ owned[b][id] # None)
  <2>1. CASE Sends(c, s, "create", ScopeOf(s), None, None)
    BY <2>1 DEF Sends, TypeOK
  <2>2. ASSUME NEW op, NEW y \in Creates, NEW k, owned[ScopeOf(s)][y] # None,
               Sends(c, s, op, ScopeOf(s), y, k)
        PROVE  call'[x] = call[x] \/ (b \in Bots /\ id \in Creates /\ owned[b][id] # None)
    BY <2>2, ScopeOfType DEF Sends, TypeOK
  <2> QED
    BY <1>2, <2>1, <2>2, ToolSends
<1>3. ASSUME NEW c \in Calls, BridgeProvisions(c)
      PROVE  call'[x] = call[x] \/ (b \in Bots /\ container'[b] = id)
  BY <1>3, PluginAssumption DEF BridgeProvisions, TypeOK, CallOK
<1>4. \A c \in Calls : BridgeIssues(c) \/ BridgeAdmits(c) \/ BridgeDestroys(c) \/ BridgeFails(c) =>
        call'[x] = call[x]
  BY DEF BridgeIssues, BridgeAdmits, BridgeDestroys, BridgeFails
<1>5. \A c \in Calls : Returns(c) => call'[x] = call[x]
  BY DEF Returns, TypeOK, NoCall
<1>6. BridgeRestarts \/ UNCHANGED <<call, phase>> => call'[x] = call[x]
  BY DEF BridgeRestarts
<1> QED
  BY <1>1, <1>2, <1>3, <1>4, <1>5, <1>6, CallsChange

LEMMA NamedStep == PluginInv /\ [Next]_vars => NamedMade'
<1> SUFFICES ASSUME PluginInv, [Next]_vars, NEW x \in Calls, NEW id, NEW b,
                    call'[x].id = id, id # None, call'[x].scope = b
             PROVE  Made(id, b)'
  BY DEF NamedMade, Made
<1>0. TypeOK /\ CallOK /\ MadeOK
  BY DEF PluginInv
<1>1. CASE call[x].id = id /\ call[x].scope = b
  BY <1>0, <1>1, MadeStays DEF MadeOK
<1>2. CASE b \in Bots /\ id \in Creates /\ owned[b][id] # None
  BY <1>0, <1>2, MadeStays DEF MadeOK
<1>3. CASE b \in Bots /\ container'[b] = id
  BY <1>3, ContainersStep DEF ContainersMade, Made
<1> QED
  BY <1>0, <1>1, <1>2, <1>3, NamedGrows

-----------------------------------------------------------------------------
(* Who asks for a deletion.                                                 *)

Asked == deletes["sent"] \cup deletes["admitted"]

\* A release asks for what its scope holds, if the row lets it.
ReleaseAsks(d) ==
  /\ ~config.account /\ ~config.keep
  /\ d.by \in Sessions => d.id \in Creates /\ owned[d.by][d.id] # None

PruningAsks(d) == ~config.account /\ d.by = Pruning

LEMMA ReleaseAsksForItsOwn ==
  ASSUME TypeOK, NEW scope, NEW principal, NEW by,
         by \in Sessions /\ ~config.account /\ (~config.share \/ principal) => scope = by,
         ReleaseSession(scope, principal, by), NEW at \in {"sent", "admitted"},
         NEW d \in deletes'[at]
  PROVE  d \in Asked \/ ReleaseAsks(d)
<1>1. CASE UNCHANGED deletes
  BY <1>1 DEF Asked
<1>2. CASE ~config.account /\ (~config.share \/ principal)
  <2>1. Deletion(IF config.keep THEN {}
                 ELSE {[id |-> id, capability |-> owned[scope][id], by |-> by] :
                       id \in Held(scope)})
    BY <1>2 DEF ReleaseSession
  <2>2. \/ d \in Asked
        \/ /\ ~config.keep
           /\ \E id \in Held(scope) :
                d = [id |-> id, capability |-> owned[scope][id], by |-> by]
    BY <2>1 DEF Deletion, Asked, TypeOK
  <2> QED
    BY <1>2, <2>2 DEF ReleaseAsks, Held
<1> QED
  BY <1>1, <1>2 DEF ReleaseSession

LEMMA AskedGrows ==
  ASSUME PluginInv, [Next]_vars, NEW at \in {"sent", "admitted"}, NEW d \in deletes'[at]
  PROVE  d \in Asked \/ ReleaseAsks(d) \/ PruningAsks(d)
<1>0. TypeOK /\ DeletesOK
  BY DEF PluginInv
<1>1. CASE UNCHANGED deletes
  BY <1>1 DEF Asked
<1>2. ASSUME NEW s \in Sessions, AgentDisposed(s)
      PROVE  d \in Asked \/ ReleaseAsks(d)
  <2>1. CASE UNCHANGED deletes
    BY <2>1 DEF Asked
  <2>2. CASE ReleaseSession(ScopeOf(s), IsPrincipal(s, Parent, Inline, stored), s)
    <3>1. ~config.account /\ (~config.share \/ IsPrincipal(s, Parent, Inline, stored))
            => ScopeOf(s) = s
      BY <1>0, ReleasedScopeIsOwn
    <3> QED
      BY <1>0, <2>2, <3>1, ReleaseAsksForItsOwn
  <2> QED
    BY <1>2, <2>1, <2>2 DEF AgentDisposed
<1>3. ASSUME NEW b \in unload, UnloadReleases(b)
      PROVE  d \in Asked \/ ReleaseAsks(d)
  <2>1. Unloading \notin Sessions
    BY TagsAreNoValues
  <2>2. ReleaseSession(b, FALSE, Unloading)
    BY <1>3 DEF UnloadReleases
  <2> QED
    BY <1>0, <2>1, <2>2, ReleaseAsksForItsOwn
<1>4. ASSUME NEW x, BridgeAdmitsDelete(x) \/ BridgeDeletes(x) \/ DeleteFails(x)
      PROVE  d \in Asked
  BY <1>0, <1>4 DEF BridgeAdmitsDelete, BridgeDeletes, DeleteFails, Asked, TypeOK
<1>5. CASE PruneReadsList
  <2>1. ~config.account
    BY <1>0, <1>5 DEF PruneReadsList, DeletesOK
  <2>2. \/ d \in Asked
        \/ \E b \in Bots : d = [id |-> container[b], capability |-> Adopt, by |-> Pruning]
    BY <1>0, <1>5 DEF PruneReadsList, Deletion, Asked, TypeOK
  <2> QED
    BY <2>1, <2>2 DEF PruningAsks
<1>6. \A c \in Calls, s \in Sessions :
        Create(c, s) \/ (\E x \in Creates : Use(c, s, x) \/ Destroy(c, s, x)) => UNCHANGED deletes
  BY DEF Create, Use, Destroy, Sends
<1>7. \A c \in Calls :
        BridgeProvisions(c) \/ BridgeIssues(c) \/ BridgeAdmits(c) \/ BridgeDestroys(c)
          \/ BridgeFails(c) => UNCHANGED deletes
  BY DEF BridgeProvisions, BridgeIssues, BridgeAdmits, BridgeDestroys, BridgeFails, BridgeSteps
<1>8. \A c \in Calls : Returns(c) \/ CallFails(c) => UNCHANGED deletes
  BY DEF Returns, CallFails
<1>9. \A s \in Sessions : AgentOpens(s) \/ StoreLearns(s) \/ StoreForgets(s) => UNCHANGED deletes
  BY DEF AgentOpens, StoreLearns, StoreForgets
<1>10. Load \/ Unload \/ PruneReadsSessions \/ HarnessDies \/ BridgeRestarts \/ UNCHANGED vars
         => UNCHANGED deletes
  BY DEF Load, Unload, PruneReadsSessions, HarnessDies, BridgeRestarts, vars
<1> QED
  BY <1>1, <1>2, <1>3, <1>4, <1>5, <1>6, <1>7, <1>8, <1>9, <1>10 DEF Next, Steps

\* The row config is set for good.
LEMMA ConfigStays == ASSUME [Next]_vars PROVE config' = config
<1>1. \A c \in Calls, s \in Sessions :
        Create(c, s) \/ (\E x \in Creates : Use(c, s, x) \/ Destroy(c, s, x)) => config' = config
  BY DEF Create, Use, Destroy, Sends, harness
<1>2. \A c \in Calls :
        BridgeProvisions(c) \/ BridgeIssues(c) \/ BridgeAdmits(c) \/ BridgeDestroys(c)
          \/ BridgeFails(c) => config' = config
  BY DEF BridgeProvisions, BridgeIssues, BridgeAdmits, BridgeDestroys, BridgeFails, BridgeSteps,
         harness
<1>3. \A c \in Calls : Returns(c) \/ CallFails(c) => config' = config
  BY DEF Returns, CallFails, harness
<1>4. \A s \in Sessions : AgentOpens(s) \/ AgentDisposed(s) \/ StoreLearns(s) \/ StoreForgets(s) => config' = config
  BY DEF AgentOpens, AgentDisposed, StoreLearns, StoreForgets
<1>5. \A d : BridgeAdmitsDelete(d) \/ BridgeDeletes(d) \/ DeleteFails(d) => config' = config
  BY DEF BridgeAdmitsDelete, BridgeDeletes, DeleteFails, harness
<1>6. \A b : UnloadReleases(b) => config' = config
  BY DEF UnloadReleases, harness
<1>7. Load \/ Unload \/ PruneReadsSessions \/ PruneReadsList \/ HarnessDies \/ BridgeRestarts
        \/ UNCHANGED vars => config' = config
  BY DEF Load, Unload, PruneReadsSessions, PruneReadsList, HarnessDies, BridgeRestarts, vars, harness
<1> QED
  BY <1>1, <1>2, <1>3, <1>4, <1>5, <1>6, <1>7 DEF Next, Steps

\* Pruning begins at a load, and not for an account.
LEMMA PruningBegins ==
  ASSUME PluginInv, [Next]_vars, config.account PROVE prune'.stage = "off"
<1>0. prune.stage = "off"
  BY DEF PluginInv, DeletesOK
<1>1. CASE UNCHANGED prune
  BY <1>0, <1>1
<1>2. Load \/ PruneReadsSessions \/ PruneReadsList \/ HarnessDies => prune'.stage = "off"
  BY <1>0 DEF Load, PruneReadsSessions, PruneReadsList, HarnessDies, Idle
<1>3. \A c \in Calls, s \in Sessions :
        Create(c, s) \/ (\E x \in Creates : Use(c, s, x) \/ Destroy(c, s, x)) => UNCHANGED prune
  BY DEF Create, Use, Destroy, Sends
<1>4. \A c \in Calls :
        BridgeProvisions(c) \/ BridgeIssues(c) \/ BridgeAdmits(c) \/ BridgeDestroys(c)
          \/ BridgeFails(c) => UNCHANGED prune
  BY DEF BridgeProvisions, BridgeIssues, BridgeAdmits, BridgeDestroys, BridgeFails, BridgeSteps
<1>5. \A c \in Calls : Returns(c) \/ CallFails(c) => UNCHANGED prune
  BY DEF Returns, CallFails
<1>6. \A s \in Sessions : AgentOpens(s) \/ AgentDisposed(s) \/ StoreLearns(s) \/ StoreForgets(s) => UNCHANGED prune
  BY DEF AgentOpens, AgentDisposed, StoreLearns, StoreForgets
<1>7. \A d : BridgeAdmitsDelete(d) \/ BridgeDeletes(d) \/ DeleteFails(d) => UNCHANGED prune
  BY DEF BridgeAdmitsDelete, BridgeDeletes, DeleteFails
<1>8. \A b : UnloadReleases(b) => UNCHANGED prune
  BY DEF UnloadReleases
<1>9. Unload \/ BridgeRestarts \/ UNCHANGED vars => UNCHANGED prune
  BY DEF Unload, BridgeRestarts, vars
<1> QED
  BY <1>1, <1>2, <1>3, <1>4, <1>5, <1>6, <1>7, <1>8, <1>9 DEF Next, Steps

LEMMA DeletesStep == PluginInv /\ [Next]_vars => DeletesOK'
<1> SUFFICES ASSUME PluginInv, [Next]_vars PROVE DeletesOK'
  OBVIOUS
<1>1. config' = config
  BY ConfigStays
<1>2. config.account => prune'.stage = "off"
  BY PruningBegins
<1>3. ASSUME NEW at \in {"sent", "admitted"}, NEW d \in deletes'[at]
      PROVE  ~config.account /\ (config.keep => d.by = Pruning)
  <2>1. d \in Asked \/ ReleaseAsks(d) \/ PruningAsks(d)
    BY <1>3, AskedGrows
  <2> QED
    BY <2>1 DEF PluginInv, DeletesOK, Asked, ReleaseAsks, PruningAsks
<1> QED
  BY <1>1, <1>2, <1>3 DEF DeletesOK

LEMMA MadeStep == PluginInv /\ [Next]_vars => MadeOK'
<1> SUFFICES ASSUME PluginInv, [Next]_vars PROVE MadeOK'
  OBVIOUS
<1>1. ContainersMade' /\ OwnedMade' /\ NamedMade'
  BY ContainersStep, OwnedStep, NamedStep
<1>2. ASSUME NEW at \in {"sent", "admitted"}, NEW d \in deletes'[at], d.by \in Sessions
      PROVE  Made(d.id, d.by)'
  <2>1. Pruning \notin Sessions /\ Sessions \subseteq Bots
    BY TagsAreNoValues, PluginAssumption
  <2>2. d \in Asked \/ ReleaseAsks(d)
    BY <1>2, <2>1, AskedGrows DEF PruningAsks
  <2>3. Made(d.id, d.by)
    BY <1>2, <2>1, <2>2 DEF PluginInv, MadeOK, Asked, ReleaseAsks
  <2> QED
    BY <2>3, MadeStays DEF PluginInv
<1> QED
  BY <1>1, <1>2 DEF MadeOK, ContainersMade, OwnedMade, NamedMade

LEMMA PluginInvariant == Spec => []PluginInv
<1>1. PluginInv /\ [Next]_vars => PluginInv'
  BY TypeStep, CallStep, MadeStep, DeletesStep DEF PluginInv
<1> QED
  BY <1>1, PluginInit, PTL DEF Spec

-----------------------------------------------------------------------------
(* What the plugin promises.                                                *)

\* The plugin's state, the bridge's and the requests between them keep their
\* types: a create that has provisioned always has a container to hand out.
THEOREM PluginTypeCorrect == Spec => []TypeOK
<1>1. PluginInv => TypeOK
  BY DEF PluginInv
<1> QED
  BY <1>1, PluginInvariant, PTL

\* A call on a computer comes from the scope its create was made for, whatever
\* the lineages, the row config and the order of releases, resumptions, reloads
\* and crashes (capabilityFor and create of plugin/index.js).
THEOREM CallerCorrect == Spec => []CallerReachesOwnScope
<1>1. PluginInv => CallerReachesOwnScope
  BY DEF PluginInv, CallOK, MadeOK, Made, CallerReachesOwnScope
<1> QED
  BY <1>1, PluginInvariant, PTL

\* What a session's end asks to delete was made for that session's own scope
\* (releaseSession and the disposed handler of plugin/index.js).
THEOREM ExitCorrect == Spec => []ExitDeletesOwnComputerOnly
<1>1. PluginInv => ExitDeletesOwnComputerOnly
  <2> SUFFICES ASSUME PluginInv PROVE ExitDeletesOwnComputerOnly
    OBVIOUS
  <2>1. DOMAIN deletes = {"sent", "admitted"}
    BY DEF PluginInv, TypeOK
  <2> QED
    BY <2>1 DEF PluginInv, MadeOK, Made, ExitDeletesOwnComputerOnly
<1> QED
  BY <1>1, PluginInvariant, PTL

\* Open sessions that hold a computer in common have screens of their own on it,
\* but for the principal and for agents without a session id, whatever the store
\* knows of their lineage (screenIdFor and scopeKeyOf of plugin/index.js).
THEOREM ScreensCorrect == Spec => []ScreensAreDistinct
<1>1. PluginInv => ScreensAreDistinct
  <2> SUFFICES ASSUME PluginInv, NEW s \in Sessions, NEW t \in Sessions, s # t,
                      Held(ScopeOf(s)) \cap Held(ScopeOf(t)) # {},
                      ScreenIdFor(s, ScopeOf(s)) = ScreenIdFor(t, ScopeOf(t))
               PROVE  \A u \in {s, t} : u \in Bare \/ u = ScopeOf(u)
    BY DEF ScreensAreDistinct
  <2>1. TypeOK /\ MadeOK
    BY DEF PluginInv
  <2>2. ScopeOf(s) \in Bots /\ ScopeOf(t) \in Bots
    BY <2>1, ScopeOfType
  <2>3. PICK id \in Creates : owned[ScopeOf(s)][id] # None /\ owned[ScopeOf(t)][id] # None
    BY DEF Held
  <2>4. ScopeOf(s) = ScopeOf(t)
    BY <2>1, <2>2, <2>3 DEF MadeOK, Made
  <2> QED
    BY <2>1, <2>4, ScreensDiffer
<1> QED
  BY <1>1, PluginInvariant, PTL

\* No release, unload or left-over delete ends an account's computer or a kept one:
\* the former ends by a destroy somebody asked for, the latter also by pruning
\* (releaseSession and pruneAbandoned).
THEOREM PersistentCorrect == Spec => ReleasesSparePersistentComputers
<1> DEFINE Ends(b) ==
      container[b] # None /\ container'[b] # container[b] =>
        /\ config.account => EndedByRequest(b)
        /\ config.keep => EndedByRequest(b) \/ EndedByPruning(b)
<1>1. ASSUME PluginInv, [Next]_vars, NEW b \in Bots
      PROVE  Ends(b)
  <2> SUFFICES ASSUME container[b] # None, container'[b] # container[b]
               PROVE  /\ config.account => EndedByRequest(b)
                      /\ config.keep => EndedByRequest(b) \/ EndedByPruning(b)
    OBVIOUS
  <2>0. TypeOK /\ CallOK /\ DeletesOK
    BY <1>1 DEF PluginInv
  <2>1. \A c \in Calls : ~ProvisionLate(call[c].scope, c) /\ ~BridgeProvisions(c)
    BY <2>0 DEF ProvisionLate, BridgeProvisions, Provision, TypeOK, BridgeTypeOK
  <2>2. \A x : Delete(x) => x = container[b]
    BY DEF Delete
  <2>3. ASSUME NEW c \in Calls, BridgeDestroys(c)
        PROVE  EndedByRequest(b)
    BY <2>0, <2>2, <2>3 DEF BridgeDestroys, BridgeSteps, CallOK, EndedByRequest
  <2>4. ASSUME NEW d \in deletes["admitted"], BridgeDeletes(d)
        PROVE  ~config.account /\ (config.keep => EndedByPruning(b))
    BY <2>0, <2>2, <2>4 DEF BridgeDeletes, DeletesOK, EndedByPruning
  <2> QED
    BY <1>1, <2>0, <2>1, <2>3, <2>4, ContainersChange
<1>2. PluginInv /\ [Next]_vars => [\A b \in Bots : Ends(b)]_vars
  BY <1>1
<1> HIDE DEF Ends
<1> QED
  BY <1>2, PluginInvariant, PTL DEF Spec, ReleasesSparePersistentComputers, Ends
=============================================================================
