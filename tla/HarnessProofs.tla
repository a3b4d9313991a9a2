---------------------------- MODULE HarnessProofs ----------------------------
(***************************************************************************)
(* The plugin and the providers over one bridge: a computer is made for    *)
(* one identity, whichever of the two creates it, and no call of either    *)
(* ever leaves its own; for every set of sessions, lineages, callers and   *)
(* row configs.                                                            *)
(*                                                                         *)
(* What RakazoPluginProofs and ProvidersProofs prove of one component's    *)
(* step is used here by INSTANCE.  Neither invariant survives a step of    *)
(* the other component as it stands: the plugin's says that the plugin     *)
(* made every container, and the providers' that the bridge's locks are    *)
(* theirs.                                                                 *)
(***************************************************************************)
EXTENDS Harness, TLAPS

PluginP == INSTANCE RakazoPluginProofs WITH
  Calls <- ToolCalls, RowConfigs <- {RowConfig},
  call <- toolCall, phase <- toolPhase, dropped <- toolDropped

NativeP == INSTANCE ProvidersProofs WITH
  Calls <- NativeCalls, Lineages <- [Sessions -> Sessions \cup {None}],
  lineage <- [s \in Sessions |-> IF s \in stored THEN Parent[s] ELSE None],
  call <- nativeCall, phase <- nativePhase, dropped <- nativeDropped

View == INSTANCE BridgeView WITH Containers <- Creates, Capabilities <- Creates

-----------------------------------------------------------------------------
(* The instances that carry the lemmas are the ones that Harness composes.  *)

LEMMA PluginAssumptions ==
  PluginP!ScopeAssumption /\ PluginP!PluginAssumption /\ PluginP!TagsAreNoValues
BY HarnessAssumption DEF PluginP!Configs, Creates

LEMMA NativeAssumptions == NativeP!ScopeAssumption /\ NativeP!ProvidersAssumption
BY HarnessAssumption DEF NativeP!Configs, Creates

LEMMA SamePluginState ==
  /\ Plugin!TypeOK <=> PluginP!TypeOK
  /\ Plugin!Init <=> PluginP!Init
<1>1. Plugin!TypeOK <=> PluginP!TypeOK
  BY DEF Plugin!TypeOK, PluginP!TypeOK, Plugin!BridgeTypeOK, PluginP!BridgeTypeOK,
         Plugin!Deletes, PluginP!Deletes
<1>2. Plugin!Init <=> PluginP!Init
  BY DEF Plugin!Init, PluginP!Init, Plugin!BridgeInit, PluginP!BridgeInit, Plugin!NoCreate,
         PluginP!NoCreate, Plugin!NoCall, PluginP!NoCall, Plugin!Idle, PluginP!Idle
<1> QED
  BY <1>1, <1>2

LEMMA SamePluginCalls ==
  ASSUME NEW c, NEW s
  PROVE  /\ Plugin!Create(c, s) <=> PluginP!Create(c, s)
         /\ \A id : Plugin!Use(c, s, id) <=> PluginP!Use(c, s, id)
         /\ \A id : Plugin!Destroy(c, s, id) <=> PluginP!Destroy(c, s, id)
<1>1. Plugin!ScopeOf(s) = PluginP!ScopeOf(s)
  BY DEF Plugin!ScopeOf, PluginP!ScopeOf, Plugin!ScopeKeyOf, PluginP!ScopeKeyOf,
         Plugin!KnownParent, PluginP!KnownParent
<1>2. \A op, scope, id, k : Plugin!Sends(c, s, op, scope, id, k) <=> PluginP!Sends(c, s, op, scope, id, k)
  BY DEF Plugin!Sends, PluginP!Sends, Plugin!bridge, PluginP!bridge, Plugin!harness, PluginP!harness
<1>3. \A scope, id : Plugin!Holders(scope, id) = PluginP!Holders(scope, id)
  BY DEF Plugin!Holders, PluginP!Holders
<1> QED
  BY <1>1, <1>2, <1>3
     DEF Plugin!Create, PluginP!Create, Plugin!Use, PluginP!Use, Plugin!Destroy, PluginP!Destroy

LEMMA SamePluginAtBridge ==
  ASSUME NEW c
  PROVE  /\ Plugin!BridgeProvisions(c) <=> PluginP!BridgeProvisions(c)
         /\ Plugin!BridgeIssues(c) <=> PluginP!BridgeIssues(c)
         /\ Plugin!BridgeAdmits(c) <=> PluginP!BridgeAdmits(c)
         /\ Plugin!BridgeDestroys(c) <=> PluginP!BridgeDestroys(c)
         /\ Plugin!BridgeFails(c) <=> PluginP!BridgeFails(c)
         /\ Plugin!Returns(c) <=> PluginP!Returns(c)
         /\ Plugin!CallFails(c) <=> PluginP!CallFails(c)
<1>1. \A from, to : Plugin!BridgeSteps(c, from, to) <=> PluginP!BridgeSteps(c, from, to)
  BY DEF Plugin!BridgeSteps, PluginP!BridgeSteps, Plugin!harness, PluginP!harness
<1>2. \A id : Plugin!Alive(id) <=> PluginP!Alive(id)
  BY DEF Plugin!Alive, PluginP!Alive
<1>3. \A b, new, k : Plugin!Provision(b, new, k) <=> PluginP!Provision(b, new, k)
  BY <1>2 DEF Plugin!Provision, PluginP!Provision, Plugin!NoCreate, PluginP!NoCreate
<1>4. \A b, new : Plugin!ProvisionLate(b, new) <=> PluginP!ProvisionLate(b, new)
  BY <1>2 DEF Plugin!ProvisionLate, PluginP!ProvisionLate
<1>5. \A b : Plugin!Issue(b) <=> PluginP!Issue(b)
  BY DEF Plugin!Issue, PluginP!Issue, Plugin!NoCreate, PluginP!NoCreate
<1>6. \A b : Plugin!GiveUp(b) <=> PluginP!GiveUp(b)
  BY DEF Plugin!GiveUp, PluginP!GiveUp, Plugin!NoCreate, PluginP!NoCreate
<1>7. \A id, k : Plugin!Accepts(id, k) <=> PluginP!Accepts(id, k)
  BY DEF Plugin!Accepts, PluginP!Accepts
<1>8. \A id : Plugin!Delete(id) <=> PluginP!Delete(id)
  BY DEF Plugin!Delete, PluginP!Delete
<1>9. \A owner : Plugin!Handles(c, owner) = PluginP!Handles(c, owner)
  BY DEF Plugin!Handles, PluginP!Handles
<1>10. Plugin!BridgeProvisions(c) <=> PluginP!BridgeProvisions(c)
  BY <1>1, <1>3 DEF Plugin!BridgeProvisions, PluginP!BridgeProvisions
<1>11. Plugin!BridgeIssues(c) <=> PluginP!BridgeIssues(c)
  BY <1>1, <1>5 DEF Plugin!BridgeIssues, PluginP!BridgeIssues
<1>12. Plugin!BridgeAdmits(c) <=> PluginP!BridgeAdmits(c)
  BY <1>1, <1>7 DEF Plugin!BridgeAdmits, PluginP!BridgeAdmits, Plugin!bridge, PluginP!bridge
<1>13. Plugin!BridgeDestroys(c) <=> PluginP!BridgeDestroys(c)
  BY <1>1, <1>8 DEF Plugin!BridgeDestroys, PluginP!BridgeDestroys
<1>14. Plugin!BridgeFails(c) <=> PluginP!BridgeFails(c)
  BY <1>1, <1>4, <1>6 DEF Plugin!BridgeFails, PluginP!BridgeFails, Plugin!bridge, PluginP!bridge
<1>15. Plugin!Returns(c) <=> PluginP!Returns(c)
  BY <1>9 DEF Plugin!Returns, PluginP!Returns, Plugin!bridge, PluginP!bridge, Plugin!harness,
              PluginP!harness, Plugin!NoCall, PluginP!NoCall
<1>16. Plugin!CallFails(c) <=> PluginP!CallFails(c)
  BY <1>9 DEF Plugin!CallFails, PluginP!CallFails, Plugin!bridge, PluginP!bridge,
              Plugin!harness, PluginP!harness
<1> QED
  BY <1>10, <1>11, <1>12, <1>13, <1>14, <1>15, <1>16

LEMMA SamePluginReleases ==
  /\ \A s : Plugin!AgentOpens(s) <=> PluginP!AgentOpens(s)
  /\ \A s : Plugin!AgentDisposed(s) <=> PluginP!AgentDisposed(s)
  /\ \A s : Plugin!StoreLearns(s) <=> PluginP!StoreLearns(s)
  /\ \A s : Plugin!StoreForgets(s) <=> PluginP!StoreForgets(s)
  /\ \A d : Plugin!BridgeAdmitsDelete(d) <=> PluginP!BridgeAdmitsDelete(d)
  /\ \A d : Plugin!BridgeDeletes(d) <=> PluginP!BridgeDeletes(d)
  /\ \A d : Plugin!DeleteFails(d) <=> PluginP!DeleteFails(d)
  /\ \A b : Plugin!UnloadReleases(b) <=> PluginP!UnloadReleases(b)
<1> USE DEF Plugin!bridge, PluginP!bridge, Plugin!harness, PluginP!harness, Plugin!calls,
            PluginP!calls
<1>1. ASSUME NEW scope, NEW principal, NEW by
      PROVE  Plugin!ReleaseSession(scope, principal, by) <=> PluginP!ReleaseSession(scope, principal, by)
  BY DEF Plugin!ReleaseSession, PluginP!ReleaseSession, Plugin!Deletion, PluginP!Deletion,
         Plugin!Held, PluginP!Held
<1>2. ASSUME NEW s PROVE Plugin!AgentDisposed(s) <=> PluginP!AgentDisposed(s)
  <2>1. Plugin!ReleaseSession(Plugin!ScopeOf(s), Plugin!IsPrincipal(s, Parent, Inline, stored), s)
          <=> PluginP!ReleaseSession(PluginP!ScopeOf(s),
                                     PluginP!IsPrincipal(s, Parent, Inline, stored), s)
    BY DEF Plugin!ReleaseSession, PluginP!ReleaseSession, Plugin!Deletion, PluginP!Deletion,
         Plugin!Held, PluginP!Held, Plugin!IsPrincipal, PluginP!IsPrincipal, Plugin!ScopeOf,
         PluginP!ScopeOf, Plugin!ScopeKeyOf, PluginP!ScopeKeyOf,
         Plugin!KnownParent, PluginP!KnownParent
  <2> QED
    BY <2>1 DEF Plugin!AgentDisposed, PluginP!AgentDisposed
<1>3. \A s : Plugin!AgentOpens(s) <=> PluginP!AgentOpens(s)
  BY DEF Plugin!AgentOpens, PluginP!AgentOpens
<1>4. /\ \A s : Plugin!StoreForgets(s) <=> PluginP!StoreForgets(s)
      /\ \A s : Plugin!StoreLearns(s) <=> PluginP!StoreLearns(s)
  BY DEF Plugin!StoreForgets, PluginP!StoreForgets, Plugin!StoreLearns, PluginP!StoreLearns
<1>5. \A d : Plugin!BridgeAdmitsDelete(d) <=> PluginP!BridgeAdmitsDelete(d)
  BY DEF Plugin!BridgeAdmitsDelete, PluginP!BridgeAdmitsDelete, Plugin!AdmitsDelete,
         PluginP!AdmitsDelete, Plugin!Accepts, PluginP!Accepts
<1>6. \A d : Plugin!BridgeDeletes(d) <=> PluginP!BridgeDeletes(d)
  BY DEF Plugin!BridgeDeletes, PluginP!BridgeDeletes, Plugin!Delete, PluginP!Delete
<1>7. \A d : Plugin!DeleteFails(d) <=> PluginP!DeleteFails(d)
  BY DEF Plugin!DeleteFails, PluginP!DeleteFails
<1>8. \A b : Plugin!UnloadReleases(b) <=> PluginP!UnloadReleases(b)
  BY <1>1 DEF Plugin!UnloadReleases, PluginP!UnloadReleases
<1> QED
  BY <1>2, <1>3, <1>4, <1>5, <1>6, <1>7, <1>8

LEMMA SamePluginSteps ==
  /\ Plugin!Steps <=> PluginP!Steps
  /\ Plugin!BridgeRestarts <=> PluginP!BridgeRestarts
<1> USE DEF Plugin!bridge, PluginP!bridge, Plugin!harness, PluginP!harness, Plugin!calls,
            PluginP!calls, Plugin!Idle, PluginP!Idle
<1>1. Plugin!Load <=> PluginP!Load
  BY DEF Plugin!Load, PluginP!Load
<1>2. Plugin!Unload <=> PluginP!Unload
  BY DEF Plugin!Unload, PluginP!Unload, Plugin!Held, PluginP!Held
<1>3. Plugin!PruneReadsSessions <=> PluginP!PruneReadsSessions
  BY DEF Plugin!PruneReadsSessions, PluginP!PruneReadsSessions
<1>4. Plugin!PruneReadsList <=> PluginP!PruneReadsList
  BY DEF Plugin!PruneReadsList, PluginP!PruneReadsList, Plugin!Deletion, PluginP!Deletion,
         Plugin!Listed, PluginP!Listed, Plugin!Alive, PluginP!Alive
<1>5. Plugin!BridgeRestarts <=> PluginP!BridgeRestarts
  BY DEF Plugin!BridgeRestarts, PluginP!BridgeRestarts, Plugin!Forget, PluginP!Forget,
         Plugin!NoCreate, PluginP!NoCreate
<1>6. Plugin!Steps <=> PluginP!Steps
  BY <1>1, <1>2, <1>3, <1>4, SamePluginCalls, SamePluginAtBridge, SamePluginReleases
     DEF Plugin!Steps, PluginP!Steps
<1> QED
  BY <1>5, <1>6

LEMMA SameNativeState ==
  /\ Native!TypeOK <=> NativeP!TypeOK
  /\ Native!Init <=> NativeP!Init
<1> USE DEF Native!NoRecord, NativeP!NoRecord
<1>1. Native!TypeOK <=> NativeP!TypeOK
  BY DEF Native!TypeOK, NativeP!TypeOK, Native!BridgeTypeOK, NativeP!BridgeTypeOK,
         Native!Records, NativeP!Records, Native!Phases, NativeP!Phases, Native!Outcomes,
         NativeP!Outcomes
<1>2. Native!Init <=> NativeP!Init
  BY DEF Native!Init, NativeP!Init, Native!BridgeInit, NativeP!BridgeInit, Native!NoCreate,
         NativeP!NoCreate, Native!NoCall, NativeP!NoCall
<1> QED
  BY <1>1, <1>2

LEMMA SameBotOf ==
  ASSUME NEW s, NEW policy
  PROVE  Native!BotOf(s, policy) = NativeP!BotOf(s, policy)
<1>1. ASSUME NEW t, NEW parent, NEW known
      PROVE  Native!Ancestor(t, parent, known) = NativeP!Ancestor(t, parent, known)
  BY DEF Native!Ancestor, NativeP!Ancestor, Native!Hop, NativeP!Hop, Native!KnownParent,
         NativeP!KnownParent
<1>2. ASSUME NEW t, NEW parent, NEW known
      PROVE  Native!ScopeKeyFor(t, parent, known) = NativeP!ScopeKeyFor(t, parent, known)
  BY <1>1 DEF Native!ScopeKeyFor, NativeP!ScopeKeyFor, Native!Min, NativeP!Min
<1> QED
  BY <1>2 DEF Native!BotOf, NativeP!BotOf

LEMMA SameEnsure ==
  ASSUME NEW c, NEW s, NEW policy
  PROVE  Native!Ensure(c, s, policy) <=> NativeP!Ensure(c, s, policy)
<1>1. Native!BotOf(s, policy) = NativeP!BotOf(s, policy)
  BY SameBotOf
<1>2. ASSUME NEW next, NEW on, NEW rec
      PROVE  Native!Begins(c, s, policy, next, on, rec) <=> NativeP!Begins(c, s, policy, next, on, rec)
  BY <1>1 DEF Native!Begins, NativeP!Begins, Native!bridge, NativeP!bridge
<1> QED
  BY <1>1, <1>2 DEF Native!Ensure, NativeP!Ensure, Native!NoRecord, NativeP!NoRecord

LEMMA SameNativeSteps ==
  /\ Native!Steps <=> NativeP!Steps
  /\ Native!BridgeRestarts <=> NativeP!BridgeRestarts
<1> USE DEF Native!bridge, NativeP!bridge, Native!cache, NativeP!cache, Native!NoCreate,
            NativeP!NoCreate
<1>1. \A c : Native!BridgeProvisions(c) <=> NativeP!BridgeProvisions(c)
  BY DEF Native!BridgeProvisions, NativeP!BridgeProvisions, Native!Provision,
         NativeP!Provision, Native!Alive, NativeP!Alive
<1>2. \A c : Native!BridgeIssues(c) <=> NativeP!BridgeIssues(c)
  BY DEF Native!BridgeIssues, NativeP!BridgeIssues, Native!Issue, NativeP!Issue
<1>3. \A c : Native!BridgeFails(c) <=> NativeP!BridgeFails(c)
  BY DEF Native!BridgeFails, NativeP!BridgeFails, Native!ProvisionLate,
         NativeP!ProvisionLate, Native!GiveUp, NativeP!GiveUp, Native!Alive, NativeP!Alive
<1>4. \A c : Native!CreateReturns(c) <=> NativeP!CreateReturns(c)
  BY DEF Native!CreateReturns, NativeP!CreateReturns
<1>5. \A c : Native!CreateFails(c) <=> NativeP!CreateFails(c)
  BY DEF Native!CreateFails, NativeP!CreateFails
<1>6. \A c : Native!Resume(c) <=> NativeP!Resume(c)
  BY DEF Native!Resume, NativeP!Resume, Native!Kept, NativeP!Kept
<1>7. \A c : Native!Sends(c) <=> NativeP!Sends(c)
  BY DEF Native!Sends, NativeP!Sends
<1>8. \A c : Native!BridgeServes(c) <=> NativeP!BridgeServes(c)
  BY DEF Native!BridgeServes, NativeP!BridgeServes, Native!Accepts, NativeP!Accepts,
         Native!Alive, NativeP!Alive
<1>9. \A c : Native!Returns(c) <=> NativeP!Returns(c)
  BY DEF Native!Returns, NativeP!Returns
<1>10. \A c : Native!CallFails(c) <=> NativeP!CallFails(c)
  BY DEF Native!CallFails, NativeP!CallFails, Native!Ends, NativeP!Ends
<1>11. \A c : Native!Aborts(c) <=> NativeP!Aborts(c)
  BY DEF Native!Aborts, NativeP!Aborts, Native!Ends, NativeP!Ends
<1>12. Native!BridgeRestarts <=> NativeP!BridgeRestarts
  BY DEF Native!BridgeRestarts, NativeP!BridgeRestarts, Native!Forget, NativeP!Forget
<1>13. Native!Steps <=> NativeP!Steps
  BY <1>1, <1>2, <1>3, <1>4, <1>5, <1>6, <1>7, <1>8, <1>9, <1>10, <1>11, SameEnsure
     DEF Native!Steps, NativeP!Steps
<1> QED
  BY <1>12, <1>13

\* A step of the harness is one of the plugin, one of the providers, or the
\* bridge's end.
LEMMA HarnessSteps ==
  ASSUME [Next]_vars
  PROVE  \/ [PluginP!Steps]_(PluginP!vars) /\ UNCHANGED native
         \/ [NativeP!Steps]_(NativeP!vars) /\ UNCHANGED plugin
         \/ PluginP!BridgeRestarts /\ NativeP!BridgeRestarts
<1>1. PluginStep => PluginP!Steps /\ UNCHANGED native
  BY SamePluginSteps DEF PluginStep
<1>2. NativeStep => NativeP!Steps /\ UNCHANGED plugin
  BY SameNativeSteps DEF NativeStep
<1>3. BridgeRestarts => PluginP!BridgeRestarts /\ NativeP!BridgeRestarts
  BY SamePluginSteps, SameNativeSteps DEF BridgeRestarts
<1>4. UNCHANGED vars => UNCHANGED PluginP!vars /\ UNCHANGED native
  BY DEF vars, native, PluginP!vars
<1> QED
  BY <1>1, <1>2, <1>3, <1>4 DEF Next

-----------------------------------------------------------------------------
(* The inductive invariant.                                                 *)

\* The create named id provisioned, or asked, for the bot b, whichever of the
\* two made it.  No step unmakes it.
Made(id, b) ==
  \/ id \in ToolCalls /\ toolCall[id].op = "create" /\ toolCall[id].scope = b
  \/ id \in NativeCalls /\ nativeCall[id].on = id /\ nativeCall[id].bot = b

\* The creates of either that hold the lock of their bot.
Locked == PluginP!Locked \cup NativeP!Locked

Answers == [id: Creates, capability: Creates] \cup {View!NoCreate}

LocksOK ==
  /\ \A b \in Bots : creating[b] \in Answers
  /\ \A c \in Locked, b \in Bots : Made(c, b) => creating[b].capability = c

\* What the bridge keeps for a bot was made for it.
BridgeMade ==
  /\ \A b \in Bots : container[b] # None => Made(container[b], b)
  /\ \A b \in Bots : creating[b] # View!NoCreate =>
       Made(creating[b].id, b) /\ Made(creating[b].capability, b)
  /\ \A id \in Creates : opens[id] # None =>
       \E b \in Bots : Made(id, b) /\ Made(opens[id], b)

\* So was what the plugin and the providers keep for it.
PluginMade ==
  /\ \A b \in Bots, id \in Creates : owned[b][id] # None => Made(id, b)
  /\ \A c \in ToolCalls : toolCall[c].id # None => Made(toolCall[c].id, toolCall[c].scope)

NativeMade ==
  /\ \A b \in Bots : record[b] # NativeP!NoRecord =>
       Made(record[b].id, b) /\ Made(record[b].capability, b)
  /\ \A c \in NativeCalls : nativeCall[c].record # NativeP!NoRecord =>
       /\ Made(nativeCall[c].record.id, nativeCall[c].bot)
       /\ Made(nativeCall[c].record.capability, nativeCall[c].bot)

HarnessInv ==
  /\ PluginP!TypeOK /\ PluginP!CallOK
  /\ NativeP!CacheInv
  /\ LocksOK
  /\ BridgeMade /\ PluginMade /\ NativeMade

LEMMA HarnessInit == Init => HarnessInv
<1> SUFFICES ASSUME Init PROVE HarnessInv
  OBVIOUS
<1>0. PluginP!Init /\ NativeP!Init
  BY SamePluginState, SameNativeState DEF Init
<1>1. PluginP!TypeOK /\ PluginP!CallOK
  BY <1>0, PluginP!PluginInit, PluginAssumptions DEF PluginP!PluginInv
<1>2. NativeP!CacheInv
  BY <1>0, NativeP!CacheInit, NativeAssumptions
<1>3. PluginP!Locked = {} /\ NativeP!Locked = {}
  BY <1>0 DEF PluginP!Init, NativeP!Init, PluginP!Locked, NativeP!Locked
<1>4. LocksOK
  BY <1>0, <1>3 DEF LocksOK, Locked, Answers, NativeP!Init, NativeP!BridgeInit, NativeP!NoCreate,
                    View!NoCreate
<1>5. BridgeMade
  BY <1>0 DEF BridgeMade, NativeP!Init, NativeP!BridgeInit, NativeP!NoCreate, View!NoCreate
<1>6. PluginMade
  BY <1>0 DEF PluginMade, PluginP!Init, PluginP!NoCall
<1>7. NativeMade
  BY <1>0 DEF NativeMade, NativeP!Init, NativeP!NoCall
<1> QED
  BY <1>1, <1>2, <1>4, <1>5, <1>6, <1>7 DEF HarnessInv

-----------------------------------------------------------------------------
(* Who made what.                                                           *)

LEMMA MadeForOne ==
  ASSUME NEW id, NEW b, Made(id, b)
  PROVE  id \in Creates /\ id # None /\ MadeFor(id) = b
BY HarnessAssumption DEF Made, MadeFor, Creates

\* Two native creates for one bot are one.
LEMMA NativeMadeByOne ==
  ASSUME HarnessInv, NEW c \in NativeCalls, NEW d \in NativeCalls, NEW b, Made(c, b), Made(d, b)
  PROVE  c = d
BY HarnessAssumption DEF HarnessInv, NativeP!CacheInv, NativeP!OneCreatePerBot, Made

LEMMA LockedMade ==
  ASSUME HarnessInv, NEW c \in Locked
  PROVE  \E b \in Bots : Made(c, b)
<1>1. CASE c \in PluginP!Locked
  <2>1. c \in ToolCalls /\ toolCall[c].op = "create"
    BY <1>1 DEF HarnessInv, PluginP!Locked, PluginP!CallOK
  <2>2. toolCall[c].scope \in Bots
    BY <2>1, HarnessAssumption DEF HarnessInv, PluginP!CallOK
  <2> QED
    BY <2>1, <2>2 DEF Made
<1>2. CASE c \in NativeP!Locked
  BY <1>2 DEF HarnessInv, NativeP!CacheInv, NativeP!Locked, NativeP!CallOK, Made
<1> QED
  BY <1>1, <1>2 DEF Locked

LEMMA MadeStays ==
  ASSUME HarnessInv, [Next]_vars, NEW id, NEW b, Made(id, b)
  PROVE  Made(id, b)'
<1>0. /\ PluginP!TypeOK /\ PluginP!CallOK
      /\ NativeP!TypeOK /\ NativeP!CallOK
  BY DEF HarnessInv, NativeP!CacheInv
<1>1. CASE id \in ToolCalls /\ toolCall[id].op = "create" /\ toolCall[id].scope = b
  <2>1. CASE [PluginP!Next]_(PluginP!vars)
    BY <1>0, <1>1, <2>1, PluginP!MadeStays, PluginAssumptions DEF PluginP!Made, Made
  <2>2. CASE UNCHANGED plugin
    BY <1>1, <2>2 DEF plugin, Made
  <2> QED
    BY <2>1, <2>2, HarnessSteps DEF PluginP!Next
<1>2. CASE id \in NativeCalls /\ nativeCall[id].on = id /\ nativeCall[id].bot = b
  <2>0. nativePhase[id] # "idle"
    BY <1>0, <1>2, HarnessAssumption DEF NativeP!CallOK, NativeP!NoCall, Creates
  <2>1. CASE [NativeP!Next]_(NativeP!vars)
    BY <1>0, <1>2, <2>0, <2>1, NativeP!CreateStays, NativeAssumptions DEF Made
  <2>2. CASE UNCHANGED native
    BY <1>2, <2>2 DEF native, Made
  <2> QED
    BY <2>1, <2>2, HarnessSteps DEF NativeP!Next
<1> QED
  BY <1>1, <1>2 DEF Made

\* A bot that a lock's holder is made for after a step, it was made for before.
LEMMA LockedMadeBefore ==
  ASSUME HarnessInv, [Next]_vars, NEW c \in Locked, NEW b, Made(c, b)'
  PROVE  Made(c, b)
<1>1. PICK d \in Bots : Made(c, d)
  BY LockedMade
<1>2. Made(c, d)'
  BY <1>1, MadeStays
<1> QED
  BY <1>1, <1>2, HarnessAssumption DEF Made

-----------------------------------------------------------------------------
(* At the bridge.                                                           *)

viewBridge == <<container, opens, creating>>

\* What the create c of the bot b does there.
Move(c, b) ==
  \/ View!Provision(b, c, c) /\ Locked' = Locked \cup {c}
  \/ /\ c \in Locked /\ Locked' = Locked \ {c}
     /\ View!Issue(b) \/ View!GiveUp(b)
  \/ View!ProvisionLate(b, c) /\ Locked' = Locked

Moves ==
  \/ UNCHANGED viewBridge /\ Locked' = Locked
  \/ \E c \in Creates, b \in Bots : Made(c, b) /\ Move(c, b)
  \/ \E id : View!Delete(id) /\ Locked' = Locked
  \/ View!Forget /\ Locked' = {}

LEMMA PluginMoves ==
  ASSUME HarnessInv, [PluginP!Steps]_(PluginP!vars), UNCHANGED native
  PROVE  Moves
<1>0. /\ NativeP!Locked' = NativeP!Locked
      /\ PluginP!Locked \cap NativeCalls = {} /\ NativeP!Locked \cap ToolCalls = {}
  BY HarnessAssumption DEF native, NativeP!Locked, PluginP!Locked
<1>1. PluginP!Locked' = PluginP!Locked => Locked' = Locked
  BY <1>0 DEF Locked
<1>2. ASSUME NEW c \in ToolCalls, toolCall[c].op = "create", toolCall[c].scope \in Bots,
             PluginP!BridgeMove(c)
      PROVE  Made(c, toolCall[c].scope) /\ Move(c, toolCall[c].scope)
  <2>1. PluginP!Locked' = PluginP!Locked \cup {c} => Locked' = Locked \cup {c}
    BY <1>0 DEF Locked
  <2>2. PluginP!Locked' = PluginP!Locked \ {c} => Locked' = Locked \ {c}
    BY <1>0 DEF Locked
  <2>3. c \in PluginP!Locked => c \in Locked
    BY DEF Locked
  <2> QED
    BY <1>1, <1>2, <2>1, <2>2, <2>3
       DEF PluginP!BridgeMove, Move, Made, PluginP!Provision, View!Provision, PluginP!Issue,
           View!Issue, PluginP!GiveUp, View!GiveUp, PluginP!ProvisionLate, View!ProvisionLate,
           PluginP!NoCreate, View!NoCreate, PluginP!Alive, View!Alive
<1>3. \A id : PluginP!Delete(id) => View!Delete(id)
  BY DEF PluginP!Delete, View!Delete
<1>4. PluginP!TypeOK /\ PluginP!CallOK
  BY DEF HarnessInv
<1>5. \/ UNCHANGED viewBridge /\ PluginP!Locked' = PluginP!Locked
      \/ \E c \in ToolCalls : /\ toolCall[c].op = "create" /\ toolCall[c].scope \in Bots
                              /\ PluginP!BridgeMove(c)
      \/ \E id : PluginP!Delete(id) /\ PluginP!Locked' = PluginP!Locked
  BY <1>4, PluginP!BridgeMoves, PluginAssumptions DEF PluginP!bridge, viewBridge
<1> QED
  BY <1>1, <1>2, <1>3, <1>5 DEF Moves, Creates

LEMMA NativeMoves ==
  ASSUME HarnessInv, [NativeP!Steps]_(NativeP!vars), UNCHANGED plugin
  PROVE  Moves
<1>0. /\ PluginP!Locked' = PluginP!Locked
      /\ PluginP!Locked \cap NativeCalls = {} /\ NativeP!Locked \cap ToolCalls = {}
  BY HarnessAssumption DEF plugin, NativeP!Locked, PluginP!Locked
<1>1. NativeP!Locked' = NativeP!Locked => Locked' = Locked
  BY <1>0 DEF Locked
<1>2. ASSUME NEW c \in NativeCalls, nativeCall[c].on = c, nativeCall[c].bot \in Bots,
             NativeP!BridgeMove(c)
      PROVE  Made(c, nativeCall[c].bot) /\ Move(c, nativeCall[c].bot)
  <2>1. NativeP!Locked' = NativeP!Locked \cup {c} => Locked' = Locked \cup {c}
    BY <1>0 DEF Locked
  <2>2. NativeP!Locked' = NativeP!Locked \ {c} => Locked' = Locked \ {c}
    BY <1>0 DEF Locked
  <2>3. c \in NativeP!Locked => c \in Locked
    BY DEF Locked
  <2> QED
    BY <1>1, <1>2, <2>1, <2>2, <2>3
       DEF NativeP!BridgeMove, Move, Made, NativeP!Provision, View!Provision, NativeP!Issue,
           View!Issue, NativeP!GiveUp, View!GiveUp, NativeP!ProvisionLate, View!ProvisionLate,
           NativeP!NoCreate, View!NoCreate, NativeP!Alive, View!Alive
<1>3. NativeP!TypeOK /\ NativeP!CallOK
  BY DEF HarnessInv, NativeP!CacheInv
<1>4. \/ UNCHANGED viewBridge /\ NativeP!Locked' = NativeP!Locked
      \/ \E c \in NativeCalls : /\ nativeCall[c].on = c /\ nativeCall[c].bot \in Bots
                                /\ NativeP!BridgeMove(c)
  BY <1>3, NativeP!BridgeMoves, NativeAssumptions DEF NativeP!bridge, viewBridge
<1> QED
  BY <1>1, <1>2, <1>4 DEF Moves, Creates

LEMMA BridgeMoves == ASSUME HarnessInv, [Next]_vars PROVE Moves
<1>1. PluginP!BridgeRestarts /\ NativeP!BridgeRestarts => View!Forget /\ Locked' = {}
  <2>1. PluginP!TypeOK /\ NativeP!TypeOK
    BY DEF HarnessInv, NativeP!CacheInv
  <2>2. PluginP!Forget => View!Forget
    BY DEF PluginP!Forget, View!Forget, PluginP!NoCreate, View!NoCreate
  <2> QED
    BY <2>1, <2>2, PluginP!BridgeForgets, NativeP!BridgeForgets, PluginAssumptions,
       NativeAssumptions DEF Locked
<1> QED
  BY <1>1, PluginMoves, NativeMoves, HarnessSteps DEF Moves

\* A step of the bridge keeps its types, and who holds which lock.
LEMMA LocksStep == ASSUME HarnessInv, [Next]_vars PROVE View!BridgeTypeOK' /\ LocksOK'
<1>0. /\ View!BridgeTypeOK /\ LocksOK
      /\ \A b \in Bots : creating[b] \in Answers
  BY DEF HarnessInv, LocksOK, PluginP!TypeOK, PluginP!BridgeTypeOK, View!BridgeTypeOK
<1>1. ASSUME NEW c \in Locked, NEW b \in Bots, Made(c, b)'
      PROVE  creating[b].capability = c /\ creating[b] # View!NoCreate /\ Made(c, b)
  BY <1>0, <1>1, LockedMadeBefore, MadeForOne DEF LocksOK, View!NoCreate
<1>2. CASE UNCHANGED viewBridge /\ Locked' = Locked
  BY <1>0, <1>1, <1>2 DEF viewBridge, View!BridgeTypeOK, LocksOK
<1>3. CASE View!Forget /\ Locked' = {}
  BY <1>0, <1>3 DEF View!Forget, View!BridgeTypeOK, LocksOK, Answers, View!NoCreate
<1>4. ASSUME NEW id, View!Delete(id), Locked' = Locked
      PROVE  View!BridgeTypeOK' /\ LocksOK'
  BY <1>0, <1>1, <1>4 DEF View!Delete, View!BridgeTypeOK, LocksOK
<1>5. ASSUME NEW c \in Creates, NEW b \in Bots, Made(c, b), Move(c, b)
      PROVE  View!BridgeTypeOK' /\ LocksOK'
  <2>0. c # None /\ Made(c, b)'
    BY <1>5, MadeStays, MadeForOne
  <2>1. CASE View!Provision(b, c, c) /\ Locked' = Locked \cup {c}
    <3>1. container' \in [Bots -> Creates \cup {None}] /\ container'[b] \in Creates
      BY <1>0, <1>5, <2>0, <2>1 DEF View!Provision, View!BridgeTypeOK
    <3>2. /\ creating' = [creating EXCEPT ![b] = [id |-> container'[b], capability |-> c]]
          /\ creating[b] = View!NoCreate /\ opens' = opens
      BY <2>1 DEF View!Provision
    <3>3. View!BridgeTypeOK'
      BY <1>0, <1>5, <3>1, <3>2 DEF View!BridgeTypeOK
    <3>4. \A x \in Bots : creating'[x] \in Answers
      BY <1>0, <3>1, <3>2 DEF View!BridgeTypeOK, Answers
    <3>5. ASSUME NEW d \in Locked', NEW x \in Bots, Made(d, x)'
          PROVE  creating'[x].capability = d
      <4>1. CASE d = c
        <5>1. x = b
          BY <2>0, <3>5, <4>1, HarnessAssumption DEF Made
        <5> QED
          BY <1>0, <3>2, <4>1, <5>1 DEF View!BridgeTypeOK
      <4>2. CASE d \in Locked
        BY <1>0, <1>1, <3>2, <3>5, <4>2 DEF View!BridgeTypeOK
      <4> QED
        BY <2>1, <4>1, <4>2
    <3> QED
      BY <3>3, <3>4, <3>5 DEF LocksOK, Answers, View!NoCreate
  <2>2. CASE /\ c \in Locked /\ Locked' = Locked \ {c}
             /\ View!Issue(b) \/ View!GiveUp(b)
    <3>1. creating' = [creating EXCEPT ![b] = View!NoCreate]
      BY <2>2 DEF View!Issue, View!GiveUp
    <3>2. opens' \in [Creates -> Creates \cup {None}] /\ container' = container
      <4>1. creating[b].capability \in Creates \cup {None}
        BY <1>0 DEF View!BridgeTypeOK
      <4> QED
        BY <1>0, <2>2, <4>1 DEF View!Issue, View!GiveUp, View!BridgeTypeOK
    <3>3. View!BridgeTypeOK'
      BY <1>0, <3>1, <3>2 DEF View!BridgeTypeOK, View!NoCreate
    <3>4. \A x \in Bots : creating'[x] \in Answers
      BY <1>0, <3>1 DEF View!BridgeTypeOK, Answers
    <3>5. ASSUME NEW d \in Locked', NEW x \in Bots, Made(d, x)'
          PROVE  creating'[x].capability = d
      <4>1. d \in Locked /\ d # c
        BY <2>2
      <4>2. creating[x].capability = d
        BY <1>1, <3>5, <4>1
      <4>3. creating[b].capability = c
        BY <1>1, <2>0, <2>2
      <4> QED
        BY <1>0, <3>1, <4>1, <4>2, <4>3 DEF View!BridgeTypeOK
    <3> QED
      BY <3>3, <3>4, <3>5 DEF LocksOK, Answers, View!NoCreate
  <2>3. CASE View!ProvisionLate(b, c) /\ Locked' = Locked
    BY <1>0, <1>1, <1>5, <2>3 DEF View!ProvisionLate, View!BridgeTypeOK, LocksOK
  <2> QED
    BY <1>5, <2>1, <2>2, <2>3 DEF Move
<1> QED
  BY <1>2, <1>3, <1>4, <1>5, BridgeMoves DEF Moves

\* A step changes what the bridge keeps for a bot only to what was made for it.
LEMMA BridgeMadeStep == ASSUME HarnessInv, [Next]_vars PROVE BridgeMade'
<1>0. /\ View!BridgeTypeOK /\ BridgeMade /\ LocksOK
      /\ \A b \in Bots : creating[b] \in Answers
  BY DEF HarnessInv, LocksOK, PluginP!TypeOK, PluginP!BridgeTypeOK, View!BridgeTypeOK
<1>1. ASSUME NEW b \in Bots, NEW id, container'[b] = id, id # None
      PROVE  Made(id, b)
  <2>1. ASSUME NEW c \in Creates, NEW d \in Bots, Made(c, d), Move(c, d)
        PROVE  container'[b] = container[b] \/ (b = d /\ container'[b] = c)
    BY <1>0, <2>1 DEF Move, View!Provision, View!ProvisionLate, View!Issue, View!GiveUp,
                      View!BridgeTypeOK
  <2>2. \A x : View!Delete(x) => container'[b] = container[b] \/ container'[b] = None
    BY DEF View!Delete
  <2>3. View!Forget \/ UNCHANGED viewBridge => container' = container
    BY DEF View!Forget, viewBridge
  <2>4. container[b] = id => Made(id, b)
    BY <1>0, <1>1 DEF BridgeMade
  <2> QED
    BY <1>1, <2>1, <2>2, <2>3, <2>4, BridgeMoves DEF Moves
<1>2. ASSUME NEW b \in Bots, NEW r, creating'[b] = r, r # View!NoCreate
      PROVE  Made(r.id, b) /\ Made(r.capability, b)
  <2>1. creating[b] = r => Made(r.id, b) /\ Made(r.capability, b)
    BY <1>0, <1>2 DEF BridgeMade
  <2>2. ASSUME NEW c \in Creates, NEW d \in Bots, Made(c, d), Move(c, d)
        PROVE  creating[b] = r \/ (Made(r.id, b) /\ Made(r.capability, b))
    <3>1. CASE View!Provision(d, c, c) /\ b = d
      <4>1. r = [id |-> container'[b], capability |-> c] /\ container'[b] # None
        BY <1>0, <1>2, <2>2, <3>1, MadeForOne DEF View!Provision, View!BridgeTypeOK
      <4>2. Made(container'[b], b)
        BY <1>1, <4>1
      <4> QED
        BY <2>2, <3>1, <4>1, <4>2
    <3>2. CASE ~(View!Provision(d, c, c) /\ b = d)
      BY <1>0, <1>2, <2>2, <3>2 DEF Move, View!Provision, View!ProvisionLate, View!Issue,
                                    View!GiveUp, View!BridgeTypeOK
    <3> QED
      BY <3>1, <3>2
  <2>3. ASSUME NEW x, View!Delete(x)
        PROVE  creating[b] = r
    BY <1>2, <2>3 DEF View!Delete
  <2>4. View!Forget \/ UNCHANGED viewBridge => creating[b] = r
    BY <1>2 DEF View!Forget, viewBridge
  <2> QED
    BY <2>1, <2>2, <2>3, <2>4, BridgeMoves DEF Moves
<1>3. ASSUME NEW id \in Creates, NEW k, opens'[id] = k, k # None
      PROVE  \E b \in Bots : Made(id, b) /\ Made(k, b)
  <2>1. opens[id] = k => \E b \in Bots : Made(id, b) /\ Made(k, b)
    BY <1>0, <1>3 DEF BridgeMade
  <2>2. ASSUME NEW c \in Creates, NEW d \in Bots, Made(c, d), Move(c, d)
        PROVE  opens[id] = k \/ \E b \in Bots : Made(id, b) /\ Made(k, b)
    <3>1. CASE View!Issue(d)
      <4>1. Made(creating[d].id, d) /\ Made(creating[d].capability, d)
        BY <1>0, <3>1 DEF View!Issue, BridgeMade
      <4>2. opens[id] = k \/ (id = creating[d].id /\ k = creating[d].capability)
        BY <1>0, <1>3, <3>1 DEF View!Issue, View!BridgeTypeOK
      <4> QED
        BY <4>1, <4>2
    <3>2. CASE ~View!Issue(d)
      BY <1>3, <2>2, <3>2 DEF Move, View!Provision, View!ProvisionLate, View!GiveUp
    <3> QED
      BY <3>1, <3>2
  <2>3. ASSUME NEW x, View!Delete(x)
        PROVE  opens[id] = k
    BY <1>3, <2>3 DEF View!Delete
  <2>4. ~View!Forget
    BY <1>3 DEF View!Forget
  <2>5. UNCHANGED viewBridge => opens[id] = k
    BY <1>3 DEF viewBridge
  <2> QED
    BY <2>1, <2>2, <2>3, <2>4, <2>5, BridgeMoves DEF Moves
<1>4. ASSUME NEW b \in Bots, NEW id, container'[b] = id, id # None
      PROVE  Made(id, b)'
  BY <1>1, <1>4, MadeStays
<1>5. ASSUME NEW b \in Bots, NEW r, creating'[b] = r, r # View!NoCreate
      PROVE  Made(r.id, b)' /\ Made(r.capability, b)'
  BY <1>2, <1>5, MadeStays
<1>6. ASSUME NEW id \in Creates, NEW k, opens'[id] = k, k # None
      PROVE  \E b \in Bots : Made(id, b)' /\ Made(k, b)'
  BY <1>3, <1>6, MadeStays
<1> QED
  BY <1>4, <1>5, <1>6 DEF BridgeMade, Made, View!NoCreate

-----------------------------------------------------------------------------
(* What the two keep.                                                       *)

LEMMA PluginMadeStep == ASSUME HarnessInv, [Next]_vars PROVE PluginMade'
<1>0. /\ PluginP!TypeOK /\ PluginP!CallOK /\ PluginMade
      /\ \A b \in Bots, id \in Creates : owned[b][id] # None => id # None
  BY HarnessAssumption DEF HarnessInv
<1>1. ASSUME NEW b \in Bots, NEW id \in Creates, owned'[b][id] # None
      PROVE  Made(id, b)'
  <2>1. \/ owned[b][id] # None
        \/ \E c \in ToolCalls : toolCall[c].id = id /\ toolCall[c].scope = b
    <3>1. CASE [PluginP!Next]_(PluginP!vars)
      BY <1>0, <1>1, <3>1, PluginP!OwnedGrows, PluginAssumptions
    <3>2. CASE UNCHANGED plugin
      BY <1>1, <3>2 DEF plugin
    <3> QED
      BY <3>1, <3>2, HarnessSteps DEF PluginP!Next
  <2>2. Made(id, b)
    BY <1>0, <2>1, HarnessAssumption DEF PluginMade
  <2> QED
    BY <2>2, MadeStays
<1>2. ASSUME NEW x \in ToolCalls, NEW id, NEW b, toolCall'[x].id = id, id # None,
             toolCall'[x].scope = b
      PROVE  Made(id, b)'
  <2>1. \/ toolCall[x].id = id /\ toolCall[x].scope = b
        \/ b \in Bots /\ id \in Creates /\ owned[b][id] # None
        \/ b \in Bots /\ container'[b] = id
    <3>1. CASE [PluginP!Next]_(PluginP!vars)
      BY <1>0, <1>2, <3>1, PluginP!NamedGrows, PluginAssumptions
    <3>2. CASE UNCHANGED plugin
      BY <1>2, <3>2 DEF plugin
    <3> QED
      BY <3>1, <3>2, HarnessSteps DEF PluginP!Next
  <2>2. CASE toolCall[x].id = id /\ toolCall[x].scope = b
    BY <1>0, <1>2, <2>2, MadeStays DEF PluginMade
  <2>3. CASE b \in Bots /\ id \in Creates /\ owned[b][id] # None
    BY <1>0, <2>3, MadeStays DEF PluginMade
  <2>4. CASE b \in Bots /\ container'[b] = id
    BY <1>2, <2>4, BridgeMadeStep DEF BridgeMade, Made
  <2> QED
    BY <2>1, <2>2, <2>3, <2>4
<1> QED
  BY <1>1, <1>2 DEF PluginMade, Made

LEMMA NativeMadeStep == ASSUME HarnessInv, [Next]_vars PROVE NativeMade'
<1> DEFINE Fits(r, b) == r = NativeP!NoRecord \/ (Made(r.id, b) /\ Made(r.capability, b))
<1>0. /\ NativeP!CacheInv /\ BridgeMade
      /\ \A b \in Bots : Fits(record[b], b)
      /\ \A c \in NativeCalls : Fits(nativeCall[c].record, nativeCall[c].bot)
  BY DEF HarnessInv, NativeMade
<1>1. ASSUME NEW b \in Bots, NEW r, record'[b] = r
      PROVE  Fits(r, b)
  <2>1. \/ r = record[b]
        \/ \E c \in NativeCalls : r = nativeCall[c].record /\ nativeCall[c].bot = b
    <3>1. CASE [NativeP!Next]_(NativeP!vars)
      BY <1>0, <1>1, <3>1, NativeP!CacheGrows, NativeAssumptions
    <3>2. CASE UNCHANGED native
      BY <1>1, <3>2 DEF native
    <3> QED
      BY <3>1, <3>2, HarnessSteps DEF NativeP!Next
  <2> QED
    BY <1>0, <2>1
<1>2. ASSUME NEW c \in NativeCalls, NEW b, NEW r, nativeCall'[c].bot = b,
             nativeCall'[c].record = r
      PROVE  Fits(r, b)
  <2>1. \/ r = NativeP!NoRecord
        \/ \E d \in NativeCalls : r = nativeCall[d].record /\ b = nativeCall[d].bot
        \/ b \in Bots /\ r = record[b]
        \/ b \in Bots /\ r = creating[b] /\ creating[b] # View!NoCreate
    <3>1. CASE [NativeP!Next]_(NativeP!vars)
      BY <1>0, <1>2, <3>1, NativeP!RecordGrows, NativeAssumptions DEF NativeP!NoCreate, View!NoCreate
    <3>2. CASE UNCHANGED native
      BY <1>2, <3>2 DEF native
    <3> QED
      BY <3>1, <3>2, HarnessSteps DEF NativeP!Next
  <2> QED
    BY <1>0, <2>1 DEF BridgeMade
<1>3. ASSUME NEW b \in Bots, NEW r, record'[b] = r, r # NativeP!NoRecord
      PROVE  Made(r.id, b)' /\ Made(r.capability, b)'
  BY <1>1, <1>3, MadeStays
<1>4. ASSUME NEW c \in NativeCalls, NEW b, NEW r, nativeCall'[c].bot = b,
             nativeCall'[c].record = r, r # NativeP!NoRecord
      PROVE  Made(r.id, b)' /\ Made(r.capability, b)'
  BY <1>2, <1>4, MadeStays
<1> QED
  BY <1>3, <1>4 DEF NativeMade, Made, NativeP!NoRecord

-----------------------------------------------------------------------------
(* What each component's invariant needs of the other's steps: the bridge.  *)

LEMMA PluginStays == ASSUME HarnessInv, [Next]_vars PROVE PluginP!TypeOK' /\ PluginP!CallOK'
<1>0. PluginP!TypeOK /\ PluginP!CallOK /\ View!BridgeTypeOK'
  BY LocksStep DEF HarnessInv
<1>1. CASE [PluginP!Next]_(PluginP!vars)
  BY <1>0, <1>1, PluginP!TypeStep, PluginP!CallStep, PluginAssumptions
<1>2. CASE UNCHANGED plugin
  <2>1. PluginP!TypeOK'
    BY <1>0, <1>2 DEF plugin, PluginP!TypeOK, PluginP!BridgeTypeOK, View!BridgeTypeOK
  <2>2. PluginP!CallOK'
    BY <1>0, <1>2 DEF plugin, PluginP!CallOK
  <2> QED
    BY <2>1, <2>2
<1> QED
  BY <1>1, <1>2, HarnessSteps DEF PluginP!Next

LEMMA NativeStays == ASSUME HarnessInv, [Next]_vars PROVE NativeP!CacheInv'
<1>0. /\ NativeP!CacheInv /\ NativeP!TypeOK /\ NativeP!CallOK
      /\ View!BridgeTypeOK' /\ LocksOK' /\ PluginP!TypeOK'
  BY LocksStep, PluginStays DEF HarnessInv, NativeP!CacheInv
<1>1. CASE [NativeP!Next]_(NativeP!vars)
  BY <1>0, <1>1, NativeP!CacheInductive, NativeAssumptions
<1>2. CASE UNCHANGED native
  <2>1. NativeP!TypeOK'
    <3>1. [s \in Sessions |-> IF s \in stored' THEN Parent[s] ELSE None]
            \in [Sessions -> Sessions \cup {None}]
      BY HarnessAssumption
    <3> QED
      BY <1>0, <1>2, <3>1 DEF native, NativeP!TypeOK, NativeP!BridgeTypeOK, View!BridgeTypeOK
  <2>2. NativeP!CallOK'
    BY <1>0, <1>2 DEF native, NativeP!CallOK
  <2>3. NativeP!CreatingOK'
    <3>1. ASSUME NEW c \in NativeP!Locked
          PROVE  creating'[nativeCall[c].bot].capability = c
      <4>1. c \in Locked' /\ nativeCall[c].bot \in Bots /\ c \in NativeCalls /\ nativeCall[c].on = c
        BY <1>0, <1>2 DEF native, Locked, NativeP!Locked, NativeP!CallOK
      <4>2. Made(c, nativeCall[c].bot)
        BY <4>1 DEF Made
      <4>3. Made(c, nativeCall[c].bot)'
        BY <1>2, <4>2, MadeStays DEF native
      <4> QED
        BY <1>0, <1>2, <4>1, <4>3 DEF LocksOK, native
    <3> QED
      BY <1>0, <1>2, <3>1 DEF native, NativeP!CreatingOK, NativeP!Locked, LocksOK, Answers,
                              NativeP!NoCreate, View!NoCreate
  <2>4. NativeP!CacheOK' /\ NativeP!OneCreatePerBot'
    BY <1>0, <1>2 DEF native, NativeP!CacheInv, NativeP!CacheOK, NativeP!OneCreatePerBot
  <2> QED
    BY <2>1, <2>2, <2>3, <2>4 DEF NativeP!CacheInv
<1> QED
  BY <1>1, <1>2, HarnessSteps DEF NativeP!Next

LEMMA HarnessInvariant == Spec => []HarnessInv
<1>1. HarnessInv /\ [Next]_vars => HarnessInv'
  BY PluginStays, NativeStays, LocksStep, BridgeMadeStep, PluginMadeStep, NativeMadeStep
     DEF HarnessInv
<1> QED
  BY <1>1, HarnessInit, PTL DEF Spec

-----------------------------------------------------------------------------
(* The theorems.                                                            *)

\* The state of plugin and providers over one bridge stays well-formed, although
\* each takes steps that the other's own proof knows nothing of.
THEOREM HarnessTypeCorrect == Spec => []TypeOK
<1>1. HarnessInv => TypeOK
  BY SamePluginState, SameNativeState DEF HarnessInv, NativeP!CacheInv, TypeOK
<1> QED
  BY <1>1, HarnessInvariant, PTL

\* Whichever path provisioned a computer (rakazo_create_computer of the plugin, or
\* ensureComputer of the providers), every call and every capability that the
\* bridge gives out for it is one of the same identity.
THEOREM OwnComputerCorrect == Spec => []CallsReachOwnComputer
<1>1. HarnessInv => CallsReachOwnComputer
  <2> SUFFICES ASSUME HarnessInv PROVE CallsReachOwnComputer
    OBVIOUS
  <2>0. BridgeMade /\ PluginMade /\ NativeMade /\ PluginP!CallOK
    BY DEF HarnessInv
  <2>1. ASSUME NEW id \in Creates, opens[id] # None
        PROVE  MadeFor(opens[id]) = MadeFor(id)
    BY <2>0, <2>1, MadeForOne DEF BridgeMade
  <2>2. ASSUME NEW c \in ToolCalls, toolCall[c].op \in {"use", "destroy"}
        PROVE  toolCall[c].scope = MadeFor(toolCall[c].id)
    BY <2>0, <2>2, MadeForOne DEF PluginMade, PluginP!CallOK
  <2>3. ASSUME NEW c \in NativeCalls, nativeCall[c].record.id # None
        PROVE  nativeCall[c].bot = MadeFor(nativeCall[c].record.id)
    BY <2>0, <2>3, MadeForOne DEF NativeMade, NativeP!NoRecord
  <2> QED
    BY <2>1, <2>2, <2>3 DEF CallsReachOwnComputer
<1> QED
  BY <1>1, HarnessInvariant, PTL

\* The bridge refuses a native call (#entry of computers.mjs) only when the plugin
\* has rotated the capability since, or the bridge has forgotten it in a restart:
\* the providers never rotate it under one another.
THEOREM RefusalCorrect == Spec => RefusedForCause
<1> DEFINE Cause(c) ==
      outcome[c] # "refused" /\ outcome'[c] = "refused" =>
        opens[nativeCall[c].record.id] \in ToolCalls \cup {None}
<1>1. ASSUME HarnessInv, [Next]_vars, NEW c \in NativeCalls PROVE Cause(c)
  <2> SUFFICES ASSUME outcome[c] # "refused", outcome'[c] = "refused",
                      opens[nativeCall[c].record.id] \notin ToolCalls \cup {None}
               PROVE  FALSE
    OBVIOUS
  <2> DEFINE rec == nativeCall[c].record
             now == opens[rec.id]
  <2>0. NativeP!CacheInv /\ BridgeMade /\ NativeMade /\ View!BridgeTypeOK
    BY <1>1 DEF HarnessInv, PluginP!TypeOK, PluginP!BridgeTypeOK, View!BridgeTypeOK
  <2>1. [NativeP!Next]_(NativeP!vars)
    BY <1>1, HarnessSteps DEF NativeP!Next, native
  <2>2. /\ rec \in [id: Creates, capability: NativeCalls]
        /\ ~NativeP!Accepts(rec.id, rec.capability)
    BY <2>0, <2>1, NativeP!RefusedByBridge, NativeAssumptions
  <2>3. rec.id \in Creates /\ rec.capability \in NativeCalls /\ rec.id # None
    BY <2>2, HarnessAssumption DEF Creates
  <2>4. now \in NativeCalls /\ now # None /\ now # rec.capability
    BY <2>0, <2>2, <2>3 DEF View!BridgeTypeOK, Creates, NativeP!Accepts
  <2>5. PICK b \in Bots : Made(rec.id, b) /\ Made(now, b)
    BY <2>0, <2>3, <2>4 DEF BridgeMade
  <2>6. Made(rec.id, nativeCall[c].bot) /\ Made(rec.capability, nativeCall[c].bot)
    BY <2>0, <2>3 DEF NativeMade, NativeP!NoRecord
  <2>7. nativeCall[c].bot = b
    BY <2>5, <2>6, MadeForOne
  <2> QED
    BY <1>1, <2>3, <2>4, <2>5, <2>6, <2>7, NativeMadeByOne
<1>2. HarnessInv /\ [Next]_vars => [\A c \in NativeCalls : Cause(c)]_vars
  BY <1>1
<1> QED
  BY <1>2, HarnessInvariant, PTL DEF Spec, RefusedForCause
=============================================================================
