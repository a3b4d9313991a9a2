---------------------------- MODULE RakazoPlugin ----------------------------
(***************************************************************************)
(* The computer-use plugin in one harness process: the capabilities it     *)
(* holds per scope, the tool calls of the sessions' agents, the release of *)
(* a closed session's computers, the unload of the plugin, and the pruning *)
(* of abandoned computers when it is loaded.                               *)
(*                                                                         *)
(* JavaScript runs each stretch between two awaits in one step.  A tool    *)
(* call is such a stretch up to its fetch, what the bridge does with the   *)
(* request, and a stretch that handles the answer.                         *)
(***************************************************************************)
EXTENDS Scope

CONSTANTS
  Bots,         \* bot identities: one per scope, the plugin's and others'
  Creates,      \* the calls that may create a computer, the plugin's and others':
                \* each names the container it provisions and the capability it is given
  Calls,        \* the plugin's tool calls, which are calls to the bridge
  Parent,       \* per session, its parentSession, or None
  Inline,       \* the sessions whose agent carries the session's header
  Bare,         \* those whose agent has no session object: its own id names them
  Late,         \* those that may begin before the session store knows of them
  RowConfigs,   \* the row configs a behaviour starts with
  Restarts,     \* those of them under which the bridge may restart
  Faults        \* what else may happen: "call" fails, "harness" dies, the plugin
                \* "unload"s, the store may "forget" a session, a load may "prune"

ASSUME PluginAssumption ==
  /\ Parent \in [Sessions -> Sessions \cup {None}]
  /\ Inline \subseteq Sessions
  /\ Bare \subseteq Sessions \ Inline
  /\ RowConfigs \subseteq Configs
  /\ Sessions \cup {Account} \subseteq Bots
  /\ Calls \subseteq Creates
  /\ None \notin Creates \cup {"create", "use", "destroy"}

\* Only pruning adopts: it has no capability, the bridge's list is its authority.
CONSTANTS Adopt, Unloading, Pruning

ASSUME TagsAreNoValues ==
  {Adopt, Unloading, Pruning} \cap (Creates \cup Sessions \cup {None, Account}) = {}

VARIABLES
  container, opens, creating,   \* the bridge: BridgeView
  config,    \* the row config: share, keep, account
  mounted,   \* the plugin is loaded
  agents,    \* per session, its agent: none yet, open or disposed
  stored,    \* the sessions in the harness's session store
  owned,     \* per scope, the capability held for each container, or None
  call,      \* per tool call, what it is
  phase,     \* per tool call, how far it is
  dropped,   \* the calls nobody waits for any more; the bridge may still act
  deletes,   \* the DELETE requests of releases and of pruning, by how far they are
  unload,    \* the scopes the unloading plugin has still to release
  prune      \* the pruning at load: its stage, the identities taken for live

INSTANCE BridgeView WITH Containers <- Creates, Capabilities <- Creates

bridge  == <<container, opens, creating>>
harness == <<config, mounted, agents, stored>>
calls   == <<call, phase, dropped>>
vars    == <<container, opens, creating, config, mounted, agents, stored, owned, call,
             phase, dropped, deletes, unload, prune>>

NoCall  == [op |-> None, scope |-> None, id |-> None, capability |-> None]
Deletes == [id: Creates, capability: Calls \cup {Adopt},
            by: Sessions \cup {Unloading, Pruning}]
Idle    == [stage |-> "off", live |-> {}]

TypeOK ==
  /\ BridgeTypeOK
  /\ config \in RowConfigs
  /\ mounted \in BOOLEAN
  /\ agents \in [Sessions -> {"none", "open", "disposed"}]
  /\ stored \in SUBSET Sessions
  /\ owned \in [Bots -> [Creates -> Calls \cup {None}]]
  /\ call \in [Calls -> [op: {"create", "use", "destroy", None},
                         scope: Bots \cup {None}, id: Creates \cup {None},
                         capability: Calls \cup {None}]]
  /\ phase \in [Calls -> {"idle", "sent", "admitted", "provisioned", "answered", "refused", "done"}]
  /\ dropped \in SUBSET Calls
  /\ deletes \in [{"sent", "admitted"} -> SUBSET Deletes]
  /\ unload \in SUBSET Bots
  /\ prune \in [stage: {"off", "sessions", "list"}, live: SUBSET Sessions]

Init ==
  /\ BridgeInit
  /\ config \in RowConfigs
  /\ mounted = FALSE
  /\ agents = [s \in Sessions |-> "none"]
  /\ stored = {}
  /\ owned = [b \in Bots |-> [id \in Creates |-> None]]
  /\ call = [c \in Calls |-> NoCall]
  /\ phase = [c \in Calls |-> "idle"]
  /\ dropped = {}
  /\ deletes = [at \in {"sent", "admitted"} |-> {}]
  /\ unload = {}
  /\ prune = Idle

ScopeOf(s) == ScopeKeyOf(s, config, Parent, Inline, stored)

Held(scope) == {id \in Creates : owned[scope][id] # None}

-----------------------------------------------------------------------------
(* Tool calls.                                                              *)

Sends(c, s, op, scope, id, capability) ==
  /\ mounted /\ agents[s] = "open" /\ phase[c] = "idle"
  /\ call' = [call EXCEPT ![c] = [op |-> op, scope |-> scope, id |-> id,
                                  capability |-> capability]]
  /\ phase' = [phase EXCEPT ![c] = "sent"]
  /\ UNCHANGED <<bridge, harness, owned, dropped, deletes, unload, prune>>

Create(c, s) == Sends(c, s, "create", ScopeOf(s), None, None)

\* Mutant: whoever holds a capability for the computer lends it.
HoldersAny(scope, id) == {b \in Bots : owned[b][id] # None}

\* capabilityFor: the caller's own scope, or an error before anything is sent.
Holders(scope, id) == {b \in {scope} : owned[b][id] # None}

\* exec, file, status, observe and browser: one control flow; the last two name
\* the caller's screen as well.
Use(c, s, id) ==
  \E b \in Holders(ScopeOf(s), id) : Sends(c, s, "use", ScopeOf(s), id, owned[b][id])

Destroy(c, s, id) ==
  \E b \in Holders(ScopeOf(s), id) : Sends(c, s, "destroy", ScopeOf(s), id, owned[b][id])

\* Mutant: an account deployment has one screen.
ScreenIdForShared(s, scope) ==
  IF ~config.share \/ s \in Bare \/ s = scope THEN None ELSE s

\* The screen of session s on its computer: None is the computer's own.  An agent
\* without a session id is given none, although its id does name its scope.
ScreenIdFor(s, scope) ==
  IF (~config.share /\ ~config.account) \/ s \in Bare \/ s = scope THEN None ELSE s

\* What follows at the bridge.  One create of a bot at a time holds its lock.
BridgeSteps(c, from, to) ==
  /\ phase[c] = from
  /\ phase' = [phase EXCEPT ![c] = to]
  /\ UNCHANGED <<harness, owned, dropped, deletes, unload, prune>>

BridgeProvisions(c) ==
  /\ call[c].op = "create"
  /\ BridgeSteps(c, "sent", "provisioned")
  /\ Provision(call[c].scope, c, c)
  /\ call' = [call EXCEPT ![c].id = container'[call[c].scope]]

BridgeIssues(c) ==
  /\ BridgeSteps(c, "provisioned", "answered")
  /\ Issue(call[c].scope)
  /\ UNCHANGED call

\* #entry looks at the record and its capability; a destroy then waits for its
\* turn.  Whether the answer is a refusal makes no difference but to a create.
BridgeAdmits(c) ==
  /\ call[c].op \in {"use", "destroy"}
  /\ BridgeSteps(c, "sent", IF call[c].op = "destroy" /\ Accepts(call[c].id, call[c].capability)
                           THEN "admitted" ELSE "answered")
  /\ UNCHANGED <<bridge, call>>

BridgeDestroys(c) ==
  /\ BridgeSteps(c, "admitted", "answered")
  /\ Delete(call[c].id)
  /\ UNCHANGED call

\* The bridge answers an error, whatever Rakazo did with the call.
BridgeFails(c) ==
  /\ "call" \in Faults
  /\ \/ /\ call[c].op = "create"
        /\ BridgeSteps(c, "sent", "refused")
        /\ UNCHANGED bridge \/ ProvisionLate(call[c].scope, c)
     \/ BridgeSteps(c, "provisioned", "refused") /\ GiveUp(call[c].scope)
     \/ BridgeSteps(c, "admitted", "answered") /\ UNCHANGED bridge
  /\ UNCHANGED call

\* What the plugin does with the answer: a create that succeeds keeps the
\* capability under the scope it began with, a destroy forgets it in any case.
Handles(c, owner) ==
  CASE call[c].op = "create"  -> [owner EXCEPT ![call[c].scope][call[c].id] = c]
    [] call[c].op = "destroy" -> [owner EXCEPT ![call[c].scope][call[c].id] = None]
    [] OTHER                  -> owner

Returns(c) ==
  /\ phase[c] \in {"answered", "refused"}
  /\ phase' = [phase EXCEPT ![c] = "done"]
  /\ owned' = IF c \in dropped \/ (phase[c] = "refused" /\ call[c].op = "create")
              THEN owned ELSE Handles(c, owned)
  /\ call' = IF call[c].op = "create" THEN call ELSE [call EXCEPT ![c] = NoCall]
  /\ dropped' = dropped \ {c}
  /\ UNCHANGED <<bridge, harness, deletes, unload, prune>>

\* The fetch fails or times out, before or after the bridge has acted.  A use
\* that fails ends like one that is answered.
CallFails(c) ==
  /\ "call" \in Faults /\ call[c].op \in {"create", "destroy"}
  /\ phase[c] \notin {"idle", "done"} /\ c \notin dropped
  /\ dropped' = dropped \cup {c}
  /\ owned' = IF call[c].op = "destroy" THEN Handles(c, owned) ELSE owned
  /\ UNCHANGED <<bridge, harness, call, phase, deletes, unload, prune>>

-----------------------------------------------------------------------------
(* A scope is released: its computers are forgotten and, unless the row     *)
(* keeps them, deleted; a delete that fails is forgotten too.               *)

Deletion(requests) == deletes' = [deletes EXCEPT !["sent"] = @ \cup requests]

\* Mutant: the account's machine is released like any other.
ReleaseAccountToo(scope, principal, by) ==
  IF config.share /\ ~principal THEN UNCHANGED <<owned, deletes>>
  ELSE /\ owned' = [owned EXCEPT ![scope] = [id \in Creates |-> None]]
       /\ Deletion(IF config.keep THEN {}
                   ELSE {[id |-> id, capability |-> owned[scope][id], by |-> by] :
                         id \in Held(scope)})

ReleaseSession(scope, principal, by) ==
  IF config.account \/ (config.share /\ ~principal) THEN UNCHANGED <<owned, deletes>>
  ELSE /\ owned' = [owned EXCEPT ![scope] = [id \in Creates |-> None]]
       /\ Deletion(IF config.keep THEN {}
                   ELSE {[id |-> id, capability |-> owned[scope][id], by |-> by] :
                         id \in Held(scope)})

AgentDisposed(s) ==
  /\ agents[s] = "open"
  /\ agents' = [agents EXCEPT ![s] = "disposed"]
  /\ IF mounted THEN ReleaseSession(ScopeOf(s), IsPrincipal(s, Parent, Inline, stored), s)
                ELSE UNCHANGED <<owned, deletes>>
  /\ UNCHANGED <<bridge, config, mounted, stored, calls, unload, prune>>

\* The disposer walks the scopes held when the unload began, one at a time.
Unload ==
  /\ "unload" \in Faults
  /\ mounted
  /\ mounted' = FALSE
  /\ unload' = {b \in Bots : Held(b) # {}}
  /\ UNCHANGED <<bridge, config, agents, stored, owned, calls, deletes, prune>>

UnloadReleases(b) ==
  /\ b \in unload
  /\ unload' = unload \ {b}
  /\ ReleaseSession(b, FALSE, Unloading)
  /\ UNCHANGED <<bridge, harness, calls, prune>>

\* The requests of one release go out one after another; here in any order.
AdmitsDelete(d) ==
  IF d.capability = Adopt THEN opens[d.id] # None ELSE Accepts(d.id, d.capability)

BridgeAdmitsDelete(d) ==
  /\ d \in deletes["sent"]
  /\ deletes' = [deletes EXCEPT !["sent"] = @ \ {d},
                                !["admitted"] = IF AdmitsDelete(d) THEN @ \cup {d} ELSE @]
  /\ UNCHANGED <<bridge, harness, owned, calls, unload, prune>>

BridgeDeletes(d) ==
  /\ d \in deletes["admitted"]
  /\ Delete(d.id)
  /\ deletes' = [deletes EXCEPT !["admitted"] = @ \ {d}]
  /\ UNCHANGED <<harness, owned, calls, unload, prune>>

DeleteFails(d) ==
  /\ "call" \in Faults
  /\ \E at \in DOMAIN deletes :
       d \in deletes[at] /\ deletes' = [deletes EXCEPT ![at] = @ \ {d}]
  /\ UNCHANGED <<bridge, harness, owned, calls, unload, prune>>

-----------------------------------------------------------------------------
(* The plugin is loaded, and prunes if the harness can list its sessions:   *)
(* it reads the sessions, then the bridge's list, then deletes.             *)

\* A pruning still under way from the previous load goes on; the bound is one at
\* a time, so a reload starts its own in its place or leaves it alone.
Load ==
  /\ ~mounted /\ unload = {}
  /\ mounted' = TRUE
  /\ prune' \in {prune} \cup IF config.account \/ "prune" \notin Faults THEN {}
                            ELSE {[stage |-> "sessions", live |-> {}]}
  /\ UNCHANGED <<bridge, config, agents, stored, owned, calls, deletes, unload>>

PruneReadsSessions ==
  /\ prune.stage = "sessions"
  /\ prune' = [stage |-> "list", live |-> stored]
  /\ UNCHANGED <<bridge, harness, owned, calls, deletes, unload>>

\* Mutant: an identity without a listed computer is taken along.
PruneReadsListBlindly ==
  /\ prune.stage = "list"
  /\ prune' = Idle
  /\ Deletion({[id |-> container[b], capability |-> Adopt, by |-> Pruning] :
               b \in Bots \ prune.live})
  /\ UNCHANGED <<bridge, harness, owned, calls, unload>>

PruneReadsList ==
  /\ prune.stage = "list"
  /\ prune' = Idle
  /\ Deletion({[id |-> container[b], capability |-> Adopt, by |-> Pruning] :
               b \in {b \in Bots \ prune.live : container[b] \in Listed}})
  /\ UNCHANGED <<bridge, harness, owned, calls, unload>>

-----------------------------------------------------------------------------
(* The harness around the plugin, and the ends of the two processes.        *)

\* A conversation begins, perhaps before the store knows of it, or one in the
\* store is resumed.
AgentOpens(s) ==
  /\ agents[s] = "none" \/ (agents[s] = "disposed" /\ s \in stored)
  /\ agents' = [agents EXCEPT ![s] = "open"]
  /\ stored' \in {stored \cup {s}} \cup IF s \in Late THEN {stored} ELSE {}
  /\ UNCHANGED <<bridge, config, mounted, owned, calls, deletes, unload, prune>>

StoreLearns(s) ==
  /\ agents[s] = "open" /\ s \notin stored
  /\ stored' = stored \cup {s}
  /\ UNCHANGED <<bridge, config, mounted, agents, owned, calls, deletes, unload, prune>>

StoreForgets(s) ==
  /\ "forget" \in Faults
  /\ s \in stored /\ agents[s] # "open"
  /\ stored' = stored \ {s}
  /\ UNCHANGED <<bridge, config, mounted, agents, owned, calls, deletes, unload, prune>>

\* Requests already sent may still be served; the store and the bridge stay.
HarnessDies ==
  /\ "harness" \in Faults
  /\ mounted' = FALSE
  /\ agents' = [s \in Sessions |-> IF agents[s] = "open" THEN "disposed" ELSE agents[s]]
  /\ owned' = [b \in Bots |-> [id \in Creates |-> None]]
  /\ dropped' = {c \in Calls : phase[c] \notin {"idle", "done"}}
  /\ unload' = {}
  /\ prune' = Idle
  /\ UNCHANGED <<bridge, config, stored, call, phase, deletes>>

\* The connections break: no capability for a computer just provisioned.  What
\* has not reached the bridge may be served after the restart, and a destroy
\* that is at Rakazo still acts; its answer makes no difference to the plugin.
BridgeRestarts ==
  /\ config \in Restarts
  /\ Forget
  /\ phase' = [c \in Calls |-> IF phase[c] = "provisioned" THEN "refused" ELSE phase[c]]
  /\ UNCHANGED <<harness, owned, call, dropped, deletes, unload, prune>>

-----------------------------------------------------------------------------
Steps ==
  \/ \E c \in Calls :
       \/ \E s \in Sessions :
            \/ Create(c, s)
            \/ \E id \in Creates : Use(c, s, id) \/ Destroy(c, s, id)
       \/ BridgeProvisions(c) \/ BridgeIssues(c)
       \/ BridgeAdmits(c) \/ BridgeDestroys(c) \/ BridgeFails(c)
       \/ Returns(c) \/ CallFails(c)
  \/ \E s \in Sessions : AgentOpens(s) \/ AgentDisposed(s) \/ StoreLearns(s) \/ StoreForgets(s)
  \/ \E d \in deletes["sent"] \cup deletes["admitted"] :
       BridgeAdmitsDelete(d) \/ BridgeDeletes(d) \/ DeleteFails(d)
  \/ \E b \in unload : UnloadReleases(b)
  \/ Load \/ Unload
  \/ PruneReadsSessions \/ PruneReadsList

Next == Steps \/ HarnessDies \/ BridgeRestarts

Spec == Init /\ [][Next]_vars
-----------------------------------------------------------------------------
(* What the plugin promises.                                                *)

\* A call on a computer comes from the scope that the computer was provisioned
\* for, through every release, resumption, reload and crash: the identity the
\* bridge knows and the scope the capability is kept under never part, so
\* naming another session's computer does not reach it.
CallerReachesOwnScope ==
  \A c \in Calls :
    call[c].op \in {"use", "destroy"} => call[c].scope = call[call[c].id].scope

\* A session's end deletes no computer but its own scope's: a teammate that
\* leaves, whatever the agent or the store know of its lineage then, does not
\* take its Team's computer along.
ExitDeletesOwnComputerOnly ==
  \A at \in DOMAIN deletes : \A d \in deletes[at] :
    d.by \in Sessions => call[d.id].scope = d.by

\* Two open conversations that can reach the same computer share a display only
\* where the code gives neither a name for one: each is the computer's principal
\* or an agent without a session id.  Every other Team member or conversation of
\* an account has a screen of its own, whether its lineage was known when it
\* began, became known later, or was lost by a pruned store.
ScreensAreDistinct ==
  \A s, t \in Sessions :
    /\ s # t /\ agents[s] = "open" /\ agents[t] = "open"
    /\ Held(ScopeOf(s)) \cap Held(ScopeOf(t)) # {}
    /\ ScreenIdFor(s, ScopeOf(s)) = ScreenIdFor(t, ScopeOf(t))
    => \A u \in {s, t} : u \in Bare \/ u = ScopeOf(u)

\* No release ends a machine that is to outlive its conversations: an account's
\* ends only when an agent destroys it, and neither a disposal, nor an unload, nor
\* a delete of theirs still under way takes a kept one along.  Pruning does end a
\* kept computer whose session is gone: pruneAbandoned looks at no row but the
\* account, against README.md:184-187 of the repository.  What is stated here is
\* what the code keeps of that promise.
EndedByRequest(b) ==
  \E c \in Calls : call[c].op = "destroy" /\ call[c].id = container[b] /\ phase[c] = "admitted"

EndedByPruning(b) == \E d \in deletes["admitted"] : d.by = Pruning /\ d.id = container[b]

ReleasesSparePersistentComputers ==
  [][\A b \in Bots :
       container[b] # None /\ container'[b] # container[b] =>
         /\ config.account => EndedByRequest(b)
         /\ config.keep => EndedByRequest(b) \/ EndedByPruning(b)]_vars

\* "Disposing an Agent destroys that session's computers": with nothing under
\* way and no failure, a closed conversation has no container.
Quiet ==
  /\ \A c \in Calls : phase[c] \in {"idle", "done"}
  /\ \A at \in DOMAIN deletes : deletes[at] = {}
  /\ unload = {}

ClosedConversationLeavesNoComputer ==
  Quiet /\ mounted => \A s \in Sessions : agents[s] = "disposed" => container[s] = None

\* Pruning rather leaves a computer than kills a live session's: what it is
\* about to delete belongs to no open conversation.
PruningSparesLiveSessions ==
  \A d \in deletes["sent"] : d.by = Pruning => agents[call[d.id].scope] # "open"
=============================================================================
