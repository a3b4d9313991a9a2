------------------------------- MODULE Harness -------------------------------
(***************************************************************************)
(* One harness process with the plugin and the native providers mounted:   *)
(* the two ways to reach a computer, over one bridge and one session       *)
(* store.  They share no state of their own; each keeps the capabilities   *)
(* it was given, and the bridge keeps the last one of each computer.       *)
(*                                                                         *)
(* What happens when the process ends is in RakazoPlugin and Providers,    *)
(* each for itself.                                                        *)
(***************************************************************************)
EXTENDS Naturals

CONSTANTS
  Sessions, Account, DefaultScope, MaxHops, None,
  Bots,
  ToolCalls,     \* the rakazo_* tool calls
  NativeCalls,   \* the shell runs and the round-trips of file operations
  Parent, Inline, Bare, Late, RowConfig, Restarts, Callers, Faults,
  Adopt, Unloading, Pruning

Creates == ToolCalls \cup NativeCalls

\* A call is the plugin's or the providers', never both's.
ASSUME HarnessAssumption ==
  /\ Bots = Sessions \cup {Account, DefaultScope}
  /\ Account \notin Sessions
  /\ None \notin Bots \cup Creates \cup {"create", "use", "destroy"}
  /\ MaxHops \in Nat \ {0}
  /\ ToolCalls \cap NativeCalls = {}
  /\ Parent \in [Sessions -> Sessions \cup {None}]
  /\ Inline \subseteq Sessions
  /\ Bare \subseteq Sessions \ Inline
  /\ RowConfig \in [share: BOOLEAN, keep: BOOLEAN, account: BOOLEAN]
  /\ Callers \subseteq [by: Sessions \cup {None}, policy: BOOLEAN]
  /\ {Adopt, Unloading, Pruning} \cap (Creates \cup Sessions \cup {None, Account}) = {}

VARIABLES
  container, opens, creating,                      \* the bridge
  config, mounted, agents, stored,                 \* the harness and its session store
  owned, toolCall, toolPhase, toolDropped,         \* the plugin
  deletes, unload, prune,
  promise, record,                                 \* the providers
  nativeCall, nativePhase, nativeDropped, outcome

plugin == <<config, mounted, agents, stored, owned, toolCall, toolPhase, toolDropped,
            deletes, unload, prune>>
native == <<promise, record, nativeCall, nativePhase, nativeDropped, outcome>>
vars   == <<container, opens, creating, config, mounted, agents, stored, owned, toolCall,
            toolPhase, toolDropped, deletes, unload, prune, promise, record, nativeCall,
            nativePhase, nativeDropped, outcome>>

Plugin == INSTANCE RakazoPlugin WITH
  Calls <- ToolCalls, RowConfigs <- {RowConfig},
  call <- toolCall, phase <- toolPhase, dropped <- toolDropped

\* The providers walk the lineage that the session store has at the moment.
Native == INSTANCE Providers WITH
  Calls <- NativeCalls, Lineages <- [Sessions -> Sessions \cup {None}],
  lineage <- [s \in Sessions |-> IF s \in stored THEN Parent[s] ELSE None],
  call <- nativeCall, phase <- nativePhase, dropped <- nativeDropped

TypeOK == Plugin!TypeOK /\ Native!TypeOK

Init == Plugin!Init /\ Native!Init

PluginStep == Plugin!Steps /\ UNCHANGED native

\* A native call with a session is one of that session's agent.
NativeStep ==
  /\ UNCHANGED plugin
  /\ Native!Steps
  /\ \A c \in NativeCalls :
       nativePhase[c] = "idle" /\ nativePhase'[c] # "idle" =>
         nativeCall'[c].by = None \/ agents[nativeCall'[c].by] = "open"

\* The one bridge ends, for both.
BridgeRestarts == Plugin!BridgeRestarts /\ Native!BridgeRestarts

Next == PluginStep \/ NativeStep \/ BridgeRestarts

Spec == Init /\ [][Next]_vars
-----------------------------------------------------------------------------
(* What the two promise together.                                           *)

\* The identity a container was provisioned for, by either path.
MadeFor(id) == IF id \in ToolCalls THEN toolCall[id].scope ELSE nativeCall[id].bot

\* Whichever path provisioned a computer, a create of either path gives out a new
\* capability for its own identity's computer only, and a call of either path
\* works on the one of its own identity.
CallsReachOwnComputer ==
  /\ \A id \in Creates : opens[id] # None => MadeFor(opens[id]) = MadeFor(id)
  /\ \A c \in ToolCalls :
       toolCall[c].op \in {"use", "destroy"} => toolCall[c].scope = MadeFor(toolCall[c].id)
  /\ \A c \in NativeCalls :
       nativeCall[c].record.id # None => nativeCall[c].bot = MadeFor(nativeCall[c].record.id)

\* A native call is refused for two causes only: since its record was issued the
\* plugin has created the same computer again, or the bridge has restarted and
\* nobody has; never because of another native call.
RefusedForCause ==
  [][\A c \in NativeCalls :
       outcome[c] # "refused" /\ outcome'[c] = "refused" =>
         opens[nativeCall[c].record.id] \in ToolCalls \cup {None}]_vars

\* The providers cache the capability so that they share a live one: while the
\* computer lives, the cached one opens it.
CachedCapabilityIsLive ==
  \A b \in Bots :
    record[b].id # None /\ Plugin!Alive(record[b].id) =>
      Plugin!Accepts(record[b].id, record[b].capability)
=============================================================================
