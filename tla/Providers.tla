------------------------------ MODULE Providers ------------------------------
(***************************************************************************)
(* The file and shell providers of one harness process and the computers   *)
(* map they share: the first call for a bot identity creates its computer, *)
(* calls that come meanwhile wait for the same promise, later ones use the *)
(* record it left.                                                         *)
(*                                                                         *)
(* A call is one shell run, or one round-trip of a file operation.  The    *)
(* create that it may send is named after it.  A call goes                 *)
(*   idle -> creating    its create is out at the bridge                   *)
(*        -> issuing     Rakazo has provisioned, no capability given yet   *)
(*        -> issued      the answer is on its way back; or                 *)
(*        -> refused     an error is                                       *)
(*   idle or issued    -> ready    it has a record                         *)
(*   idle -> waiting     on the promise of its identity, then ready        *)
(*   ready -> sent -> served -> done                                       *)
(* and any failure ends it.                                                *)
(***************************************************************************)
EXTENDS Scope, FiniteSets, Naturals

CONSTANTS
  Bots,           \* bot identities: one per scope, and the agentless one
  DefaultScope,   \* the scope of a call without a session
  Creates,        \* the calls that may create a computer, the providers' and others':
                  \* each names the container it provisions and the capability it is given
  Calls,          \* the providers' calls
  Callers,        \* whom the calls come from, and whether the session's policy comes along
  Lineages,       \* the lineages a behaviour starts with
  RowConfig,      \* the plugin's row config, beside the providers
  Faults          \* what may happen: "call" fails, "abort", "bridge" restarts

ASSUME ProvidersAssumption ==
  /\ Bots = Sessions \cup {Account, DefaultScope}
  /\ Calls \subseteq Creates
  /\ Callers \subseteq [by: Sessions \cup {None}, policy: BOOLEAN]
  /\ Lineages \subseteq [Sessions -> Sessions \cup {None}]
  /\ RowConfig \in Configs
  /\ None \notin Creates \cup {DefaultScope}

VARIABLES
  container, opens, creating,   \* the bridge: BridgeView
  lineage,    \* per session, its parentSession: what the session store holds
  promise,    \* computers map: per bot, the call whose promise it keeps, or None
  record,     \* computers map: per bot, its computer and capability, or NoRecord
  call,       \* per call, its session, whether it comes with the session's policy,
              \* its bot, the promise it waits for, its record
  phase,      \* per call, how far it is
  dropped,    \* the creates whose fetch has failed; the bridge may still act
  outcome     \* per call, what its caller got

INSTANCE BridgeView WITH Containers <- Creates, Capabilities <- Creates

bridge == <<container, opens, creating>>
cache  == <<promise, record>>
vars   == <<container, opens, creating, lineage, promise, record, call, phase, dropped, outcome>>

NoRecord == [id |-> None, capability |-> None]
Records  == [id: Creates, capability: Calls] \cup {NoRecord}
NoCall   == [by |-> None, policy |-> FALSE, bot |-> None, on |-> None, record |-> NoRecord]

Phases   == {"idle", "creating", "issuing", "issued", "refused", "waiting", "ready", "sent",
             "served", "done"}
Outcomes == {"ok", "refused", "gone", "failed", "aborted", None}

TypeOK ==
  /\ BridgeTypeOK
  /\ lineage \in Lineages
  /\ promise \in [Bots -> Calls \cup {None}]
  /\ record \in [Bots -> Records]
  /\ call \in [Calls -> [by: Sessions \cup {None}, policy: BOOLEAN,
                         bot: Bots \cup {None}, on: Calls \cup {None},
                         record: Records]]
  /\ phase \in [Calls -> Phases]
  /\ dropped \in SUBSET Calls
  /\ outcome \in [Calls -> Outcomes]

Init ==
  /\ BridgeInit
  /\ lineage \in Lineages
  /\ promise = [b \in Bots |-> None]
  /\ record = [b \in Bots |-> NoRecord]
  /\ call = [c \in Calls |-> NoCall]
  /\ phase = [c \in Calls |-> "idle"]
  /\ dropped = {}
  /\ outcome = [c \in Calls |-> None]

-----------------------------------------------------------------------------
(* ensureComputer                                                           *)

\* The sandbox policy names the session; stat, read and list are not given one.
BotOf(s, policy) == IF s = None \/ ~policy THEN DefaultScope ELSE ScopeKeyFor(s, lineage, Sessions)

Begins(c, s, policy, next, on, rec) ==
  /\ phase' = [phase EXCEPT ![c] = next]
  /\ call' = [call EXCEPT ![c] = [by |-> s, policy |-> policy, bot |-> BotOf(s, policy),
                                  on |-> on, record |-> rec]]
  /\ UNCHANGED <<bridge, lineage, record, dropped, outcome>>

\* Mutant: only a finished create is remembered.
EnsureUnlessRecord(c, s, policy) ==
  /\ phase[c] = "idle"
  /\ LET b == BotOf(s, policy) IN
     \/ /\ record[b] # NoRecord
        /\ Begins(c, s, policy, "ready", None, record[b])
        /\ UNCHANGED promise
     \/ /\ record[b] = NoRecord
        /\ Begins(c, s, policy, "creating", c, NoRecord)
        /\ promise' = [promise EXCEPT ![b] = c]

\* Mutant: the process has one computer, whoever calls.
EnsureAnyRecord(c, s, policy) ==
  /\ phase[c] = "idle"
  /\ \/ \E b \in Bots : /\ record[b] # NoRecord
                       /\ Begins(c, s, policy, "ready", None, record[b])
                       /\ UNCHANGED promise
     \/ /\ \A b \in Bots : record[b] = NoRecord
        /\ Begins(c, s, policy, "creating", c, NoRecord)
        /\ promise' = [promise EXCEPT ![BotOf(s, policy)] = c]

Ensure(c, s, policy) ==
  /\ phase[c] = "idle"
  /\ LET b == BotOf(s, policy) IN
     \/ /\ record[b] # NoRecord
        /\ Begins(c, s, policy, "ready", None, record[b])
        /\ UNCHANGED promise
     \/ /\ record[b] = NoRecord /\ promise[b] # None
        /\ Begins(c, s, policy, "waiting", promise[b], NoRecord)
        /\ UNCHANGED promise
     \/ /\ record[b] = NoRecord /\ promise[b] = None
        /\ Begins(c, s, policy, "creating", c, NoRecord)
        /\ promise' = [promise EXCEPT ![b] = c]

BridgeProvisions(c) ==
  /\ phase[c] = "creating"
  /\ Provision(call[c].bot, c, c)
  /\ phase' = [phase EXCEPT ![c] = "issuing"]
  /\ UNCHANGED <<lineage, cache, call, dropped, outcome>>

BridgeIssues(c) ==
  /\ phase[c] = "issuing"
  /\ Issue(call[c].bot)
  /\ call' = [call EXCEPT ![c].record = creating[call[c].bot]]
  /\ phase' = [phase EXCEPT ![c] = "issued"]
  /\ UNCHANGED <<lineage, cache, dropped, outcome>>

\* The bridge answers an error, whatever Rakazo did with the create.
BridgeFails(c) ==
  /\ "call" \in Faults
  /\ \/ phase[c] = "creating" /\ (UNCHANGED bridge \/ ProvisionLate(call[c].bot, c))
     \/ phase[c] = "issuing" /\ GiveUp(call[c].bot)
  /\ phase' = [phase EXCEPT ![c] = "refused"]
  /\ UNCHANGED <<lineage, cache, call, dropped, outcome>>

\* Mutant: the map keeps the computer's id alone.
CreateReturnsId(c) ==
  /\ phase[c] = "issued" /\ c \notin dropped
  /\ promise' = [promise EXCEPT ![call[c].bot] = None]
  /\ record' = [record EXCEPT ![call[c].bot] = call[c].record.id]
  /\ phase' = [phase EXCEPT ![c] = "ready"]
  /\ UNCHANGED <<bridge, lineage, call, dropped, outcome>>

CreateReturns(c) ==
  /\ phase[c] = "issued" /\ c \notin dropped
  /\ promise' = [promise EXCEPT ![call[c].bot] = None]
  /\ record' = [record EXCEPT ![call[c].bot] = call[c].record]
  /\ phase' = [phase EXCEPT ![c] = "ready"]
  /\ UNCHANGED <<bridge, lineage, call, dropped, outcome>>

\* An error comes back, or the fetch fails whatever the bridge does; nothing
\* takes the rejected promise out of the map.
CreateFails(c) ==
  /\ \/ phase[c] = "refused"
     \/ "call" \in Faults /\ phase[c] \in {"creating", "issuing", "issued"}
  /\ c \notin dropped
  /\ dropped' = dropped \cup {c}
  /\ outcome' = [outcome EXCEPT ![c] = "failed"]
  /\ UNCHANGED <<bridge, lineage, cache, call, phase>>

\* The create of call c gave a record.
Kept(c) == phase[c] \in {"ready", "sent", "served", "done"}

\* Mutant: only a promise that was kept wakes its waiters.
ResumeWithRecord(c) ==
  /\ phase[c] = "waiting"
  /\ Kept(call[c].on)
  /\ phase' = [phase EXCEPT ![c] = "ready"]
  /\ call' = [call EXCEPT ![c].record = call[call[c].on].record]
  /\ UNCHANGED <<bridge, lineage, cache, dropped, outcome>>

\* A waiter gets what the promise gave: the record or the failure.
Resume(c) ==
  /\ phase[c] = "waiting"
  /\ \/ /\ Kept(call[c].on)
        /\ call' = [call EXCEPT ![c].record = call[call[c].on].record]
        /\ phase' = [phase EXCEPT ![c] = "ready"]
        /\ UNCHANGED outcome
     \/ /\ call[c].on \in dropped
        /\ phase' = [phase EXCEPT ![c] = "done"]
        /\ outcome' = [outcome EXCEPT ![c] = "failed"]
        /\ UNCHANGED call
  /\ UNCHANGED <<bridge, lineage, cache, dropped>>

-----------------------------------------------------------------------------
(* The request itself.                                                      *)

Sends(c) ==
  /\ phase[c] = "ready"
  /\ phase' = [phase EXCEPT ![c] = "sent"]
  /\ UNCHANGED <<bridge, lineage, cache, call, dropped, outcome>>

BridgeServes(c) ==
  /\ phase[c] = "sent"
  /\ phase' = [phase EXCEPT ![c] = "served"]
  /\ outcome' = [outcome EXCEPT ![c] =
                   IF ~Accepts(call[c].record.id, call[c].record.capability) THEN "refused"
                   ELSE IF Alive(call[c].record.id) THEN "ok" ELSE "gone"]
  /\ UNCHANGED <<bridge, lineage, cache, call, dropped>>

Returns(c) ==
  /\ phase[c] = "served"
  /\ phase' = [phase EXCEPT ![c] = "done"]
  /\ UNCHANGED <<bridge, lineage, cache, call, dropped, outcome>>

\* The fetch fails or times out, or the caller's signal fires.
Ends(c, how) ==
  /\ phase[c] \in {"sent", "served"}
  /\ phase' = [phase EXCEPT ![c] = "done"]
  /\ outcome' = [outcome EXCEPT ![c] = how]
  /\ UNCHANGED <<bridge, lineage, cache, call, dropped>>

CallFails(c) == "call" \in Faults /\ Ends(c, "failed")

Aborts(c) == "abort" \in Faults /\ Ends(c, "aborted")

\* The connections break; see RakazoPlugin.
BridgeRestarts ==
  /\ "bridge" \in Faults
  /\ Forget
  /\ phase' = [c \in Calls |-> IF phase[c] = "issuing" THEN "refused" ELSE phase[c]]
  /\ UNCHANGED <<lineage, cache, call, dropped, outcome>>

-----------------------------------------------------------------------------
Steps ==
  \E c \in Calls :
    \/ \E caller \in Callers : Ensure(c, caller.by, caller.policy)
    \/ BridgeProvisions(c) \/ BridgeIssues(c) \/ BridgeFails(c)
    \/ CreateReturns(c) \/ CreateFails(c) \/ Resume(c)
    \/ Sends(c) \/ BridgeServes(c) \/ Returns(c)
    \/ CallFails(c) \/ Aborts(c)

Next == Steps \/ BridgeRestarts

Spec == Init /\ [][Next]_vars

\* The event loop runs what can run, and every fetch ends: AbortSignal.timeout.
\* The bridge need not answer.
Fairness ==
  \A c \in Calls :
    /\ WF_vars(CreateReturns(c) \/ CreateFails(c))
    /\ WF_vars(Resume(c))
    /\ WF_vars(Sends(c))
    /\ WF_vars(Returns(c) \/ CallFails(c))

FairSpec == Spec /\ Fairness
-----------------------------------------------------------------------------
(* What the providers promise.                                              *)

\* Of all calls for one bot identity only one ever creates its computer: the
\* bridge would rotate the capability under the first holder, as
\* providers/bridge.js:7-12 says.
OneCreatePerBot ==
  \A c, d \in Calls :
    call[c].on = c /\ call[d].on = d /\ call[c].bot = call[d].bot => c = d

\* In a team of a Lead and its teammates the providers and a plugin that
\* shares name the same computer, so that the native shell and writes and
\* the plugin's exec act on one machine.
TwoLevels == \A s \in Sessions : lineage[s] # None => lineage[lineage[s]] = None

TeamToolsShareComputer ==
  RowConfig.share /\ ~RowConfig.account /\ TwoLevels =>
    \A c \in Calls : call[c].by # None /\ call[c].policy =>
      call[c].bot = ScopeKeyOf(call[c].by, RowConfig, lineage, {}, Sessions)

\* The scope a call works on is the session itself or an ancestor, and where the
\* lineage has an end that end, however deep the session was delegated.
CallReachesTeamRoot ==
  \A c \in Calls : call[c].by # None /\ call[c].policy =>
    /\ call[c].bot \in Reachable(call[c].by, lineage)
    /\ \A r \in Reachable(call[c].by, lineage) : lineage[r] = None => call[c].bot = r

\* Every call ends, also those that wait for a create that fails.
Ended(c) == phase[c] = "done" \/ c \in dropped

EveryCallEnds == \A c \in Calls : phase[c] # "idle" ~> Ended(c)

\* Restarting the bridge is documented to be safe: a call that begins later
\* gets a computer that the bridge will let it use.
CallsBeginWithValidRecord ==
  [][\A c \in Calls :
       phase[c] = "idle" /\ phase'[c] = "ready" =>
         Accepts(call'[c].record.id, call'[c].record.capability)]_vars
=============================================================================
