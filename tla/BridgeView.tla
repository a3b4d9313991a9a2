----------------------------- MODULE BridgeView -----------------------------
(***************************************************************************)
(* The bridge and Rakazo as the code in the harness meets them, which      *)
(* ComputerControl implements: per bot at most one live container, and per *)
(* container at most one capability that opens it.                         *)
(*                                                                         *)
(* A create holds its bot's lock while it provisions at Rakazo and, when   *)
(* the answer is back, installs a new capability.  A destroy runs under    *)
(* another lock, so the container may end in between.                      *)
(***************************************************************************)
CONSTANTS
  Bots,          \* bot identities
  Containers,    \* container ids
  Capabilities,  \* each create mints one
  None

VARIABLES
  container,  \* per bot, its live container, or None
  opens,      \* per container, the capability that opens it, or None: no record
  creating    \* per bot, the create that has provisioned and not yet answered

viewVars == <<container, opens, creating>>

NoCreate == [id |-> None, capability |-> None]

BridgeTypeOK ==
  /\ container \in [Bots -> Containers \cup {None}]
  /\ opens \in [Containers -> Capabilities \cup {None}]
  /\ creating \in [Bots -> [id: Containers \cup {None}, capability: Capabilities \cup {None}]]

BridgeInit ==
  /\ container = [b \in Bots |-> None]
  /\ opens = [id \in Containers |-> None]
  /\ creating = [b \in Bots |-> NoCreate]

Alive(id) == \E b \in Bots : container[b] = id

\* The computers GET /v1/computers shows.
Listed == {id \in Containers : Alive(id) /\ opens[id] # None}

\* The record is there and its capability is this one.
Accepts(id, capability) == opens[id] # None /\ opens[id] = capability

-----------------------------------------------------------------------------
\* POST /v1/computers: the bot's container, or the new one.
Provision(b, new, capability) ==
  /\ creating[b] = NoCreate
  /\ container[b] = None => ~Alive(new)
  /\ container' = [container EXCEPT ![b] = IF @ = None THEN new ELSE @]
  /\ creating' = [creating EXCEPT ![b] = [id |-> container'[b], capability |-> capability]]
  /\ UNCHANGED opens

Issue(b) ==
  /\ creating[b] # NoCreate
  /\ opens' = [opens EXCEPT ![creating[b].id] = creating[b].capability]
  /\ creating' = [creating EXCEPT ![b] = NoCreate]
  /\ UNCHANGED container

\* The answer to the create was lost, and its lock is free.
GiveUp(b) ==
  /\ creating[b] # NoCreate
  /\ creating' = [creating EXCEPT ![b] = NoCreate]
  /\ UNCHANGED <<container, opens>>

\* Rakazo acts on a create that the bridge no longer waits for.
ProvisionLate(b, new) ==
  /\ container[b] = None /\ ~Alive(new)
  /\ container' = [container EXCEPT ![b] = new]
  /\ UNCHANGED <<opens, creating>>

\* The container ends: an admitted DELETE, or somebody outside.
Delete(id) ==
  /\ container' = [b \in Bots |-> IF container[b] = id THEN None ELSE container[b]]
  /\ UNCHANGED <<opens, creating>>

\* The bridge restarts; the containers stay.
Forget ==
  /\ opens' = [id \in Containers |-> None]
  /\ creating' = [b \in Bots |-> NoCreate]
  /\ UNCHANGED container

BridgeNext ==
  \/ \E b \in Bots :
       \/ \E new \in Containers, c \in Capabilities : Provision(b, new, c)
       \/ \E new \in Containers : ProvisionLate(b, new)
       \/ Issue(b) \/ GiveUp(b)
  \/ \E id \in Containers : Delete(id)
  \/ Forget

BridgeSpec == BridgeInit /\ [][BridgeNext]_viewVars
=============================================================================
