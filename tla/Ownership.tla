------------------------------ MODULE Ownership ------------------------------
(***************************************************************************)
(* What the ownership rules at the head of computers.mjs promise, without  *)
(* locks, calls or machines: a computer has at most one holder, the last   *)
(* capability minted for it; work on a computer starts only for who        *)
(* presents its holder of that moment, but for an adoption, which presents *)
(* none and may only tear down; a capability is minted once, so that a     *)
(* replaced or forgotten one never opens anything again; a restart forgets *)
(* all.                                                                    *)
(***************************************************************************)
CONSTANTS Computers, Capabilities, Workers, None

VARIABLES
  holder,   \* per computer, the capability that opens it, or None
  minted,   \* every capability handed out so far
  work      \* per worker, the computer it is at, the capability it presented, its task

ownershipVars == <<holder, minted, work>>

Tasks  == {"use", "teardown"}
NoWork == [id |-> None, capability |-> None, task |-> None]

OwnershipInit ==
  /\ holder = [id \in Computers |-> None]
  /\ minted = {}
  /\ work = [w \in Workers |-> NoWork]

\* The worker that creates gets the capability; it holds no work itself.
Mint(id, c) ==
  /\ c \notin minted
  /\ holder' = [holder EXCEPT ![id] = c]
  /\ minted' = minted \cup {c}
  /\ UNCHANGED work

\* c is what the caller presents.
StartWork(w, id, c, task) ==
  /\ c = holder[id]
  /\ c # None
  /\ work[w] = NoWork
  /\ work' = [work EXCEPT ![w] = [id |-> id, capability |-> c, task |-> task]]
  /\ UNCHANGED <<holder, minted>>

\* Whoever finds an abandoned computer may tear it down, with no capability.
Adopt(w, id) ==
  /\ holder[id] # None
  /\ work[w] = NoWork
  /\ work' = [work EXCEPT ![w] = [id |-> id, capability |-> None, task |-> "teardown"]]
  /\ UNCHANGED <<holder, minted>>

EndWork(w) ==
  /\ work[w] # NoWork
  /\ work' = [work EXCEPT ![w] = NoWork]
  /\ UNCHANGED <<holder, minted>>

Forget ==
  /\ holder' = [id \in Computers |-> None]
  /\ work' = [w \in Workers |-> NoWork]
  /\ UNCHANGED minted

OwnershipNext ==
  \/ \E id \in Computers, c \in Capabilities : Mint(id, c)
  \/ \E w \in Workers :
       \/ EndWork(w)
       \/ \E id \in Computers :
            \/ Adopt(w, id)
            \/ \E c \in Capabilities, task \in Tasks : StartWork(w, id, c, task)
  \/ Forget

OwnershipSpec == OwnershipInit /\ [][OwnershipNext]_ownershipVars
=============================================================================
