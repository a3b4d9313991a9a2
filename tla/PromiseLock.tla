----------------------------- MODULE PromiseLock -----------------------------
(***************************************************************************)
(* #lock as it is written: a Map from key to the promise of the last job,  *)
(* and each job chained on the promise it found there.                     *)
(*   const settled = previous.then(work, work)                             *)
(* The promise kept in the Map is settled.then(() => undefined, ...): it   *)
(* is fulfilled whichever way the job ended.                               *)
(***************************************************************************)
EXTENDS SequencesExt

CONSTANTS Keys, Jobs, None

ASSUME NoneIsNoJob == None \notin Jobs

VARIABLES
  last,       \* the Map #locks: key -> the job whose promise it holds, or None
  previous,   \* per job, the job it is chained on, or None (Promise.resolve())
  keyOf,      \* per job, its key, or None
  promise     \* per job: none, pending, running, fulfilled or rejected

lockVars == <<last, previous, keyOf, promise>>

Settled == {"fulfilled", "rejected"}

LockTypeOK ==
  /\ last \in [Keys -> Jobs \cup {None}]
  /\ previous \in [Jobs -> Jobs \cup {None}]
  /\ keyOf \in [Jobs -> Keys \cup {None}]
  /\ promise \in [Jobs -> {"none", "pending", "running"} \cup Settled]

LockInit ==
  /\ last = [k \in Keys |-> None]
  /\ previous = [j \in Jobs |-> None]
  /\ keyOf = [j \in Jobs |-> None]
  /\ promise = [j \in Jobs |-> "none"]

\* Mutants: a Map that holds the key and not the promise; a Map entry replaced
\* only when the key is free; work chained for success only.
LockKeepingKey(j, key) ==
  /\ promise[j] = "none"
  /\ previous' = [previous EXCEPT ![j] = last[key]]
  /\ last' = [last EXCEPT ![key] = key]
  /\ keyOf' = [keyOf EXCEPT ![j] = key]
  /\ promise' = [promise EXCEPT ![j] = "pending"]

LockKeepingFirst(j, key) ==
  /\ promise[j] = "none"
  /\ previous' = [previous EXCEPT ![j] = last[key]]
  /\ last' = [last EXCEPT ![key] = IF @ = None \/ promise[@] \in Settled THEN j ELSE @]
  /\ keyOf' = [keyOf EXCEPT ![j] = key]
  /\ promise' = [promise EXCEPT ![j] = "pending"]

PreviousFulfilled(j) == previous[j] # None => promise[previous[j]] = "fulfilled"

\* #lock(key, work), to its return: no await inside.
Lock(j, key) ==
  /\ promise[j] = "none"
  /\ previous' = [previous EXCEPT ![j] = last[key]]
  /\ last' = [last EXCEPT ![key] = j]
  /\ keyOf' = [keyOf EXCEPT ![j] = key]
  /\ promise' = [promise EXCEPT ![j] = "pending"]

\* The promise j waits for, as the Map keeps it, has settled.
PreviousSettled(j) == previous[j] # None => promise[previous[j]] \in Settled

\* previous.then(work, work) calls work.
Work(j) ==
  /\ promise[j] = "pending"
  /\ PreviousSettled(j)
  /\ promise' = [promise EXCEPT ![j] = "running"]
  /\ UNCHANGED <<last, previous, keyOf>>

\* The promise work returned settles.
Settle(j) ==
  /\ promise[j] = "running"
  /\ \E how \in Settled : promise' = [promise EXCEPT ![j] = how]
  /\ UNCHANGED <<last, previous, keyOf>>

LockNext == \E j \in Jobs : Work(j) \/ Settle(j) \/ \E k \in Keys : Lock(j, k)

LockSpec == LockInit /\ [][LockNext]_lockVars

\* A promise that can run does, and every job of the bridge ends (its calls
\* carry a timeout).
LockFairSpec == LockSpec /\ \A j \in Jobs : WF_lockVars(Work(j) \/ Settle(j))

-----------------------------------------------------------------------------
(* The queue the chain stands for.                                          *)

Unsettled(k) == {j \in Jobs : keyOf[j] = k /\ promise[j] \in {"pending", "running"}}

\* Each job is chained on the one before it, and the Map holds the last one.
Chained(jobs, k) ==
  /\ jobs # <<>> => last[k] = jobs[Len(jobs)]
  /\ \A i \in 2..Len(jobs) : previous[jobs[i]] = jobs[i - 1]

\* A key has no queue when its jobs are not on one chain.
QueueOf(k) ==
  LET chains == {jobs \in SetToSeqs(Unsettled(k)) : Chained(jobs, k)}
  IN IF chains = {} THEN <<>> ELSE CHOOSE jobs \in chains : TRUE

Fifo == INSTANCE FifoLock WITH
  queue <- [k \in Keys |-> QueueOf(k)],
  stage <- [j \in Jobs |-> CASE promise[j] = "none" -> "new"
                             [] promise[j] = "pending" -> "waiting"
                             [] promise[j] = "running" -> "running"
                             [] OTHER -> "ended"]

\* The promise chain is a first-in first-out lock, and a fair one.
ImplementsFifoLock == Fifo!FifoFairSpec

\* The jobs of S and whatever they wait for.
Followed(S) == \A j \in S : PreviousSettled(j) \/ previous[j] \in S

\* The Map never loses a job that waits: while a job of the key has not ended,
\* the promise the Map holds is of such a job, and following the chain from it
\* meets them all.
ChainReachesEveryJob ==
  \A k \in Keys : Unsettled(k) # {} =>
    /\ last[k] \in Unsettled(k)
    /\ \A S \in SUBSET Jobs : last[k] \in S /\ Followed(S) => Unsettled(k) \subseteq S
=============================================================================
