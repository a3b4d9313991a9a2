------------------------------- MODULE FifoLock -------------------------------
(***************************************************************************)
(* What #lock promises: the jobs of one key run one at a time, in order of *)
(* arrival, and a job that fails lets the next one run.                    *)
(***************************************************************************)
EXTENDS Sequences

CONSTANTS Keys, Jobs

VARIABLES
  queue,   \* per key, the jobs that arrived and have not ended, oldest first
  stage    \* per job: new, waiting, running or ended

fifoVars == <<queue, stage>>

FifoInit ==
  /\ queue = [k \in Keys |-> <<>>]
  /\ stage = [j \in Jobs |-> "new"]

Join(j, k) ==
  /\ stage[j] = "new"
  /\ stage' = [stage EXCEPT ![j] = "waiting"]
  /\ queue' = [queue EXCEPT ![k] = Append(@, j)]

Oldest(j, k) == queue[k] # <<>> /\ Head(queue[k]) = j

Run(j) ==
  /\ stage[j] = "waiting"
  /\ \E k \in Keys : Oldest(j, k)
  /\ stage' = [stage EXCEPT ![j] = "running"]
  /\ UNCHANGED queue

\* A job may end the moment its turn comes.
Leave(j) ==
  /\ stage[j] \in {"waiting", "running"}
  /\ \E k \in Keys : Oldest(j, k) /\ queue' = [queue EXCEPT ![k] = Tail(@)]
  /\ stage' = [stage EXCEPT ![j] = "ended"]

\* The process of the lock dies.
Reset ==
  /\ queue' = [k \in Keys |-> <<>>]
  /\ stage' = [j \in Jobs |-> IF stage[j] \in {"waiting", "running"} THEN "ended" ELSE stage[j]]

FifoNext ==
  \/ \E j \in Jobs : Run(j) \/ Leave(j) \/ \E k \in Keys : Join(j, k)
  \/ Reset

FifoSpec == FifoInit /\ [][FifoNext]_fifoVars

\* Jobs whose turn has come do run, and end.
FifoFairSpec == FifoSpec /\ \A j \in Jobs : WF_fifoVars(Run(j) \/ Leave(j))
=============================================================================
