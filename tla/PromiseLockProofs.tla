------------------------- MODULE PromiseLockProofs -------------------------
(***************************************************************************)
(* The Map of chained promises loses no job, and is a first-in first-out   *)
(* lock, for every set of keys and jobs and whichever way the jobs end.    *)
(***************************************************************************)
EXTENDS PromiseLock, SequenceTheorems, FiniteSetTheorems, WellFoundedInduction, TLAPS

-----------------------------------------------------------------------------
(* The inductive invariant.                                                 *)

\* Nothing is chained on a job that is not there, a job that runs has nothing
\* to wait for, and the Map holds a job under its own key.
ChainOK ==
  /\ \A j \in Jobs : previous[j] # None => promise[previous[j]] # "none"
  /\ \A j \in Jobs : promise[j] = "running" => PreviousSettled(j)
  /\ \A k \in Keys : last[k] # None => keyOf[last[k]] = k /\ promise[last[k]] # "none"

LockInv == LockTypeOK /\ ChainOK /\ ChainReachesEveryJob

LEMMA LockInitial == LockInit => LockInv
BY DEF LockInit, LockInv, LockTypeOK, ChainOK, ChainReachesEveryJob, Unsettled

LEMMA LockTypes == LockTypeOK /\ [LockNext]_lockVars => LockTypeOK'
<1> SUFFICES ASSUME LockTypeOK, [LockNext]_lockVars PROVE LockTypeOK'
  OBVIOUS
<1>1. ASSUME NEW j \in Jobs, NEW k \in Keys, Lock(j, k) PROVE LockTypeOK'
  BY <1>1 DEF Lock, LockTypeOK
<1>2. ASSUME NEW j \in Jobs, Work(j) \/ Settle(j) PROVE LockTypeOK'
  BY <1>2 DEF Work, Settle, LockTypeOK, Settled
<1>3. CASE UNCHANGED lockVars
  BY <1>3 DEF lockVars, LockTypeOK
<1> QED
  BY <1>1, <1>2, <1>3 DEF LockNext

LEMMA ChainStep == LockInv /\ [LockNext]_lockVars => ChainOK'
<1> SUFFICES ASSUME LockInv, [LockNext]_lockVars PROVE ChainOK'
  OBVIOUS
<1> USE NoneIsNoJob DEF LockInv, LockTypeOK, ChainOK, PreviousSettled, Settled
<1>1. ASSUME NEW j \in Jobs, NEW k \in Keys, Lock(j, k) PROVE ChainOK'
  <2>1. \A i \in Jobs : previous'[i] # None => promise'[previous'[i]] # "none"
    BY <1>1 DEF Lock
  <2>2. \A i \in Jobs : promise'[i] = "running" => PreviousSettled(i)'
    BY <1>1 DEF Lock
  <2>3. \A x \in Keys : last'[x] # None => keyOf'[last'[x]] = x /\ promise'[last'[x]] # "none"
    BY <1>1 DEF Lock
  <2> QED
    BY <2>1, <2>2, <2>3
<1>2. ASSUME NEW j \in Jobs, Work(j) PROVE ChainOK'
  BY <1>2 DEF Work
<1>3. ASSUME NEW j \in Jobs, Settle(j) PROVE ChainOK'
  BY <1>3 DEF Settle
<1>4. CASE UNCHANGED lockVars
  BY <1>4 DEF lockVars
<1> QED
  BY <1>1, <1>2, <1>3, <1>4 DEF LockNext

-----------------------------------------------------------------------------
(* The chain.                                                               *)

Reaches(k) == \A S \in SUBSET Jobs : last[k] \in S /\ Followed(S) => Unsettled(k) \subseteq S

\* A new job is put at the end of its key's chain: what follows it follows the
\* job it was chained on.
LEMMA LockReaches ==
  ASSUME LockInv, NEW j \in Jobs, NEW key \in Keys, Lock(j, key), NEW k \in Keys,
         Unsettled(k)' # {}
  PROVE  last'[k] \in Unsettled(k)' /\ Reaches(k)'
<1> USE NoneIsNoJob
<1>0. LockTypeOK /\ ChainOK /\ (Unsettled(k) # {} => last[k] \in Unsettled(k) /\ Reaches(k))
  BY DEF LockInv, ChainReachesEveryJob, Reaches
<1>1. Unsettled(k)' = IF k = key THEN Unsettled(k) \cup {j} ELSE Unsettled(k)
  BY <1>0 DEF Lock, LockTypeOK, Unsettled
<1>2. j \notin Unsettled(k)
  BY DEF Lock, Unsettled
<1>3. ASSUME NEW S \in SUBSET Jobs, Followed(S)' PROVE Followed(S \ {j})
  BY <1>0, <1>3 DEF Followed, PreviousSettled, Lock, LockTypeOK, ChainOK, Settled
<1>4. CASE k = key
  <2>1. last'[k] = j /\ previous'[j] = last[k]
    BY <1>0, <1>4 DEF Lock, LockTypeOK
  <2>2. ASSUME NEW S \in SUBSET Jobs, j \in S, Followed(S)' PROVE Unsettled(k)' \subseteq S
    <3>1. CASE Unsettled(k) = {}
      BY <1>1, <1>4, <2>2, <3>1
    <3>2. CASE Unsettled(k) # {}
      <4>1. last[k] \in Unsettled(k) /\ last[k] # j
        BY <1>0, <1>2, <3>2
      <4>2. ~PreviousSettled(j)'
        BY <1>0, <2>1, <4>1 DEF PreviousSettled, Unsettled, Lock, LockTypeOK, Settled
      <4>3. last[k] \in S \ {j}
        <5>1. PreviousSettled(j)' \/ previous'[j] \in S
          BY <2>2 DEF Followed
        <5> QED
          BY <2>1, <4>1, <4>2, <5>1
      <4> QED
        <5>1. S \ {j} \in SUBSET Jobs /\ Followed(S \ {j})
          BY <1>3, <2>2
        <5>2. Unsettled(k) \subseteq S \ {j}
          BY <1>0, <3>2, <4>3, <5>1 DEF Reaches
        <5> QED
          BY <1>1, <1>4, <2>2, <5>2
    <3> QED
      BY <3>1, <3>2
  <2> QED
    BY <1>1, <1>4, <2>1, <2>2 DEF Reaches
<1>5. CASE k # key
  <2>1. last'[k] = last[k] /\ last[k] \in Unsettled(k) /\ last[k] # j
    <3>1. Unsettled(k) # {}
      BY <1>1, <1>5
    <3>2. last[k] \in Unsettled(k) /\ last[k] # j
      BY <1>0, <1>2, <3>1
    <3>3. last'[k] = last[k]
      BY <1>0, <1>5 DEF Lock, LockTypeOK
    <3> QED
      BY <3>2, <3>3
  <2>2. ASSUME NEW S \in SUBSET Jobs, last[k] \in S, Followed(S)' PROVE Unsettled(k)' \subseteq S
    <3>1. S \ {j} \in SUBSET Jobs /\ Followed(S \ {j}) /\ last[k] \in S \ {j}
      BY <1>3, <2>1, <2>2
    <3>2. Unsettled(k) \subseteq S \ {j}
      BY <1>0, <2>1, <3>1 DEF Reaches
    <3> QED
      BY <1>1, <1>5, <3>2
  <2> QED
    BY <1>1, <1>5, <2>1, <2>2 DEF Reaches
<1> QED
  BY <1>4, <1>5

\* The job that ends had nothing before it, so the chain without it is still one.
LEMMA SettleReaches ==
  ASSUME LockInv, NEW j \in Jobs, Settle(j), NEW k \in Keys, Unsettled(k)' # {}
  PROVE  last'[k] \in Unsettled(k)' /\ Reaches(k)'
<1>0. LockTypeOK /\ ChainOK /\ (Unsettled(k) # {} => last[k] \in Unsettled(k) /\ Reaches(k))
  BY DEF LockInv, ChainReachesEveryJob, Reaches
<1>1. Unsettled(k)' = Unsettled(k) \ {j} /\ last' = last /\ previous' = previous
  BY <1>0 DEF Settle, LockTypeOK, Unsettled, Settled
<1>2. last[k] \in Unsettled(k) /\ Reaches(k)
  BY <1>0, <1>1
<1>3. PreviousSettled(j)
  BY <1>0 DEF Settle, ChainOK
<1>4. last[k] # j
  <2>1. Followed({j})
    BY <1>3 DEF Followed
  <2>2. last[k] = j => Unsettled(k) \subseteq {j}
    BY <1>2, <2>1 DEF Reaches
  <2> QED
    BY <1>1, <2>2
<1>5. ASSUME NEW S \in SUBSET Jobs, last[k] \in S, Followed(S)' PROVE Unsettled(k)' \subseteq S
  <2>1. Followed(S \cup {j})
    BY <1>0, <1>1, <1>3, <1>5 DEF Followed, PreviousSettled, Settle, LockTypeOK, Settled
  <2> QED
    BY <1>1, <1>2, <1>5, <2>1 DEF Reaches
<1> QED
  BY <1>1, <1>2, <1>4, <1>5 DEF Reaches

LEMMA ReachStep == LockInv /\ [LockNext]_lockVars => ChainReachesEveryJob'
<1> SUFFICES ASSUME LockInv, [LockNext]_lockVars, NEW k \in Keys, Unsettled(k)' # {}
             PROVE  last'[k] \in Unsettled(k)' /\ Reaches(k)'
  BY DEF ChainReachesEveryJob, Reaches
<1>1. ASSUME NEW j \in Jobs, NEW key \in Keys, Lock(j, key)
      PROVE  last'[k] \in Unsettled(k)' /\ Reaches(k)'
  BY <1>1, LockReaches
<1>2. ASSUME NEW j \in Jobs, Settle(j)
      PROVE  last'[k] \in Unsettled(k)' /\ Reaches(k)'
  BY <1>2, SettleReaches
<1>3. ASSUME (\E j \in Jobs : Work(j)) \/ UNCHANGED lockVars
      PROVE  last'[k] \in Unsettled(k)' /\ Reaches(k)'
  <2>1. last' = last /\ previous' = previous /\ Unsettled(k)' = Unsettled(k)
    BY <1>3 DEF LockInv, LockTypeOK, Work, lockVars, Unsettled
  <2>2. \A i \in Jobs : PreviousSettled(i)' = PreviousSettled(i)
    BY <1>3 DEF LockInv, LockTypeOK, Work, lockVars, PreviousSettled, Settled
  <2>3. \A S \in SUBSET Jobs : Followed(S)' = Followed(S)
    BY <2>1, <2>2 DEF Followed
  <2>4. last[k] \in Unsettled(k) /\ Reaches(k)
    BY <2>1 DEF LockInv, ChainReachesEveryJob, Reaches
  <2> QED
    BY <2>1, <2>3, <2>4 DEF Reaches
<1> QED
  BY <1>1, <1>2, <1>3 DEF LockNext

LEMMA LockInvariant == LockSpec => []LockInv
<1>1. LockInv /\ [LockNext]_lockVars => LockInv'
  BY LockTypes, ChainStep, ReachStep DEF LockInv
<1> QED
  BY <1>1, LockInitial, PTL DEF LockSpec

-----------------------------------------------------------------------------
(* What the Map promises.                                                   *)

\* The Map, the chain and the promises keep their types (#locks and #lock of
\* computers.mjs).
THEOREM LockTypeCorrect == LockSpec => []LockTypeOK
<1>1. LockInv => LockTypeOK
  BY DEF LockInv
<1> QED
  BY <1>1, LockInvariant, PTL

\* From the promise the Map holds for a key the chain reaches every job of the
\* key that has not ended, so that the next job waits for all of them, whether
\* they are fulfilled or rejected (#lock of computers.mjs).
THEOREM ChainCorrect == LockSpec => []ChainReachesEveryJob
<1>1. LockInv => ChainReachesEveryJob
  BY DEF LockInv
<1> QED
  BY <1>1, LockInvariant, PTL

-----------------------------------------------------------------------------
(* The queue of a key is the only chain of its jobs.                        *)

LEMMA Induction ==
  ASSUME NEW T, 0 \in T, \A n \in Nat : n \in T => n + 1 \in T
  PROVE  \A n \in Nat : n \in T
<1> DEFINE F == Nat \ T
           R == {ss \in Nat \X Nat : ss[1] < ss[2]}
<1> SUFFICES ASSUME F # {} PROVE FALSE
  OBVIOUS
<1>1. IsWellFoundedOn(R, Nat)
  BY NatLessThanWellFounded DEF OpToRel
<1>2. PICK m \in F : \A k \in F : ~(<<k, m>> \in R)
  <2>1. F \subseteq Nat
    OBVIOUS
  <2> HIDE DEF F, R
  <2> QED
    BY <1>1, <2>1, WFMin
<1>3. m # 0 /\ m - 1 \in Nat
  BY <1>2
<1>4. m - 1 \in T
  <2>1. <<m - 1, m>> \in R
    BY <1>3
  <2> QED
    BY <1>2, <1>3, <2>1
<1> QED
  BY <1>2, <1>3, <1>4

IsQueue(jobs, k) ==
  /\ \A i \in 1..Len(jobs) : jobs[i] \in Unsettled(k)
  /\ \A j \in Unsettled(k) : \E i \in 1..Len(jobs) : jobs[i] = j
  /\ \A i, l \in 1..Len(jobs) : jobs[i] = jobs[l] => i = l
  /\ Chained(jobs, k)
  /\ jobs # <<>> => PreviousSettled(jobs[1])

\* A chain of the same length is the same one: both end at the job whose
\* promise the Map holds, and each job is chained on one only.
LEMMA SameChain ==
  ASSUME NEW k, NEW a \in Seq(Jobs), NEW b \in Seq(Jobs), Len(a) = Len(b),
         Chained(a, k), Chained(b, k)
  PROVE  a = b
<1> DEFINE N == Len(a)
           T == {m \in Nat : m < N => a[N - m] = b[N - m]}
<1>0. N \in Nat /\ N = Len(b)
  BY LenProperties
<1>1. 0 \in T
  <2>1. N # 0 => a # <<>> /\ b # <<>>
    BY EmptySeq
  <2> QED
    BY <1>0, <2>1 DEF Chained
<1>2. ASSUME NEW m \in Nat, m \in T, m + 1 < N PROVE a[N - (m + 1)] = b[N - (m + 1)]
  <2>1. N - m \in 2..N /\ (N - m) - 1 = N - (m + 1) /\ m < N
    BY <1>0, <1>2
  <2>2. a[N - m] = b[N - m]
    BY <1>2, <2>1
  <2>3. previous[a[N - m]] = a[N - (m + 1)]
    BY <2>1 DEF Chained
  <2>4. previous[b[N - m]] = b[N - (m + 1)]
    BY <1>0, <2>1 DEF Chained
  <2> QED
    BY <2>2, <2>3, <2>4
<1>3. \A m \in Nat : m \in T
  <2>1. \A m \in Nat : m \in T => m + 1 \in T
    BY <1>2
  <2> HIDE DEF T
  <2> QED
    BY <1>1, <2>1, Induction
<1>4. ASSUME NEW i \in 1..N PROVE a[i] = b[i]
  <2>1. N - i \in Nat /\ N - i < N /\ N - (N - i) = i
    BY <1>0
  <2> QED
    BY <1>3, <2>1
<1> QED
  BY <1>0, <1>4, SeqEqual

QueueOfIs == \A k \in Keys, jobs \in Seq(Jobs) : IsQueue(jobs, k) => QueueOf(k) = jobs

LEMMA QueueIs == QueueOfIs
<1> SUFFICES ASSUME NEW k \in Keys, NEW jobs \in Seq(Jobs), IsQueue(jobs, k)
             PROVE  QueueOf(k) = jobs
  BY DEF QueueOfIs
<1> DEFINE U == Unsettled(k)
           N == Len(jobs)
           chains == {q \in SetToSeqs(U) : Chained(q, k)}
<1>0. N \in Nat /\ jobs \in [1..N -> Jobs]
  BY LenProperties
<1>1. jobs \in [1..N -> U]
  BY <1>0 DEF IsQueue
<1>2. Cardinality(U) = N
  <2>1. jobs \in Bijection(1..N, U)
    BY <1>0, <1>1 DEF IsQueue, Bijection, Injection, Surjection, IsInjective
  <2> HIDE DEF U, N
  <2> QED
    BY <1>0, <2>1, FS_CountingElements DEF ExistsBijection
<1>3. jobs \in chains
  <2>1. \A i, j \in 1..N : i # j => jobs[i] # jobs[j]
    BY DEF IsQueue
  <2>2. Chained(jobs, k)
    BY DEF IsQueue
  <2> HIDE DEF U, N
  <2> QED
    BY <1>1, <1>2, <2>1, <2>2 DEF SetToSeqs
<1>4. ASSUME NEW q \in chains PROVE q = jobs
  <2>1. q \in [1..N -> U]
    BY <1>2 DEF SetToSeqs
  <2>2. q \in [1..N -> Jobs]
    BY <2>1 DEF Unsettled
  <2>3. q \in Seq(Jobs)
    BY <1>0, <2>2, SeqDef
  <2>4. Len(q) = N
    <3> HIDE DEF N
    <3> QED
      BY <1>0, <2>2, <2>3, LenProperties
  <2>5. Chained(q, k) /\ Chained(jobs, k)
    BY DEF IsQueue
  <2> QED
    BY <2>3, <2>4, <2>5, SameChain
<1>5. (CHOOSE q \in chains : TRUE) = jobs
  <2> HIDE DEF chains
  <2> QED
    BY <1>3, <1>4
<1>6. QueueOf(k) = IF chains = {} THEN <<>> ELSE CHOOSE q \in chains : TRUE
  BY DEF QueueOf
<1> QED
  BY <1>3, <1>5, <1>6

LEMMA QueueIsNext == QueueOfIs'
BY QueueIs, PTL

-----------------------------------------------------------------------------
(* What each step makes of the queues.                                      *)

QueueInv ==
  /\ \A j \in Jobs : promise[j] # "none" => keyOf[j] \in Keys
  /\ \A k \in Keys : QueueOf(k) \in Seq(Jobs) /\ IsQueue(QueueOf(k), k)

LEMMA QueueInitial == LockInit => QueueInv
<1> SUFFICES ASSUME LockInit PROVE QueueInv
  OBVIOUS
<1>1. ASSUME NEW k \in Keys PROVE QueueOf(k) \in Seq(Jobs) /\ IsQueue(QueueOf(k), k)
  <2>1. Unsettled(k) = {}
    BY DEF LockInit, Unsettled
  <2>2. <<>> \in Seq(Jobs) /\ Len(<<>>) = 0
    BY EmptySeq
  <2>3. IsQueue(<<>>, k)
    BY <2>1, <2>2 DEF IsQueue, Chained
  <2> QED
    BY <2>2, <2>3, QueueIs DEF QueueOfIs
<1> QED
  BY <1>1 DEF QueueInv, LockInit

\* A job with nothing to wait for is the first of its queue.
LEMMA FirstOfQueue ==
  ASSUME LockInv, NEW k \in Keys, NEW jobs \in Seq(Jobs), IsQueue(jobs, k),
         NEW j \in Unsettled(k), PreviousSettled(j)
  PROVE  jobs # <<>> /\ jobs[1] = j
<1>0. Len(jobs) \in Nat
  BY LenProperties
<1>1. PICK i \in 1..Len(jobs) : jobs[i] = j
  BY DEF IsQueue
<1>2. CASE i # 1
  <2>1. i \in 2..Len(jobs) /\ i - 1 \in 1..Len(jobs)
    BY <1>0, <1>2
  <2>2. previous[j] = jobs[i - 1]
    BY <1>1, <2>1 DEF IsQueue, Chained
  <2>3. jobs[i - 1] \in Unsettled(k)
    BY <2>1 DEF IsQueue
  <2> QED
    BY <2>2, <2>3, NoneIsNoJob DEF PreviousSettled, Unsettled, Settled
<1>3. CASE i = 1
  <2>1. jobs # <<>>
    BY <1>3, EmptySeq
  <2> QED
    BY <1>1, <1>3, <2>1
<1> QED
  BY <1>2, <1>3

LEMMA QueueStays ==
  ASSUME NEW k \in Keys, NEW jobs \in Seq(Jobs), IsQueue(jobs, k),
         Unsettled(k)' = Unsettled(k), last'[k] = last[k],
         \A i \in Unsettled(k) :
           previous'[i] = previous[i] /\ (PreviousSettled(i) => PreviousSettled(i)')
  PROVE  IsQueue(jobs, k)'
<1>0. Len(jobs) \in Nat
  BY LenProperties
<1>1. Chained(jobs, k)'
  <2>1. \A i \in 2..Len(jobs) : jobs[i] \in Unsettled(k)
    BY <1>0 DEF IsQueue
  <2> QED
    BY <2>1 DEF IsQueue, Chained
<1>2. jobs # <<>> => PreviousSettled(jobs[1])'
  <2>1. jobs # <<>> => jobs[1] \in Unsettled(k) /\ PreviousSettled(jobs[1])
    BY <1>0, EmptySeq DEF IsQueue
  <2> QED
    BY <2>1
<1> QED
  BY <1>1, <1>2 DEF IsQueue

\* The new job is chained on the last of the queue, or on one that has settled.
LEMMA LockAppends ==
  ASSUME LockInv, NEW j \in Jobs, NEW k \in Keys, Lock(j, k),
         NEW jobs \in Seq(Jobs), IsQueue(jobs, k)
  PROVE  IsQueue(Append(jobs, j), k)'
<1> DEFINE more == Append(jobs, j)
           N == Len(jobs)
<1>0. LockTypeOK /\ ChainOK
  BY DEF LockInv
<1>1. /\ N \in Nat /\ more \in Seq(Jobs) /\ Len(more) = N + 1
      /\ \A i \in 1..N : more[i] = jobs[i]
      /\ more[N + 1] = j
  BY LenProperties, AppendProperties
<1>2. /\ Unsettled(k)' = Unsettled(k) \cup {j} /\ j \notin Unsettled(k)
      /\ last'[k] = j /\ previous'[j] = last[k]
      /\ \A i \in Unsettled(k) : previous'[i] = previous[i]
      /\ \A i \in Jobs \ {j} : promise'[i] = promise[i]
      /\ last[k] # j
  BY <1>0, NoneIsNoJob DEF Lock, LockTypeOK, ChainOK, Unsettled
<1>3. /\ \A i \in 1..N : jobs[i] \in Unsettled(k)
      /\ \A i \in Unsettled(k) : \E n \in 1..N : jobs[n] = i
      /\ \A i, l \in 1..N : jobs[i] = jobs[l] => i = l
      /\ jobs # <<>> => last[k] = jobs[N]
      /\ \A i \in 2..N : previous[jobs[i]] = jobs[i - 1]
      /\ jobs # <<>> => PreviousSettled(jobs[1])
  BY DEF IsQueue, Chained
<1>4. N = 0 <=> jobs = <<>>
  BY EmptySeq
<1> HIDE DEF more, N
<1>5. \A i \in 1..N + 1 : i \in 1..N \/ i = N + 1
  BY <1>1
<1>6. ASSUME NEW i \in 1..N + 1 PROVE more[i] \in Unsettled(k)'
  <2>1. CASE i \in 1..N
    <3>1. more[i] = jobs[i] /\ jobs[i] \in Unsettled(k)
      BY <1>1, <1>3, <2>1
    <3> QED
      BY <1>2, <3>1
  <2>2. CASE i = N + 1
    BY <1>1, <1>2, <2>2
  <2> QED
    BY <1>5, <2>1, <2>2
<1>7. ASSUME NEW i \in Unsettled(k)' PROVE \E n \in 1..N + 1 : more[n] = i
  <2>1. CASE i = j
    <3>1. N + 1 \in 1..N + 1
      BY <1>1
    <3> QED
      BY <1>1, <2>1, <3>1
  <2>2. CASE i # j
    <3>1. PICK n \in 1..N : jobs[n] = i
      BY <1>2, <1>3, <2>2
    <3>2. n \in 1..N + 1 /\ more[n] = i
      BY <1>1, <3>1
    <3> QED
      BY <3>2
  <2> QED
    BY <2>1, <2>2
<1>8. ASSUME NEW i \in 1..N + 1, NEW l \in 1..N + 1, more[i] = more[l] PROVE i = l
  <2>1. \A n \in 1..N : more[n] = jobs[n] /\ more[n] # j
    BY <1>1, <1>2, <1>3
  <2>2. more[N + 1] = j
    BY <1>1
  <2> QED
    BY <1>3, <1>5, <1>8, <2>1, <2>2
<1>9. ASSUME NEW i \in 2..N + 1 PROVE previous'[more[i]] = more[i - 1]
  <2>1. i - 1 \in 1..N /\ more[i - 1] = jobs[i - 1]
    BY <1>1
  <2>2. CASE i = N + 1
    <3>1. jobs # <<>> /\ i - 1 = N
      BY <1>1, <1>4, <2>2
    <3>2. more[i] = j /\ last[k] = jobs[i - 1]
      BY <1>1, <1>3, <2>2, <3>1
    <3> QED
      BY <1>2, <2>1, <3>2
  <2>3. CASE i # N + 1
    <3>1. i \in 2..N /\ i \in 1..N
      BY <1>1, <2>3
    <3>2. more[i] = jobs[i] /\ jobs[i] \in Unsettled(k)
      BY <1>1, <1>3, <3>1
    <3>3. previous'[jobs[i]] = previous[jobs[i]]
      BY <1>2, <3>2
    <3>4. previous[jobs[i]] = jobs[i - 1]
      BY <1>3, <3>1
    <3> QED
      BY <2>1, <3>2, <3>3, <3>4
  <2> QED
    BY <2>2, <2>3
<1>10. PreviousSettled(more[1])'
  <2>1. CASE N = 0
    <3>1. Unsettled(k) = {}
      BY <1>3, <2>1
    <3>2. last[k] # None => last[k] \in Jobs /\ promise[last[k]] \in Settled
      BY <1>0, <3>1 DEF LockTypeOK, ChainOK, Unsettled, Settled
    <3>3. more[1] = j
      BY <1>1, <2>1
    <3> QED
      BY <1>2, <3>2, <3>3 DEF PreviousSettled
  <2>2. CASE N # 0
    <3>1. 1 \in 1..N /\ more[1] = jobs[1]
      BY <1>1, <2>2
    <3>2. jobs[1] \in Unsettled(k) /\ PreviousSettled(jobs[1]) /\ jobs[1] \in Jobs
      BY <1>3, <1>4, <2>2, <3>1 DEF Unsettled
    <3>3. previous'[jobs[1]] = previous[jobs[1]]
      BY <1>2, <3>2
    <3>4. previous[jobs[1]] # j
      BY <1>0, <3>2, NoneIsNoJob DEF ChainOK, Lock
    <3>5. previous[jobs[1]] # None => previous[jobs[1]] \in Jobs \ {j}
      BY <1>0, <3>2, <3>4 DEF LockTypeOK
    <3> QED
      BY <1>2, <3>1, <3>2, <3>3, <3>5 DEF PreviousSettled
  <2> QED
    BY <2>1, <2>2
<1>11. more # <<>> => last'[k] = more[N + 1]
  BY <1>1, <1>2
<1> QED
  BY <1>1, <1>6, <1>7, <1>8, <1>9, <1>10, <1>11 DEF IsQueue, Chained, more

\* The job that ends is the first of its queue, and the next one has only it
\* to wait for.
LEMMA SettleTails ==
  ASSUME LockInv, NEW k \in Keys, NEW j \in Unsettled(k), Settle(j),
         NEW jobs \in Seq(Jobs), IsQueue(jobs, k)
  PROVE  jobs # <<>> /\ jobs[1] = j /\ Tail(jobs) \in Seq(Jobs) /\ IsQueue(Tail(jobs), k)'
<1> DEFINE rest == Tail(jobs)
           N == Len(jobs)
<1>0. LockTypeOK /\ ChainOK /\ j \in Jobs
  BY DEF LockInv, Unsettled
<1>1. jobs # <<>> /\ jobs[1] = j
  <2>1. PreviousSettled(j)
    BY <1>0 DEF Settle, ChainOK
  <2> QED
    BY <2>1, FirstOfQueue
<1>2. /\ N \in Nat \ {0} /\ rest \in Seq(Jobs) /\ Len(rest) = N - 1
      /\ \A i \in 1..N - 1 : rest[i] = jobs[i + 1]
  BY <1>1, EmptySeq, HeadTailProperties
<1>3. /\ Unsettled(k)' = Unsettled(k) \ {j} /\ last' = last /\ previous' = previous
      /\ promise'[j] \in Settled
  BY <1>0 DEF Settle, LockTypeOK, Unsettled, Settled
<1>4. /\ \A i \in 1..N : jobs[i] \in Unsettled(k)
      /\ \A i \in Unsettled(k) : \E n \in 1..N : jobs[n] = i
      /\ \A i, l \in 1..N : jobs[i] = jobs[l] => i = l
      /\ last[k] = jobs[N]
      /\ \A i \in 2..N : previous[jobs[i]] = jobs[i - 1]
  BY <1>1 DEF IsQueue, Chained
<1>5. N - 1 = 0 <=> rest = <<>>
  BY <1>2, EmptySeq
<1> HIDE DEF rest, N
<1>6. \A i \in 1..N - 1 : i + 1 \in 1..N /\ i + 1 # 1
  BY <1>2
<1>7. ASSUME NEW i \in 1..N - 1 PROVE rest[i] \in Unsettled(k)'
  <2>1. jobs[i + 1] \in Unsettled(k) /\ jobs[i + 1] # jobs[1]
    <3>1. 1 \in 1..N
      BY <1>2
    <3> QED
      BY <1>4, <1>6, <3>1
  <2> QED
    BY <1>1, <1>2, <1>3, <2>1
<1>8. ASSUME NEW i \in Unsettled(k)' PROVE \E n \in 1..N - 1 : rest[n] = i
  <2>1. PICK n \in 1..N : jobs[n] = i
    BY <1>3, <1>4
  <2>2. n # 1
    BY <1>1, <1>3, <2>1
  <2>3. n - 1 \in 1..N - 1 /\ (n - 1) + 1 = n
    BY <1>2, <2>2
  <2> QED
    BY <1>2, <2>1, <2>3
<1>9. ASSUME NEW i \in 1..N - 1, NEW l \in 1..N - 1, rest[i] = rest[l] PROVE i = l
  <2>1. i + 1 = l + 1
    BY <1>2, <1>4, <1>6, <1>9
  <2> QED
    BY <2>1
<1>10. ASSUME NEW i \in 2..N - 1 PROVE previous'[rest[i]] = rest[i - 1]
  <2>1. /\ i \in 1..N - 1 /\ i - 1 \in 1..N - 1 /\ i + 1 \in 2..N
        /\ (i + 1) - 1 = i /\ (i - 1) + 1 = i
    BY <1>2
  <2>2. rest[i] = jobs[i + 1] /\ rest[i - 1] = jobs[i]
    BY <1>2, <2>1
  <2>3. previous[jobs[i + 1]] = jobs[i]
    BY <1>4, <2>1
  <2> QED
    BY <1>3, <2>2, <2>3
<1>11. rest # <<>> => PreviousSettled(rest[1])' /\ last'[k] = rest[N - 1]
  <2> SUFFICES ASSUME rest # <<>> PROVE PreviousSettled(rest[1])' /\ last'[k] = rest[N - 1]
    OBVIOUS
  <2>1. 1 \in 1..N - 1 /\ N - 1 \in 1..N - 1 /\ 2 \in 2..N /\ 2 - 1 = 1 /\ (N - 1) + 1 = N /\ 1 + 1 = 2
    BY <1>2, <1>5
  <2>2. rest[1] = jobs[2] /\ rest[N - 1] = jobs[N]
    BY <1>2, <2>1
  <2>3. previous'[rest[1]] = j
    BY <1>1, <1>3, <1>4, <2>1, <2>2
  <2> QED
    BY <1>3, <1>4, <2>2, <2>3 DEF PreviousSettled, Settled
<1>12. Chained(rest, k)'
  BY <1>2, <1>10, <1>11 DEF Chained
<1> QED
  BY <1>1, <1>2, <1>7, <1>8, <1>9, <1>11, <1>12 DEF IsQueue, rest

-----------------------------------------------------------------------------
(* The chains implement the queues.                                         *)

QueueMap == [k \in Keys |-> QueueOf(k)]

StageOf(j) ==
  CASE promise[j] = "none" -> "new"
    [] promise[j] = "pending" -> "waiting"
    [] promise[j] = "running" -> "running"
    [] OTHER -> "ended"

StageMap == [j \in Jobs |-> StageOf(j)]

LEMMA StageMoves ==
  ASSUME LockTypeOK, NEW j \in Jobs, NEW to, promise' = [promise EXCEPT ![j] = to]
  PROVE  StageMap' = [StageMap EXCEPT ![j] = StageOf(j)']
<1>1. \A i \in Jobs \ {j} : StageOf(i)' = StageOf(i)
  BY DEF LockTypeOK, StageOf
<1> QED
  BY <1>1 DEF StageMap

\* A step that leaves every queue as it is but one.
LEMMA QueuesMove ==
  ASSUME QueueInv, NEW k \in Keys, NEW jobs \in Seq(Jobs), IsQueue(jobs, k)',
         \A l \in Keys \ {k} : \A others \in Seq(Jobs) :
           IsQueue(others, l) => IsQueue(others, l)'
  PROVE  /\ QueueMap' = [QueueMap EXCEPT ![k] = jobs]
         /\ \A l \in Keys : QueueOf(l)' \in Seq(Jobs) /\ IsQueue(QueueOf(l), l)'
<1>1. QueueOf(k)' = jobs
  BY QueueIsNext DEF QueueOfIs
<1>2. ASSUME NEW l \in Keys \ {k}
      PROVE  QueueOf(l)' = QueueOf(l) /\ QueueOf(l) \in Seq(Jobs) /\ IsQueue(QueueOf(l), l)'
  <2>1. PICK others \in Seq(Jobs) : others = QueueOf(l) /\ IsQueue(others, l)
    BY DEF QueueInv
  <2>2. IsQueue(others, l)'
    BY <2>1
  <2>3. QueueOf(l)' = others
    BY <2>2, QueueIsNext DEF QueueOfIs
  <2> QED
    BY <2>1, <2>2, <2>3
<1>3. QueueMap' = [QueueMap EXCEPT ![k] = jobs]
  BY <1>1, <1>2 DEF QueueMap
<1>4. IsQueue(QueueOf(k), k)'
  BY <1>1
<1> QED
  BY <1>1, <1>2, <1>3, <1>4

LEMMA FifoLocks ==
  ASSUME LockInv, QueueInv, NEW j \in Jobs, NEW key \in Keys, Lock(j, key)
  PROVE  QueueInv' /\ Fifo!FifoNext
<1>1. PICK jobs \in Seq(Jobs) : jobs = QueueOf(key) /\ IsQueue(jobs, key)
  BY DEF QueueInv
<1>2. IsQueue(Append(jobs, j), key)' /\ Append(jobs, j) \in Seq(Jobs)
  BY <1>1, LockAppends, AppendProperties
<1>3. ASSUME NEW l \in Keys \ {key}, NEW others \in Seq(Jobs), IsQueue(others, l)
      PROVE  IsQueue(others, l)'
  <2>1. Unsettled(l)' = Unsettled(l) /\ last'[l] = last[l]
    BY DEF Lock, LockInv, LockTypeOK, Unsettled
  <2>2. ASSUME NEW i \in Unsettled(l)
        PROVE  previous'[i] = previous[i] /\ (PreviousSettled(i) => PreviousSettled(i)')
    <3>1. i \in Jobs /\ i # j
      BY DEF Unsettled, Lock
    <3>2. previous'[i] = previous[i]
      BY <3>1 DEF Lock, LockInv, LockTypeOK
    <3>3. previous[i] # None => previous[i] \in Jobs \ {j}
      BY <3>1 DEF LockInv, LockTypeOK, ChainOK, Lock
    <3> QED
      BY <3>2, <3>3 DEF PreviousSettled, Lock, LockInv, LockTypeOK
  <2> QED
    BY <1>3, <2>1, <2>2, QueueStays
<1>4. /\ QueueMap' = [QueueMap EXCEPT ![key] = Append(jobs, j)]
      /\ \A l \in Keys : QueueOf(l)' \in Seq(Jobs) /\ IsQueue(QueueOf(l), l)'
  BY <1>2, <1>3, QueuesMove
<1>5. QueueInv'
  <2>1. \A i \in Jobs : promise'[i] # "none" => keyOf'[i] \in Keys
    BY DEF QueueInv, Lock, LockInv, LockTypeOK
  <2> QED
    BY <1>4, <2>1 DEF QueueInv
<1>6. StageMap[j] = "new" /\ StageMap' = [StageMap EXCEPT ![j] = "waiting"]
  <2>1. StageOf(j) = "new" /\ StageOf(j)' = "waiting"
    BY DEF StageOf, Lock, LockInv, LockTypeOK
  <2>2. StageMap' = [StageMap EXCEPT ![j] = StageOf(j)']
    BY StageMoves DEF Lock, LockInv
  <2> QED
    BY <2>1, <2>2 DEF StageMap
<1>7. QueueMap[key] = jobs
  BY <1>1 DEF QueueMap
<1>8. Fifo!Join(j, key)
  BY <1>4, <1>6, <1>7 DEF Fifo!Join, StageMap, StageOf, QueueMap
<1> QED
  BY <1>5, <1>8 DEF Fifo!FifoNext

LEMMA FifoWorks ==
  ASSUME LockInv, QueueInv, NEW j \in Jobs, Work(j)
  PROVE  QueueInv' /\ Fifo!FifoNext
<1>1. PICK key \in Keys : j \in Unsettled(key)
  BY DEF QueueInv, Work, Unsettled
<1>2. PICK jobs \in Seq(Jobs) : jobs = QueueOf(key) /\ IsQueue(jobs, key)
  BY DEF QueueInv
<1>3. ASSUME NEW l \in Keys, NEW others \in Seq(Jobs), IsQueue(others, l)
      PROVE  IsQueue(others, l)'
  <2>1. Unsettled(l)' = Unsettled(l) /\ last' = last /\ previous' = previous
    BY DEF Work, LockInv, LockTypeOK, Unsettled
  <2>2. \A i \in Jobs : PreviousSettled(i) => PreviousSettled(i)'
    BY DEF Work, LockInv, LockTypeOK, PreviousSettled, Settled
  <2>3. Unsettled(l) \subseteq Jobs
    BY DEF Unsettled
  <2> QED
    BY <1>3, <2>1, <2>2, <2>3, QueueStays
<1>4. /\ QueueMap' = [QueueMap EXCEPT ![key] = jobs]
      /\ \A l \in Keys : QueueOf(l)' \in Seq(Jobs) /\ IsQueue(QueueOf(l), l)'
  BY <1>2, <1>3, QueuesMove
<1>5. QueueInv'
  <2>1. \A i \in Jobs : promise'[i] # "none" => keyOf'[i] \in Keys
    BY DEF QueueInv, Work, LockInv, LockTypeOK
  <2> QED
    BY <1>4, <2>1 DEF QueueInv
<1>6. StageMap[j] = "waiting" /\ StageMap' = [StageMap EXCEPT ![j] = "running"]
  <2>1. StageOf(j) = "waiting" /\ StageOf(j)' = "running"
    BY DEF StageOf, Work, LockInv, LockTypeOK
  <2>2. StageMap' = [StageMap EXCEPT ![j] = StageOf(j)']
    BY StageMoves DEF Work, LockInv
  <2> QED
    BY <2>1, <2>2 DEF StageMap
<1>7. QueueMap' = QueueMap /\ QueueMap[key] = jobs
  BY <1>2, <1>4 DEF QueueMap
<1>8. Fifo!Oldest(j, key)
  <2>1. jobs # <<>> /\ jobs[1] = j
    BY <1>1, <1>2, FirstOfQueue DEF Work
  <2> QED
    BY <1>7, <2>1 DEF Fifo!Oldest, QueueMap
<1>9. Fifo!Run(j)
  BY <1>6, <1>7, <1>8 DEF Fifo!Run, StageMap, StageOf, QueueMap
<1> QED
  BY <1>5, <1>9 DEF Fifo!FifoNext

LEMMA FifoSettles ==
  ASSUME LockInv, QueueInv, NEW j \in Jobs, Settle(j)
  PROVE  QueueInv' /\ Fifo!FifoNext
<1>1. PICK key \in Keys : j \in Unsettled(key)
  BY DEF QueueInv, Settle, Unsettled
<1>2. PICK jobs \in Seq(Jobs) : jobs = QueueOf(key) /\ IsQueue(jobs, key)
  BY DEF QueueInv
<1>3. jobs # <<>> /\ jobs[1] = j /\ Tail(jobs) \in Seq(Jobs) /\ IsQueue(Tail(jobs), key)'
  BY <1>1, <1>2, SettleTails
<1>4. ASSUME NEW l \in Keys \ {key}, NEW others \in Seq(Jobs), IsQueue(others, l)
      PROVE  IsQueue(others, l)'
  <2>1. Unsettled(l)' = Unsettled(l) /\ last' = last /\ previous' = previous
    BY <1>1 DEF Settle, LockInv, LockTypeOK, Unsettled, Settled
  <2>2. \A i \in Jobs : PreviousSettled(i) => PreviousSettled(i)'
    BY DEF Settle, LockInv, LockTypeOK, PreviousSettled, Settled
  <2>3. Unsettled(l) \subseteq Jobs
    BY DEF Unsettled
  <2> QED
    BY <1>4, <2>1, <2>2, <2>3, QueueStays
<1>5. /\ QueueMap' = [QueueMap EXCEPT ![key] = Tail(jobs)]
      /\ \A l \in Keys : QueueOf(l)' \in Seq(Jobs) /\ IsQueue(QueueOf(l), l)'
  BY <1>3, <1>4, QueuesMove
<1>6. QueueInv'
  <2>1. \A i \in Jobs : promise'[i] # "none" => keyOf'[i] \in Keys
    BY DEF QueueInv, Settle, LockInv, LockTypeOK
  <2> QED
    BY <1>5, <2>1 DEF QueueInv
<1>7. StageMap[j] = "running" /\ StageMap' = [StageMap EXCEPT ![j] = "ended"]
  <2>1. PICK how \in Settled : promise' = [promise EXCEPT ![j] = how]
    BY DEF Settle
  <2>2. StageOf(j) = "running" /\ StageOf(j)' = "ended"
    BY <2>1 DEF StageOf, Settle, LockInv, LockTypeOK, Settled
  <2>3. StageMap' = [StageMap EXCEPT ![j] = StageOf(j)']
    BY <2>1, StageMoves DEF LockInv
  <2> QED
    BY <2>2, <2>3 DEF StageMap
<1>8. QueueMap[key] = jobs
  BY <1>2 DEF QueueMap
<1>9. Fifo!Oldest(j, key)
  BY <1>3, <1>8 DEF Fifo!Oldest, QueueMap
<1>10. Fifo!Leave(j)
  BY <1>5, <1>7, <1>8, <1>9 DEF Fifo!Leave, StageMap, StageOf, QueueMap
<1> QED
  BY <1>6, <1>10 DEF Fifo!FifoNext

LEMMA FifoStep ==
  LockInv /\ QueueInv /\ [LockNext]_lockVars => QueueInv' /\ [Fifo!FifoNext]_Fifo!fifoVars
<1> SUFFICES ASSUME LockInv, QueueInv, [LockNext]_lockVars
             PROVE  QueueInv' /\ [Fifo!FifoNext]_Fifo!fifoVars
  OBVIOUS
<1>1. ASSUME UNCHANGED lockVars PROVE QueueInv' /\ UNCHANGED Fifo!fifoVars
  <2>1. ASSUME NEW k \in Keys PROVE QueueOf(k)' = QueueOf(k) /\ IsQueue(QueueOf(k), k)'
    <3>1. PICK jobs \in Seq(Jobs) : jobs = QueueOf(k) /\ IsQueue(jobs, k)
      BY DEF QueueInv
    <3>2. IsQueue(jobs, k)'
      BY <1>1, <3>1 DEF lockVars, IsQueue, Chained, Unsettled, PreviousSettled
    <3> QED
      BY <3>1, <3>2, QueueIsNext DEF QueueOfIs
  <2>2. QueueInv'
    BY <1>1, <2>1 DEF lockVars, QueueInv
  <2>3. QueueMap' = QueueMap /\ StageMap' = StageMap
    BY <1>1, <2>1 DEF lockVars, QueueMap, StageMap, StageOf
  <2> QED
    BY <2>2, <2>3 DEF Fifo!fifoVars, QueueMap, StageMap, StageOf
<1> QED
  BY <1>1, FifoLocks, FifoWorks, FifoSettles DEF LockNext

\* Chaining each job on the promise the Map holds makes a first-in first-out
\* lock: of the jobs of a key one runs at a time, in the order in which lock was
\* called, and a job that fails lets the next one run (#lock of computers.mjs).
THEOREM FifoLockImplemented == LockSpec => Fifo!FifoSpec
<1>1. LockInit => Fifo!FifoInit
  <2> SUFFICES ASSUME LockInit PROVE Fifo!FifoInit
    OBVIOUS
  <2>1. ASSUME NEW k \in Keys PROVE QueueOf(k) = <<>>
    <3>1. <<>> \in Seq(Jobs) /\ IsQueue(<<>>, k)
      BY EmptySeq DEF LockInit, IsQueue, Chained, Unsettled
    <3> QED
      BY <3>1, QueueIs DEF QueueOfIs
  <2>2. \A j \in Jobs : StageOf(j) = "new"
    BY DEF LockInit, StageOf
  <2>3. QueueMap = [k \in Keys |-> <<>>] /\ StageMap = [j \in Jobs |-> "new"]
    BY <2>1, <2>2 DEF QueueMap, StageMap
  <2> QED
    BY <2>3 DEF Fifo!FifoInit, QueueMap, StageMap, StageOf
<1> QED
  BY <1>1, FifoStep, QueueInitial, LockInvariant, PTL DEF LockSpec, Fifo!FifoSpec
=============================================================================
