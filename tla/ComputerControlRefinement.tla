---------------------- MODULE ComputerControlRefinement ----------------------
(***************************************************************************)
(* The bridge implements three abstract specifications: FifoLock, with the *)
(* promise chains as the queues; Ownership, with the map of records as the *)
(* holders; and, together with Rakazo, BridgeView, the bridge that the     *)
(* models of the plugin and of the providers are built on.  All rest on    *)
(* the invariant of ComputerControlProofs.                                 *)
(***************************************************************************)
EXTENDS ComputerControlProofs

USE KeysAreDisjoint, NoneIsNoValue

\* What every step that is one request's own leaves of the others.
LEMMA Bystanders ==
  ASSUME LockInv, NEW r \in Requests,
         Arrives(r) \/ Begins(r) \/ RakazoActs(r) \/ Returns(r) \/ TimesOut(r)
         \/ AbandonedCallDropped(r)
  PROVE  \A s \in Requests \ {r} :
           phase'[s] = phase[s] /\ call'[s] = call[s] /\ outcome'[s] = outcome[s]
<1>0. /\ phase \in [Requests -> Phases] /\ outcome \in [Requests -> Outcomes \cup {None}]
      /\ call \in [Requests -> [op: Operations \cup {None}, key: Keys \cup {None},
                                entry: Requests \cup {None}, under: Requests \cup {None}]]
  BY DEF LockInv, TypeInv, TypeOK
<1>1. CASE Arrives(r)
  <2> DEFINE Own == /\ \E last : phase' = [phase EXCEPT ![r] = last]
                    /\ \/ call' = call
                       \/ \E c : call' = [call EXCEPT ![r] = c]
                    /\ \/ outcome' = outcome
                       \/ \E result : outcome' = [outcome EXCEPT ![r] = result]
  <2>1. \A op, key, e, u : Enqueue(r, op, key, e, u) => Own
    BY DEF Enqueue
  <2>2. \A op, id, c, terminal, adopt : Admit(r, op, id, c, terminal, adopt) => Own
    BY <2>1 DEF Admit
  <2>3. Own
    BY <1>1, <2>1, <2>2 DEF Arrives, Create, Status, Command, Stop, Destroy
  <2> QED
    BY <1>0, <2>3
<1>2. CASE Begins(r)
  BY <1>0, <1>2 DEF Begins, BeginCall, BeginStop, BeginDestroy, CallRakazo, AnswerAlready, Settle
<1>3. CASE RakazoActs(r)
  <2>1. \E code, id : Landed(r, code, id)
    BY <1>3 DEF RakazoActs, RakazoProvisions, RakazoExecutes, RakazoStops, RakazoDestroys, RakazoFails
  <2> QED
    BY <1>0, <2>1 DEF Landed
<1>4. CASE Returns(r) \/ TimesOut(r)
  <2>1. \E last, result : Settle(r, last, result)
    BY <1>4 DEF Returns, CreateReturns, StatusReturns, CommandReturns, StopReturns,
                DestroyReturns, TimesOut
  <2> QED
    BY <1>0, <2>1 DEF Settle
<1>5. CASE AbandonedCallDropped(r)
  BY <1>0, <1>5 DEF AbandonedCallDropped
<1> QED
  BY <1>1, <1>2, <1>3, <1>4, <1>5

\* Rakazo's acts move no request into or out of a chain.
LEMMA RakazoActsMoves ==
  ASSUME LockInv, NEW r \in Requests, RakazoActs(r) \/ AbandonedCallDropped(r)
  PROVE  /\ UNCHANGED <<computers, entry, locks, call, outcome>>
         /\ \/ phase[r] = "calling" /\ phase'[r] = "replying"
            \/ phase[r] = "abandoned" /\ phase'[r] = "answered"
<1>0. phase \in [Requests -> Phases]
  BY DEF LockInv, TypeInv, TypeOK
<1>1. CASE RakazoActs(r)
  <2>1. \E code, id : Landed(r, code, id)
    BY <1>1 DEF RakazoActs, RakazoProvisions, RakazoExecutes, RakazoStops, RakazoDestroys, RakazoFails
  <2>2. phase[r] \in {"calling", "abandoned"}
    BY <1>1 DEF RakazoActs, RakazoProvisions, RakazoExecutes, RakazoStops, RakazoDestroys,
                RakazoFails, Out
  <2> QED
    BY <1>0, <2>1, <2>2 DEF Landed, records
<1>2. CASE AbandonedCallDropped(r)
  BY <1>0, <1>2 DEF AbandonedCallDropped, records
<1> QED
  BY <1>1, <1>2

\* A step that ends r's work leaves its chain, with whatever result.
LEMMA Endings ==
  ASSUME LockInv, NEW r \in Requests, Returns(r) \/ TimesOut(r)
  PROVE  /\ phase[r] \in Holding
         /\ \E last \in {"answered", "abandoned"}, result \in Outcomes : Settle(r, last, result)
<1>1. CASE Returns(r)
  BY <1>1, FailureIsAnOutcome DEF Returns, CreateReturns, StatusReturns, CommandReturns,
     StopReturns, DestroyReturns, Replied, Holding, Outcomes
<1>2. CASE TimesOut(r)
  BY <1>2 DEF TimesOut, Outcomes
<1> QED
  BY <1>1, <1>2

-----------------------------------------------------------------------------
(* The lock.                                                                *)

StageOf(r) ==
  CASE phase[r] = "queued" -> "waiting"
    [] phase[r] \in Holding -> "running"
    [] phase[r] \notin Pending /\ call[r] = NoCall -> "new"
    [] OTHER -> "ended"

StageMap == [r \in Requests |-> StageOf(r)]

\* The three kinds of step a request takes on its chain.
LEMMA StageStutter ==
  ASSUME UNCHANGED locks, \A s \in Requests : StageOf(s)' = StageOf(s)
  PROVE  UNCHANGED Fifo!fifoVars
<1>1. StageMap' = StageMap
  BY DEF StageMap
<1> QED
  BY <1>1 DEF Fifo!fifoVars, StageMap, StageOf

LEMMA StageMoves ==
  ASSUME NEW r \in Requests, NEW to, StageOf(r)' = to,
         \A s \in Requests \ {r} : phase'[s] = phase[s] /\ call'[s] = call[s]
  PROVE  StageMap' = [StageMap EXCEPT ![r] = to]
<1>1. \A s \in Requests \ {r} : StageOf(s)' = StageOf(s)
  BY DEF StageOf
<1> QED
  BY <1>1 DEF StageMap

LEMMA FifoArrives ==
  ASSUME LockInv, NEW r \in Requests, Arrives(r)
  PROVE  [Fifo!FifoNext]_Fifo!fifoVars
<1>0. /\ phase[r] = "idle" /\ call[r] = NoCall
      /\ \A s \in Requests \ {r} : phase'[s] = phase[s] /\ call'[s] = call[s]
  BY Bystanders DEF Arrives, Create, Status, Command, Stop, Destroy, Admit, LockInv, TypeInv, CallOK
<1>1. ASSUME NEW op, NEW key \in Keys, NEW e, NEW u, Enqueue(r, op, key, e, u)
      PROVE  Fifo!FifoNext
  <2>1. /\ StageOf(r) = "new" /\ StageMap[r] = "new"
        /\ StageOf(r)' = "waiting"
        /\ locks' = [locks EXCEPT ![key] = Append(@, r)]
    <3>1. StageOf(r) = "new"
      BY <1>0 DEF StageOf, Holding, Pending
    <3>2. phase'[r] = "queued" /\ locks' = [locks EXCEPT ![key] = Append(@, r)]
      BY <1>1 DEF Enqueue, LockInv, TypeInv, TypeOK
    <3>3. StageOf(r)' = "waiting"
      BY <3>2 DEF StageOf, Holding, Pending
    <3> QED
      BY <3>1, <3>2, <3>3 DEF StageMap
  <2>2. StageMap' = [StageMap EXCEPT ![r] = "waiting"]
    BY <1>0, <2>1, StageMoves
  <2>3. Fifo!Join(r, key)
    BY <2>1, <2>2 DEF Fifo!Join, StageMap, StageOf
  <2> QED
    BY <2>3 DEF Fifo!FifoNext
<1>2. ASSUME NEW id \in Computers, NEW op, NEW c, NEW t, NEW a, Admit(r, op, id, c, t, a)
      PROVE  [Fifo!FifoNext]_Fifo!fifoVars
  <2>1. CASE Refusal(id, c, t, a) = None
    BY <1>1, <1>2, <2>1 DEF Admit, Keys
  <2>2. CASE Refusal(id, c, t, a) # None
    <3>1. UNCHANGED <<locks, call>> /\ phase'[r] = "answered"
      BY <1>2, <2>2 DEF Admit, LockInv, TypeInv, TypeOK
    <3>2. \A s \in Requests : StageOf(s)' = StageOf(s)
      BY <1>0, <3>1 DEF StageOf, Holding, Pending
    <3> QED
      BY <3>1, <3>2, StageStutter
  <2> QED
    BY <2>1, <2>2
<1>3. ASSUME NEW b \in Bots, Create(r, b) PROVE Fifo!FifoNext
  BY <1>1, <1>3 DEF Create, Keys
<1> QED
  BY <1>2, <1>3 DEF Arrives, Status, Command, Stop, Destroy

\* A request that settles leaves the head of its chain.
LEMMA FifoLeaves ==
  ASSUME LockInv, NEW r \in Requests, phase[r] \in Holding \/ HasTurn(r),
         NEW last \in {"answered", "abandoned"}, NEW result, Settle(r, last, result)
  PROVE  Fifo!FifoNext
<1>1. /\ call[r].key \in Keys /\ locks[call[r].key] # <<>> /\ locks[call[r].key][1] = r
      /\ locks[call[r].key] \in Seq(Requests)
  BY AtTheHead DEF LockInv, TypeInv, TypeOK
<1>2. call[r] # NoCall
  BY DEF LockInv, TypeInv, CallOK, NoCall, HasTurn, Holding, Pending
<1>3. /\ phase'[r] = last /\ call' = call /\ locks' = [locks EXCEPT ![call[r].key] = Tail(@)]
      /\ \A s \in Requests \ {r} : phase'[s] = phase[s] /\ call'[s] = call[s]
  BY DEF Settle, LockInv, TypeInv, TypeOK
<1>4. StageOf(r) \in {"waiting", "running"} /\ StageMap[r] = StageOf(r)
  <2>1. StageOf(r) \in {"waiting", "running"}
    BY DEF StageOf, HasTurn, Holding, Pending
  <2> QED
    BY <2>1 DEF StageMap
<1>5. StageOf(r)' = "ended"
  BY <1>2, <1>3 DEF StageOf, Holding, Pending
<1>6. StageMap' = [StageMap EXCEPT ![r] = "ended"]
  BY <1>3, <1>5, StageMoves
<1>7. Fifo!Oldest(r, call[r].key)
  BY <1>1 DEF Fifo!Oldest
<1>8. Fifo!Leave(r)
  BY <1>1, <1>3, <1>4, <1>6, <1>7 DEF Fifo!Leave, StageMap, StageOf
<1> QED
  BY <1>8 DEF Fifo!FifoNext

LEMMA FifoBegins ==
  ASSUME LockInv, NEW r \in Requests, Begins(r)
  PROVE  Fifo!FifoNext
<1>1. HasTurn(r) /\ (CallRakazo(r) \/ AnswerAlready(r))
  BY DEF Begins, BeginCall, BeginStop, BeginDestroy
<1>2. CASE AnswerAlready(r)
  BY <1>1, <1>2, FifoLeaves DEF AnswerAlready
<1>3. CASE CallRakazo(r)
  <2>1. /\ call[r].key \in Keys /\ locks[call[r].key] # <<>> /\ locks[call[r].key][1] = r
        /\ locks[call[r].key] \in Seq(Requests)
    BY <1>1, AtTheHead DEF LockInv, TypeInv, TypeOK
  <2>2. /\ phase[r] = "queued" /\ phase'[r] = "calling" /\ UNCHANGED <<locks, call>>
        /\ \A s \in Requests \ {r} : phase'[s] = phase[s] /\ call'[s] = call[s]
    BY <1>1, <1>3 DEF HasTurn, CallRakazo, LockInv, TypeInv, TypeOK
  <2>3. StageMap[r] = "waiting" /\ StageOf(r)' = "running"
    <3>1. StageOf(r) = "waiting" /\ StageOf(r)' = "running"
      BY <2>2 DEF StageOf, Holding, Pending
    <3> QED
      BY <3>1 DEF StageMap
  <2>4. StageMap' = [StageMap EXCEPT ![r] = "running"]
    BY <2>2, <2>3, StageMoves
  <2>5. Fifo!Oldest(r, call[r].key)
    BY <2>1 DEF Fifo!Oldest
  <2>6. Fifo!Run(r)
    BY <2>1, <2>2, <2>3, <2>4, <2>5 DEF Fifo!Run, StageMap, StageOf
  <2> QED
    BY <2>6 DEF Fifo!FifoNext
<1> QED
  BY <1>1, <1>2, <1>3

LEMMA FifoRestarts ==
  ASSUME LockInv, BridgeRestarts
  PROVE  Fifo!FifoNext
<1>1. locks' = [k \in Keys |-> <<>>] /\ call' = call
  BY DEF BridgeRestarts
<1>2. ASSUME NEW s \in Requests
      PROVE  StageOf(s)' = IF StageOf(s) \in {"waiting", "running"} THEN "ended" ELSE StageOf(s)
  <2>1. /\ phase[s] \in Phases
        /\ phase'[s] = CASE phase[s] = "calling" -> "abandoned"
                         [] phase[s] \in {"queued", "replying"} -> "answered"
                         [] OTHER -> phase[s]
    BY DEF BridgeRestarts, LockInv, TypeInv, TypeOK
  <2>2. phase[s] \in Pending => call[s] # NoCall
    BY DEF LockInv, TypeInv, CallOK, NoCall
  <2>3. CASE phase[s] \in Pending
    <3>1. phase'[s] \in {"abandoned", "answered"}
      BY <2>1, <2>3 DEF Pending
    <3> QED
      BY <1>1, <2>2, <2>3, <3>1 DEF StageOf, Holding, Pending
  <2>4. CASE phase[s] \notin Pending
    <3>1. phase'[s] = phase[s]
      BY <2>1, <2>4 DEF Pending
    <3> QED
      BY <1>1, <2>4, <3>1 DEF StageOf, Holding, Pending
  <2> QED
    BY <2>3, <2>4
<1>3. StageMap' = [s \in Requests |->
                     IF StageMap[s] \in {"waiting", "running"} THEN "ended" ELSE StageMap[s]]
  BY <1>2 DEF StageMap
<1>4. Fifo!Reset
  BY <1>1, <1>3 DEF Fifo!Reset, StageMap, StageOf
<1> QED
  BY <1>4 DEF Fifo!FifoNext

LEMMA FifoStep == LockInv /\ [Next]_vars => [Fifo!FifoNext]_Fifo!fifoVars
<1> SUFFICES ASSUME LockInv, [Next]_vars PROVE [Fifo!FifoNext]_Fifo!fifoVars
  OBVIOUS
<1>1. ASSUME NEW r \in Requests, RakazoActs(r) \/ AbandonedCallDropped(r)
      PROVE  UNCHANGED Fifo!fifoVars
  <2>1. phase[r] = "abandoned" => call[r] # NoCall
    BY DEF LockInv, TypeInv, CallOK, NoCall
  <2>2. \A s \in Requests : StageOf(s)' = StageOf(s)
    BY <1>1, <2>1, RakazoActsMoves, Bystanders DEF StageOf, Holding, Pending
  <2> QED
    BY <1>1, <2>2, RakazoActsMoves, StageStutter
<1>2. ASSUME NEW r \in Requests, Returns(r) \/ TimesOut(r) PROVE Fifo!FifoNext
  BY <1>2, Endings, FifoLeaves
<1>3. ASSUME UNCHANGED <<locks, phase, call>> PROVE UNCHANGED Fifo!fifoVars
  <2>1. \A s \in Requests : StageOf(s)' = StageOf(s)
    BY <1>3 DEF StageOf
  <2> QED
    BY <1>3, <2>1, StageStutter
<1>4. ASSUME NEW id \in Computers, MachineSuspended(id) \/ MachineReclaimed(id)
      PROVE  UNCHANGED Fifo!fifoVars
  BY <1>3, <1>4 DEF MachineSuspended, MachineReclaimed
<1>5. UNCHANGED vars => UNCHANGED Fifo!fifoVars
  BY <1>3 DEF vars
<1> QED
  BY <1>1, <1>2, <1>4, <1>5, FifoArrives, FifoBegins, FifoRestarts DEF Next

\* The bridge's lock is a first-in first-out lock per key, through failures,
\* timeouts, refusals and restarts.
THEOREM FifoLockImplemented == Spec => ImplementsFifoLock
<1>1. Init => Fifo!FifoInit
  BY DEF Init, Fifo!FifoInit, Holding, Pending, NoCall
<1> QED
  BY <1>1, FifoStep, LockInvariant, PTL DEF Spec, ImplementsFifoLock, Fifo!FifoSpec
-----------------------------------------------------------------------------
(* Ownership.                                                               *)

NoWork == [id |-> None, capability |-> None, task |-> None]

Task(op) == IF op = "destroy" THEN "teardown" ELSE "use"

WorkOf(r) ==
  IF phase[r] \in Pending /\ call[r].op # "create"
  THEN [id |-> call[r].key, capability |-> call[r].under, task |-> Task(call[r].op)]
  ELSE NoWork

WorkMap == [r \in Requests |-> WorkOf(r)]

\* Ownership's variables, as this module names them.
LEMMA OwnershipVars ==
  /\ UNCHANGED <<computers, Capabilities, WorkMap>> => UNCHANGED Authority!ownershipVars
  /\ WorkMap = [r \in Requests |->
                  IF phase[r] \in Pending /\ call[r].op # "create"
                  THEN [id |-> call[r].key, capability |-> call[r].under,
                        task |-> IF call[r].op = "destroy" THEN "teardown" ELSE "use"]
                  ELSE [id |-> None, capability |-> None, task |-> None]]
BY DEF Authority!ownershipVars, WorkMap, WorkOf, NoWork, Task

LEMMA WorkMoves ==
  ASSUME NEW r \in Requests, NEW to, WorkOf(r)' = to,
         \A s \in Requests \ {r} : phase'[s] = phase[s] /\ call'[s] = call[s]
  PROVE  WorkMap' = [WorkMap EXCEPT ![r] = to]
<1>1. \A s \in Requests \ {r} : WorkOf(s)' = WorkOf(s)
  BY DEF WorkOf
<1> QED
  BY <1>1 DEF WorkMap

LEMMA WorkStays ==
  ASSUME \A s \in Requests : WorkOf(s)' = WorkOf(s)
  PROVE  UNCHANGED WorkMap
BY DEF WorkMap

\* Nothing is minted but by the return of a create.
LEMMA CapabilitiesStay ==
  ASSUME NEW r \in Requests,
         \A s \in Requests \ {r} : call'[s] = call[s] /\ outcome'[s] = outcome[s],
         ~(call[r].op = "create" /\ outcome[r] = "ok"),
         ~(call'[r].op = "create" /\ outcome'[r] = "ok")
  PROVE  UNCHANGED Capabilities
BY DEF Capabilities

\* A request whose work ends with nothing minted.
LEMMA OwnershipSettle ==
  ASSUME LockInv, RecordInv, NEW r \in Requests, phase[r] \in Pending, UNCHANGED computers,
         NEW last \in {"answered", "abandoned"}, NEW result, Settle(r, last, result),
         call[r].op = "create" => result # "ok"
  PROVE  [Authority!OwnershipNext]_Authority!ownershipVars
<1>1. /\ phase'[r] = last /\ call' = call /\ outcome'[r] = result
      /\ \A s \in Requests \ {r} : phase'[s] = phase[s] /\ call'[s] = call[s]
                                   /\ outcome'[s] = outcome[s]
  BY DEF Settle, LockInv, TypeInv, TypeOK
<1>2. outcome[r] # "ok"
  BY DEF RecordInv, RecordOK, Outcomes
<1>3. UNCHANGED Capabilities
  BY <1>1, <1>2, CapabilitiesStay
<1>4. WorkOf(r)' = NoWork
  BY <1>1 DEF WorkOf, Pending
<1>5. WorkMap' = [WorkMap EXCEPT ![r] = NoWork]
  BY <1>1, <1>4, WorkMoves
<1>6. CASE call[r].op = "create"
  <2>1. WorkMap[r] = NoWork
    BY <1>6 DEF WorkMap, WorkOf
  <2>2. UNCHANGED WorkMap
    BY <1>5, <2>1 DEF WorkMap
  <2> QED
    BY <1>3, <2>2, OwnershipVars
<1>7. CASE call[r].op # "create"
  <2>1. call[r].key \in Computers
    BY <1>7, CallShape DEF LockInv
  <2>2. WorkMap[r] # NoWork
    BY <1>7, <2>1 DEF WorkMap, WorkOf, NoWork, Task
  <2>3. Authority!EndWork(r)
    BY <1>3, <1>5, <2>2 DEF Authority!EndWork, Authority!NoWork, WorkMap, WorkOf, NoWork, Task
  <2> QED
    BY <2>3 DEF Authority!OwnershipNext
<1> QED
  BY <1>6, <1>7

LEMMA OwnershipArrives ==
  ASSUME LockInv, RecordInv, NEW r \in Requests, Arrives(r)
  PROVE  [Authority!OwnershipNext]_Authority!ownershipVars
<1>0. /\ phase[r] = "idle" /\ outcome[r] = None /\ WorkMap[r] = NoWork
      /\ \A s \in Requests \ {r} : phase'[s] = phase[s] /\ call'[s] = call[s]
                                   /\ outcome'[s] = outcome[s]
  <2>1. phase[r] = "idle"
    BY DEF Arrives, Create, Status, Command, Stop, Destroy, Admit
  <2> QED
    BY <2>1, Bystanders DEF RecordInv, RecordOK, WorkMap, WorkOf, Pending
<1>1. ASSUME NEW op, NEW key, NEW e, NEW u, Enqueue(r, op, key, e, u)
      PROVE  /\ UNCHANGED <<computers, Capabilities>>
             /\ WorkMap' = [WorkMap EXCEPT ![r] = IF op = "create" THEN NoWork
                                                  ELSE [id |-> key, capability |-> u, task |-> Task(op)]]
  <2>1. /\ phase'[r] = "queued" /\ call'[r] = [op |-> op, key |-> key, entry |-> e, under |-> u]
        /\ outcome'[r] = None /\ UNCHANGED computers
    BY <1>0, <1>1 DEF Enqueue, records, LockInv, TypeInv, TypeOK
  <2>2. UNCHANGED Capabilities
    BY <1>0, <2>1, CapabilitiesStay DEF Outcomes
  <2>3. WorkOf(r)' = IF op = "create" THEN NoWork ELSE [id |-> key, capability |-> u, task |-> Task(op)]
    BY <2>1 DEF WorkOf, Pending
  <2> QED
    BY <1>0, <2>1, <2>2, <2>3, WorkMoves
<1>2. ASSUME NEW b \in Bots, Create(r, b) PROVE UNCHANGED Authority!ownershipVars
  <2>1. UNCHANGED <<computers, Capabilities>> /\ WorkMap' = [WorkMap EXCEPT ![r] = NoWork]
    BY <1>1, <1>2 DEF Create
  <2>2. UNCHANGED WorkMap
    BY <1>0, <2>1 DEF WorkMap
  <2> QED
    BY <2>1, <2>2, OwnershipVars
<1>3. ASSUME NEW id \in Computers, NEW op \in {"status", "command", "stop", "destroy"},
             NEW c, NEW t, NEW a \in BOOLEAN, a => op = "destroy", Admit(r, op, id, c, t, a)
      PROVE  [Authority!OwnershipNext]_Authority!ownershipVars
  <2>1. CASE Refusal(id, c, t, a) = None
    <3>1. computers[id] # None
      BY <2>1 DEF Refusal, Outcomes
    <3>2. /\ UNCHANGED <<computers, Capabilities>>
          /\ WorkMap' = [WorkMap EXCEPT ![r] = [id |-> id, capability |-> IF a THEN None ELSE c,
                                                task |-> Task(op)]]
      BY <1>1, <1>3, <2>1 DEF Admit
    <3>3. CASE a
      <4>1. Task(op) = "teardown"
        BY <1>3, <3>3 DEF Task
      <4>2. Authority!Adopt(r, id)
        BY <1>0, <3>1, <3>2, <3>3, <4>1
        DEF Authority!Adopt, Authority!NoWork, WorkMap, WorkOf, NoWork, Task
      <4> QED
        BY <4>2 DEF Authority!OwnershipNext
    <3>4. CASE ~a
      <4>1. c = computers[id] /\ c \in Requests
        BY <2>1, <3>1, <3>4 DEF Refusal, LockInv, TypeInv, TypeOK, Outcomes
      <4>2. Task(op) \in Authority!Tasks
        BY DEF Task, Authority!Tasks
      <4>3. Authority!StartWork(r, id, c, Task(op))
        BY <1>0, <3>1, <3>2, <3>4, <4>1
        DEF Authority!StartWork, Authority!NoWork, WorkMap, WorkOf, NoWork, Task
      <4> QED
        BY <4>1, <4>2, <4>3 DEF Authority!OwnershipNext
    <3> QED
      BY <3>3, <3>4
  <2>2. CASE Refusal(id, c, t, a) # None
    <3>1. /\ UNCHANGED <<computers, call>> /\ phase'[r] = "answered"
          /\ outcome'[r] = Refusal(id, c, t, a)
      BY <1>3, <2>2 DEF Admit, records, LockInv, TypeInv, TypeOK
    <3>2. Refusal(id, c, t, a) # "ok"
      BY DEF Refusal, Outcomes
    <3>3. UNCHANGED Capabilities
      BY <1>0, <3>1, <3>2, CapabilitiesStay DEF Outcomes
    <3>4. UNCHANGED WorkMap
      <4>1. \A s \in Requests : WorkOf(s)' = WorkOf(s)
        BY <1>0, <3>1 DEF WorkOf, Pending
      <4> QED
        BY <4>1, WorkStays
    <3> QED
      BY <3>1, <3>3, <3>4, OwnershipVars
  <2> QED
    BY <2>1, <2>2
<1> QED
  BY <1>2, <1>3 DEF Arrives, Status, Command, Stop, Destroy

LEMMA OwnershipReturns ==
  ASSUME LockInv, RecordInv, NEW r \in Requests, Returns(r)
  PROVE  [Authority!OwnershipNext]_Authority!ownershipVars
<1>0. phase[r] = "replying" /\ phase[r] \in Pending
  BY DEF Returns, CreateReturns, StatusReturns, CommandReturns, StopReturns, DestroyReturns,
         Replied, Pending
<1>1. CASE CreateReturns(r) /\ reply[r].code = "ok"
  <2>1. /\ call[r].op = "create" /\ reply[r].id \in Computers /\ outcome[r] = None
        /\ computers' = [computers EXCEPT ![reply[r].id] = r] /\ Settle(r, "answered", "ok")
    BY <1>0, <1>1 DEF CreateReturns, Replied, LockInv, TypeInv, CallOK, RecordInv, RecordOK
  <2>2. /\ phase'[r] = "answered" /\ outcome'[r] = "ok" /\ UNCHANGED call
        /\ \A s \in Requests \ {r} : phase'[s] = phase[s] /\ outcome'[s] = outcome[s]
    BY <2>1 DEF Settle, LockInv, TypeInv, TypeOK
  <2>3. r \notin Capabilities /\ Capabilities' = Capabilities \cup {r}
    BY <2>1, <2>2 DEF Capabilities, Outcomes
  <2>4. \A s \in Requests : WorkOf(s)' = WorkOf(s)
    BY <2>1, <2>2 DEF WorkOf
  <2>5. Authority!Mint(reply[r].id, r)
    BY <2>1, <2>3, <2>4, WorkStays DEF Authority!Mint, WorkMap, WorkOf, NoWork, Task
  <2> QED
    BY <2>1, <2>5 DEF Authority!OwnershipNext
<1>2. CASE ~(CreateReturns(r) /\ reply[r].code = "ok")
  <2>1. \A code : Failure(code) # "ok"
    BY DEF Failure
  <2>2. /\ UNCHANGED computers
        /\ \E result : Settle(r, "answered", result) /\ (call[r].op = "create" => result # "ok")
    BY <1>2, <2>1 DEF Returns, CreateReturns, StatusReturns, CommandReturns, StopReturns,
                      DestroyReturns, Replied, records
  <2> QED
    BY <1>0, <2>2, OwnershipSettle
<1> QED
  BY <1>1, <1>2

LEMMA OwnershipRestarts ==
  ASSUME LockInv, RecordInv, BridgeRestarts
  PROVE  Authority!OwnershipNext
<1>1. /\ computers' = [id \in Computers |-> None] /\ UNCHANGED call
      /\ \A s \in Requests : /\ phase'[s] \notin Pending
                             /\ outcome'[s] = "ok" <=> outcome[s] = "ok"
  <2>1. \A s \in Requests : phase[s] \in Pending => outcome[s] # "ok"
    BY DEF RecordInv, RecordOK, Outcomes
  <2> QED
    BY <2>1 DEF BridgeRestarts, LockInv, TypeInv, TypeOK, Phases, Pending
<1>2. UNCHANGED Capabilities
  BY <1>1 DEF Capabilities
<1>3. WorkMap' = [s \in Requests |-> NoWork]
  <2>1. \A s \in Requests : WorkOf(s)' = NoWork
    BY <1>1 DEF WorkOf, NoWork
  <2> QED
    BY <2>1 DEF WorkMap
<1>4. Authority!Forget
  BY <1>1, <1>2, <1>3 DEF Authority!Forget, Authority!NoWork, WorkMap, WorkOf, NoWork, Task
<1> QED
  BY <1>4 DEF Authority!OwnershipNext

LEMMA OwnershipStep ==
  LockInv /\ RecordInv /\ [Next]_vars => [Authority!OwnershipNext]_Authority!ownershipVars
<1> SUFFICES ASSUME LockInv, RecordInv, [Next]_vars
             PROVE  [Authority!OwnershipNext]_Authority!ownershipVars
  OBVIOUS
<1>1. ASSUME NEW r \in Requests, RakazoActs(r) \/ AbandonedCallDropped(r)
      PROVE  UNCHANGED Authority!ownershipVars
  <2>1. \A s \in Requests : WorkOf(s)' = WorkOf(s)
    BY <1>1, RakazoActsMoves, Bystanders DEF WorkOf, Pending
  <2>2. UNCHANGED <<computers, Capabilities>>
    BY <1>1, RakazoActsMoves DEF Capabilities
  <2> QED
    BY <2>1, <2>2, WorkStays, OwnershipVars
<1>2. ASSUME NEW r \in Requests, Begins(r)
      PROVE  [Authority!OwnershipNext]_Authority!ownershipVars
  <2>1. phase[r] = "queued" /\ phase[r] \in Pending /\ (CallRakazo(r) \/ AnswerAlready(r))
    BY <1>2 DEF Begins, BeginCall, BeginStop, BeginDestroy, HasTurn, Pending
  <2>2. CASE AnswerAlready(r)
    BY <2>1, <2>2, OwnershipSettle DEF AnswerAlready, records
  <2>3. CASE CallRakazo(r)
    <3>1. /\ phase'[r] = "calling" /\ UNCHANGED <<computers, call, outcome>>
          /\ \A s \in Requests \ {r} : phase'[s] = phase[s]
      BY <2>3 DEF CallRakazo, records, LockInv, TypeInv, TypeOK
    <3>2. \A s \in Requests : WorkOf(s)' = WorkOf(s)
      BY <2>1, <3>1 DEF WorkOf, Pending
    <3>3. UNCHANGED Capabilities
      BY <3>1 DEF Capabilities
    <3> QED
      BY <3>1, <3>2, <3>3, WorkStays, OwnershipVars
  <2> QED
    BY <2>1, <2>2, <2>3
<1>3. ASSUME NEW r \in Requests, TimesOut(r)
      PROVE  [Authority!OwnershipNext]_Authority!ownershipVars
  <2>1. PICK last \in {"answered", "abandoned"} : Settle(r, last, "failed")
    BY <1>3 DEF TimesOut
  <2> QED
    BY <1>3, <2>1, OwnershipSettle DEF TimesOut, records, Holding, Pending
<1>4. ASSUME UNCHANGED <<computers, phase, call, outcome>>
      PROVE  UNCHANGED Authority!ownershipVars
  <2>1. \A s \in Requests : WorkOf(s)' = WorkOf(s)
    BY <1>4 DEF WorkOf
  <2>2. UNCHANGED Capabilities
    BY <1>4 DEF Capabilities
  <2> QED
    BY <1>4, <2>1, <2>2, WorkStays, OwnershipVars
<1>5. ASSUME NEW id \in Computers, MachineSuspended(id) \/ MachineReclaimed(id)
      PROVE  UNCHANGED Authority!ownershipVars
  BY <1>4, <1>5 DEF MachineSuspended, MachineReclaimed, records
<1>6. UNCHANGED vars => UNCHANGED Authority!ownershipVars
  BY <1>4 DEF vars
<1> QED
  BY <1>1, <1>2, <1>3, <1>5, <1>6, OwnershipArrives, OwnershipReturns, OwnershipRestarts DEF Next

\* Every computer has one holder at most, the last capability minted for it; who is
\* let in presented it, or presented none and may only destroy; and a replaced or
\* forgotten one never opens anything again.
THEOREM OwnershipImplemented == Spec => ImplementsOwnership
<1>1. Init => Authority!OwnershipInit
  <2> SUFFICES ASSUME Init PROVE Authority!OwnershipInit
    OBVIOUS
  <2>1. Capabilities = {}
    BY DEF Init, Capabilities, NoCall, Operations
  <2>2. \A r \in Requests : WorkOf(r) = NoWork
    BY DEF Init, WorkOf, Pending
  <2>3. WorkMap = [r \in Requests |-> NoWork]
    BY <2>2 DEF WorkMap
  <2> QED
    BY <2>1, <2>3 DEF Init, Authority!OwnershipInit, Authority!NoWork, WorkMap, WorkOf, NoWork, Task
<1> QED
  BY <1>1, OwnershipStep, LockInvariant, RecordInvariant, PTL
  DEF Spec, ImplementsOwnership, Authority!OwnershipSpec

-----------------------------------------------------------------------------
(* Owners.                                                                  *)

Lives(id) == machine[id] \in {"running", "stopped"}

\* Rakazo gives a bot one machine at a time: what RakazoProvisions looks for
\* before it takes a fresh one.
OwnerInv ==
  /\ \A id \in Computers : Lives(id) => owner[id] \in Bots
  /\ \A id, jd \in Computers : Lives(id) /\ Lives(jd) /\ owner[id] = owner[jd] => id = jd

\* What one step does to the machines and their owners.
LEMMA MachineSteps ==
  ASSUME LockInv, [Next]_vars
  PROVE  \/ UNCHANGED rakazo
         \/ \E r \in Requests : RakazoProvisions(r)
         \/ \E id \in Computers : Lives(id) /\ owner' = owner
              /\ \E m \in {"stopped", "gone"} : machine' = [machine EXCEPT ![id] = m]
<1>1. ASSUME NEW r \in Requests, Arrives(r) PROVE UNCHANGED rakazo
  BY <1>1, ArrivesLeaves
<1>2. ASSUME NEW r \in Requests, Begins(r) PROVE UNCHANGED rakazo
  BY <1>2 DEF Begins, BeginCall, BeginStop, BeginDestroy, CallRakazo, AnswerAlready, Settle, rakazo
<1>3. ASSUME NEW r \in Requests, Returns(r) \/ TimesOut(r) PROVE UNCHANGED rakazo
  BY <1>3, Endings DEF Settle, rakazo
<1>4. ASSUME NEW r \in Requests, RakazoExecutes(r) \/ RakazoFails(r) \/ AbandonedCallDropped(r)
      PROVE  UNCHANGED rakazo
  BY <1>4 DEF RakazoExecutes, RakazoFails, AbandonedCallDropped, rakazo
<1>5. ASSUME NEW r \in Requests, RakazoStops(r) \/ RakazoDestroys(r)
      PROVE  \/ UNCHANGED rakazo
             \/ \E id \in Computers : Lives(id) /\ owner' = owner
                  /\ \E m \in {"stopped", "gone"} : machine' = [machine EXCEPT ![id] = m]
  <2>1. Out(r, "stop") \/ Out(r, "destroy") => call[r].key \in Computers
    BY DEF Out, LockInv, TypeInv, CallOK
  <2> QED
    BY <1>5, <2>1 DEF RakazoStops, RakazoDestroys, Lives, rakazo
<1>6. ASSUME NEW id \in Computers, MachineSuspended(id) \/ MachineReclaimed(id)
      PROVE  /\ Lives(id) /\ owner' = owner
             /\ \E m \in {"stopped", "gone"} : machine' = [machine EXCEPT ![id] = m]
  BY <1>6 DEF MachineSuspended, MachineReclaimed, Lives
<1>7. BridgeRestarts \/ UNCHANGED vars => UNCHANGED rakazo
  BY DEF BridgeRestarts, vars, rakazo
<1> QED
  BY <1>1, <1>2, <1>3, <1>4, <1>5, <1>6, <1>7 DEF Next, RakazoActs

\* A create that reaches Rakazo, of bot b: it finds the bot's machine, or takes
\* one that nobody ever had.
LEMMA Provisions ==
  ASSUME LockInv, OwnerInv, NEW r \in Requests, RakazoProvisions(r)
  PROVE  LET b == call[r].key IN
         /\ b \in Bots /\ Out(r, "create")
         /\ \E id \in Computers :
              /\ \/ Live(b) = {id}
                 \/ Live(b) = {} /\ machine[id] = "unborn"
              /\ machine' = [machine EXCEPT ![id] = "running"]
              /\ owner' = [owner EXCEPT ![id] = b]
              /\ Landed(r, "ok", id)
<1>1. call[r].key \in Bots /\ Out(r, "create")
  BY DEF RakazoProvisions, Out, LockInv, TypeInv, CallOK
<1>2. Live(call[r].key) =
        {id \in Computers : owner[id] = call[r].key /\ machine[id] \in {"running", "stopped"}}
  BY DEF Live
<1>3. PICK id \in (IF Live(call[r].key) # {} THEN Live(call[r].key)
                   ELSE {jd \in Computers : machine[jd] = "unborn"}) :
        /\ machine' = [machine EXCEPT ![id] = "running"]
        /\ owner' = [owner EXCEPT ![id] = call[r].key]
        /\ Landed(r, "ok", id)
  BY <1>2 DEF RakazoProvisions
<1>4. CASE Live(call[r].key) = {}
  BY <1>1, <1>3, <1>4
<1>5. CASE Live(call[r].key) # {}
  <2>1. Live(call[r].key) = {id} /\ id \in Computers
    BY <1>2, <1>3, <1>5 DEF OwnerInv, Lives
  <2> QED
    BY <1>1, <1>3, <2>1
<1> QED
  BY <1>4, <1>5

LEMMA OwnerStep == LockInv /\ OwnerInv /\ [Next]_vars => OwnerInv'
<1> SUFFICES ASSUME LockInv, OwnerInv, [Next]_vars PROVE OwnerInv'
  OBVIOUS
<1>0. machine \in [Computers -> Machines] /\ owner \in [Computers -> Bots \cup {None}]
  BY DEF LockInv, TypeInv, TypeOK
<1>1. CASE UNCHANGED rakazo
  BY <1>1 DEF OwnerInv, Lives, rakazo
<1>2. ASSUME NEW r \in Requests, RakazoProvisions(r) PROVE OwnerInv'
  <2>1. PICK id \in Computers :
          /\ \/ Live(call[r].key) = {id}
             \/ Live(call[r].key) = {} /\ machine[id] = "unborn"
          /\ machine' = [machine EXCEPT ![id] = "running"]
          /\ owner' = [owner EXCEPT ![id] = call[r].key]
    BY <1>2, Provisions
  <2>2. call[r].key \in Bots
    BY <1>2, Provisions
  <2>3. \A jd \in Computers : Lives(jd) /\ owner[jd] = call[r].key => jd = id
    BY <2>1 DEF Live, Lives
  <2> QED
    BY <1>0, <2>1, <2>2, <2>3 DEF OwnerInv, Lives
<1>3. ASSUME NEW id \in Computers, owner' = owner, Lives(id),
             NEW m \in {"stopped", "gone"}, machine' = [machine EXCEPT ![id] = m]
      PROVE  OwnerInv'
  BY <1>0, <1>3 DEF OwnerInv, Lives
<1> QED
  BY <1>1, <1>2, <1>3, MachineSteps

LEMMA OwnerInvariant == Spec => []OwnerInv
<1>1. Init => OwnerInv
  BY DEF Init, OwnerInv, Lives
<1> QED
  BY <1>1, OwnerStep, LockInvariant, PTL DEF Spec
-----------------------------------------------------------------------------
(* The view.                                                                *)

ContainerOf(b) == IF Live(b) = {} THEN None ELSE CHOOSE id \in Live(b) : TRUE

ContainerMap == [b \in Bots |-> ContainerOf(b)]

CreatingOf(b) ==
  IF Provisioned(b) = {} THEN [id |-> None, capability |-> None]
  ELSE LET r == CHOOSE r \in Provisioned(b) : TRUE IN [id |-> reply[r].id, capability |-> r]

CreatingMap == [b \in Bots |-> CreatingOf(b)]

LEMMA ViewVars ==
  UNCHANGED <<ContainerMap, computers, CreatingMap>> => UNCHANGED View!viewVars
BY DEF View!viewVars, ContainerMap, CreatingMap, ContainerOf, CreatingOf

LEMMA ChosenOnly == ASSUME NEW x PROVE (CHOOSE y \in {x} : TRUE) = x
OBVIOUS

\* A bot has one live container at most, so the one chosen is the one there is.
LEMMA ContainerIs ==
  ASSUME OwnerInv, NEW b \in Bots
  PROVE  /\ Live(b) = {} => ContainerOf(b) = None
         /\ \A id \in Computers : Live(b) = {id} <=> ContainerOf(b) = id
         /\ \A id \in Live(b) : Live(b) = {id}
<1>1. \A id \in Live(b) : Live(b) = {id}
  BY DEF OwnerInv, Live, Lives
<1>2. ASSUME NEW id, Live(b) = {id} PROVE ContainerOf(b) = id
  BY <1>2, ChosenOnly DEF ContainerOf
<1>3. Live(b) = {} => ContainerOf(b) = None
  BY DEF ContainerOf
<1> QED
  BY <1>1, <1>2, <1>3 DEF Live

LEMMA ProvisionedOnly ==
  ASSUME LockInv, NEW b, NEW r \in Provisioned(b)
  PROVE  Provisioned(b) = {r} /\ CreatingOf(b) = [id |-> reply[r].id, capability |-> r]
<1>1. \A s \in Provisioned(b) : s = r
  <2> SUFFICES ASSUME NEW s \in Provisioned(b) PROVE s = r
    OBVIOUS
  <2>1. locks[b][1] = r /\ locks[b][1] = s
    BY AtTheHead DEF LockInv, Provisioned, Holding
  <2> QED
    BY <2>1
<1>2. Provisioned(b) = {r}
  BY <1>1
<1> QED
  BY <1>2, ChosenOnly DEF CreatingOf

-----------------------------------------------------------------------------
(* What the steps do to it.                                                 *)

\* A create whose answer is on its way is moved by its own steps alone, and
\* by a restart.
LEMMA CreatingStays ==
  ASSUME NEW b, \A s \in Requests : s \in Provisioned(b)' <=> s \in Provisioned(b),
         \A s \in Provisioned(b) : reply'[s] = reply[s],
         LockInv, LockInv'
  PROVE  CreatingOf(b)' = CreatingOf(b)
<1>1. Provisioned(b)' = Provisioned(b)
  BY DEF Provisioned
<1>2. CASE Provisioned(b) = {}
  BY <1>1, <1>2 DEF CreatingOf
<1>3. ASSUME NEW r \in Provisioned(b) PROVE CreatingOf(b)' = CreatingOf(b)
  <2>1. Provisioned(b) = {r} /\ Provisioned(b)' = {r} /\ reply'[r] = reply[r]
    BY <1>1, <1>3, ProvisionedOnly
  <2> QED
    BY <2>1, ChosenOnly DEF CreatingOf
<1> QED
  BY <1>2, <1>3

\* A machine that ends, of whoever it was.
LEMMA ViewDeletes ==
  ASSUME LockInv, OwnerInv, OwnerInv', NEW id \in Computers, owner' = owner,
         machine' = [machine EXCEPT ![id] = "gone"],
         UNCHANGED computers, CreatingMap' = CreatingMap
  PROVE  View!BridgeNext
<1>0. machine \in [Computers -> Machines]
  BY DEF LockInv, TypeInv, TypeOK
<1>1. ASSUME NEW b \in Bots
      PROVE  ContainerOf(b)' = IF ContainerOf(b) = id THEN None ELSE ContainerOf(b)
  <2>1. Live(b)' = Live(b) \ {id}
    BY <1>0 DEF Live
  <2>2. CASE Live(b) = {id}
    BY <2>1, <2>2, ContainerIs DEF ContainerOf
  <2>3. CASE Live(b) # {id}
    <3>1. Live(b)' = Live(b)
      BY <2>1, <2>3, ContainerIs
    <3> QED
      BY <2>3, <3>1, ContainerIs DEF ContainerOf
  <2> QED
    BY <2>2, <2>3
<1>2. ContainerMap' = [b \in Bots |-> IF ContainerMap[b] = id THEN None ELSE ContainerMap[b]]
  BY <1>1 DEF ContainerMap
<1>3. View!Delete(id)
  BY <1>2 DEF View!Delete, ContainerMap, CreatingMap, ContainerOf, CreatingOf
<1> QED
  BY <1>3 DEF View!BridgeNext

LEMMA ContainerStays ==
  ASSUME NEW b, Live(b)' = Live(b)
  PROVE  ContainerOf(b)' = ContainerOf(b)
BY DEF ContainerOf

LEMMA ContainersStay ==
  ASSUME \A b \in Bots : Live(b)' = Live(b)
  PROVE  ContainerMap' = ContainerMap
<1>1. \A b \in Bots : ContainerOf(b)' = ContainerOf(b)
  BY ContainerStays
<1> QED
  BY <1>1 DEF ContainerMap

\* A step of r that leaves r out of Provisioned, before and after.
LEMMA ViewBystands ==
  ASSUME LockInv, LockInv', NEW r \in Requests,
         \A s \in Requests \ {r} : phase'[s] = phase[s] /\ call'[s] = call[s] /\ reply'[s] = reply[s],
         \A b \in Bots : r \notin Provisioned(b) /\ r \notin Provisioned(b)'
  PROVE  CreatingMap' = CreatingMap
<1>1. ASSUME NEW b \in Bots PROVE CreatingOf(b)' = CreatingOf(b)
  <2>1. \A s \in Requests : s \in Provisioned(b)' <=> s \in Provisioned(b)
    BY <1>1 DEF Provisioned
  <2>2. \A s \in Provisioned(b) : reply'[s] = reply[s]
    BY <1>1 DEF Provisioned
  <2> QED
    BY <2>1, <2>2, CreatingStays
<1> QED
  BY <1>1 DEF CreatingMap

\* An answered create is on its way for bot b: now, or from this step on.
LEMMA CreatingMoves ==
  ASSUME LockInv, LockInv', NEW r \in Requests, NEW b \in Bots, NEW to,
         \A s \in Requests \ {r} : phase'[s] = phase[s] /\ call'[s] = call[s] /\ reply'[s] = reply[s],
         \A a \in Bots \ {b} : r \notin Provisioned(a) /\ r \notin Provisioned(a)',
         CreatingOf(b)' = to
  PROVE  CreatingMap' = [CreatingMap EXCEPT ![b] = to]
<1>1. ASSUME NEW a \in Bots \ {b} PROVE CreatingOf(a)' = CreatingOf(a)
  <2>1. \A s \in Requests : s \in Provisioned(a)' <=> s \in Provisioned(a)
    BY <1>1 DEF Provisioned
  <2>2. \A s \in Provisioned(a) : reply'[s] = reply[s]
    BY <1>1 DEF Provisioned
  <2> QED
    BY <2>1, <2>2, CreatingStays
<1> QED
  BY <1>1 DEF CreatingMap

LEMMA ViewProvisions ==
  ASSUME LockInv, LockInv', OwnerInv, OwnerInv', NEW r \in Requests, RakazoProvisions(r)
  PROVE  [View!BridgeNext]_View!viewVars
<1>0. /\ machine \in [Computers -> Machines] /\ owner \in [Computers -> Bots \cup {None}]
      /\ phase \in [Requests -> Phases]
      /\ reply \in [Requests -> [code: Codes \cup {None}, id: Computers \cup {None}]]
  BY DEF LockInv, TypeInv, TypeOK
<1>1. PICK b \in Bots : b = call[r].key
  BY Provisions
<1>2. call[r].op = "create" /\ call[r].key = b /\ phase[r] \in {"calling", "abandoned"}
  BY <1>1, Provisions DEF Out
<1>3. PICK id \in Computers :
        /\ \/ Live(b) = {id}
           \/ Live(b) = {} /\ machine[id] = "unborn"
        /\ machine' = [machine EXCEPT ![id] = "running"]
        /\ owner' = [owner EXCEPT ![id] = b]
        /\ Landed(r, "ok", id)
  BY <1>1, Provisions
<1>4. UNCHANGED <<computers, call>>
  BY RakazoActsMoves DEF RakazoActs
<1>5. /\ Live(b)' = {id}
      /\ \A a \in Bots \ {b} : Live(a)' = Live(a)
  <2>1. \A jd \in Computers : jd \in Live(b) => jd = id
    BY <1>3
  <2>2. \A a \in Bots \ {b} : id \notin Live(a)
    BY <1>3 DEF Live
  <2> QED
    BY <1>0, <1>1, <1>3, <2>1, <2>2 DEF Live
<1>6. ContainerMap' = [ContainerMap EXCEPT ![b] = IF @ = None THEN id ELSE @]
  <2>1. ContainerOf(b)' = id
    BY <1>5, ChosenOnly DEF ContainerOf
  <2>2. ContainerOf(b) = None \/ ContainerOf(b) = id
    BY <1>1, <1>3, ContainerIs
  <2>3. \A a \in Bots \ {b} : ContainerOf(a)' = ContainerOf(a)
    BY <1>5, ContainerStays
  <2> QED
    BY <1>1, <2>1, <2>2, <2>3 DEF ContainerMap
<1>7. ContainerMap[b] = None => ~\E a \in Bots : ContainerMap[a] = id
  <2>1. SUFFICES ASSUME ContainerOf(b) = None, NEW a \in Bots, ContainerOf(a) = id PROVE FALSE
    BY <1>1 DEF ContainerMap
  <2>2. Live(b) # {id} /\ Live(a) = {id}
    BY <1>1, <2>1, ContainerIs
  <2> QED
    BY <1>3, <2>2 DEF Live
<1>8. CASE phase[r] = "calling"
  <2>1. /\ phase' = [phase EXCEPT ![r] = "replying"]
        /\ reply' = [reply EXCEPT ![r] = [code |-> "ok", id |-> id]]
    BY <1>3, <1>8 DEF Landed
  <2>2. Provisioned(b) = {} /\ CreatingMap[b] = [id |-> None, capability |-> None]
    <3>1. \A s \in Provisioned(b) : s = r
      BY <1>2, <1>8, AtTheHead DEF LockInv, Provisioned, Holding
    <3> QED
      BY <1>8, <3>1 DEF Provisioned, CreatingMap, CreatingOf
  <2>3. r \in Provisioned(b)' /\ reply'[r].id = id
    BY <1>0, <1>2, <1>4, <2>1 DEF Provisioned
  <2>4. CreatingOf(b)' = [id |-> id, capability |-> r]
    <3>1. Provisioned(b)' = {r}
      BY <1>0, <1>4, <2>1, <2>2, <2>3 DEF Provisioned
    <3> QED
      BY <2>3, <3>1, ChosenOnly DEF CreatingOf
  <2>5. CreatingMap' = [CreatingMap EXCEPT ![b] = [id |-> id, capability |-> r]]
    <3>1. \A a \in Bots \ {b} : r \notin Provisioned(a) /\ r \notin Provisioned(a)'
      BY <1>2, <1>4 DEF Provisioned
    <3> QED
      BY <1>0, <1>4, <2>1, <2>4, <3>1, CreatingMoves
  <2>6. ContainerMap'[b] = id
    BY <1>5, ChosenOnly DEF ContainerMap, ContainerOf
  <2>7. View!Provision(b, id, r)
    BY <1>4, <1>6, <1>7, <2>2, <2>5, <2>6
    DEF View!Provision, View!NoCreate, View!Alive, ContainerMap, CreatingMap, ContainerOf, CreatingOf
  <2> QED
    BY <1>1, <2>7 DEF View!BridgeNext
<1>9. CASE phase[r] = "abandoned"
  <2>1. phase' = [phase EXCEPT ![r] = "answered"] /\ reply' = reply
    BY <1>3, <1>9 DEF Landed
  <2>2. CreatingMap' = CreatingMap
    <3>1. \A a \in Bots : r \notin Provisioned(a) /\ r \notin Provisioned(a)'
      BY <1>0, <1>9, <2>1 DEF Provisioned
    <3> QED
      BY <1>0, <1>4, <2>1, <3>1, ViewBystands
  <2>3. CASE ContainerMap[b] = None
    <3>1. View!ProvisionLate(b, id)
      BY <1>4, <1>6, <1>7, <2>2, <2>3
      DEF View!ProvisionLate, View!Alive, ContainerMap, CreatingMap, ContainerOf, CreatingOf
    <3> QED
      BY <1>1, <3>1 DEF View!BridgeNext
  <2>4. CASE ContainerMap[b] # None
    <3>1. ContainerMap' = ContainerMap
      BY <1>1, <1>6, <2>4 DEF ContainerMap
    <3> QED
      BY <1>4, <2>2, <3>1, ViewVars
  <2> QED
    BY <2>3, <2>4
<1> QED
  BY <1>2, <1>8, <1>9

\* The answer to a create is used, or lost.
LEMMA ViewAnswered ==
  ASSUME LockInv, LockInv', NEW r \in Requests, NEW b \in Bots, r \in Provisioned(b),
         phase'[r] # "replying", UNCHANGED <<rakazo, call>>,
         \A s \in Requests \ {r} : phase'[s] = phase[s] /\ call'[s] = call[s] /\ reply'[s] = reply[s],
         \/ UNCHANGED computers
         \/ computers' = [computers EXCEPT ![reply[r].id] = r]
  PROVE  View!BridgeNext
<1>1. CreatingOf(b) = [id |-> reply[r].id, capability |-> r] /\ Provisioned(b) = {r}
  BY ProvisionedOnly
<1>2. Provisioned(b)' = {}
  BY <1>1 DEF Provisioned
<1>3. CreatingOf(b)' = [id |-> None, capability |-> None]
  BY <1>2 DEF CreatingOf
<1>4. CreatingMap' = [CreatingMap EXCEPT ![b] = [id |-> None, capability |-> None]]
  <2>1. \A a \in Bots \ {b} : r \notin Provisioned(a) /\ r \notin Provisioned(a)'
    BY DEF Provisioned
  <2> QED
    BY <1>3, <2>1, CreatingMoves
<1>5. ContainerMap' = ContainerMap
  BY ContainersStay DEF Live, rakazo
<1>6. /\ CreatingMap[b] = [id |-> reply[r].id, capability |-> r]
      /\ CreatingMap[b] # [id |-> None, capability |-> None]
  BY <1>1 DEF CreatingMap
<1>7. CASE UNCHANGED computers
  <2>1. View!GiveUp(b)
    BY <1>4, <1>5, <1>6, <1>7
    DEF View!GiveUp, View!NoCreate, ContainerMap, CreatingMap, ContainerOf, CreatingOf
  <2> QED
    BY <2>1 DEF View!BridgeNext
<1>8. CASE computers' = [computers EXCEPT ![reply[r].id] = r]
  <2>1. View!Issue(b)
    BY <1>4, <1>5, <1>6, <1>8
    DEF View!Issue, View!NoCreate, ContainerMap, CreatingMap, ContainerOf, CreatingOf
  <2> QED
    BY <2>1 DEF View!BridgeNext
<1> QED
  BY <1>7, <1>8

\* A step of r that neither provisions nor moves such an answer.
LEMMA ViewStutters ==
  ASSUME LockInv, LockInv', NEW r \in Requests, UNCHANGED <<rakazo, computers>>,
         \A s \in Requests \ {r} : phase'[s] = phase[s] /\ call'[s] = call[s] /\ reply'[s] = reply[s],
         \A b \in Bots : r \notin Provisioned(b) /\ r \notin Provisioned(b)'
  PROVE  UNCHANGED View!viewVars
<1>1. CreatingMap' = CreatingMap
  BY ViewBystands
<1>2. ContainerMap' = ContainerMap
  BY ContainersStay DEF Live, rakazo
<1> QED
  BY <1>1, <1>2, ViewVars

LEMMA ViewReturns ==
  ASSUME LockInv, LockInv', NEW r \in Requests, Returns(r) \/ TimesOut(r)
  PROVE  [View!BridgeNext]_View!viewVars
<1>1. PICK last \in {"answered", "abandoned"}, result \in Outcomes : Settle(r, last, result)
  BY Endings
<1>2. /\ phase' = [phase EXCEPT ![r] = last] /\ reply' = [reply EXCEPT ![r] = NoReply]
      /\ UNCHANGED <<rakazo, call>>
      /\ \A s \in Requests \ {r} : phase'[s] = phase[s] /\ call'[s] = call[s] /\ reply'[s] = reply[s]
  BY <1>1 DEF Settle, LockInv, TypeInv, TypeOK
<1>3. phase'[r] # "replying"
  BY <1>2 DEF LockInv, TypeInv, TypeOK
<1>4. \/ UNCHANGED computers
      \/ /\ CreateReturns(r) /\ reply[r].code = "ok"
         /\ computers' = [computers EXCEPT ![reply[r].id] = r]
  BY DEF Returns, CreateReturns, StatusReturns, CommandReturns, StopReturns, DestroyReturns,
         TimesOut, records
<1>5. CASE \E b \in Bots : r \in Provisioned(b)
  BY <1>2, <1>3, <1>4, <1>5, ViewAnswered
<1>6. CASE \A b \in Bots : r \notin Provisioned(b)
  <2>1. UNCHANGED computers
    <3>1. CreateReturns(r) /\ reply[r].code = "ok" => r \in Provisioned(call[r].key)
      BY DEF CreateReturns, Replied, Provisioned
    <3>2. CreateReturns(r) => call[r].key \in Bots
      BY DEF CreateReturns, Replied, LockInv, TypeInv, CallOK
    <3> QED
      BY <1>4, <1>6, <3>1, <3>2
  <2>2. \A b \in Bots : r \notin Provisioned(b)'
    BY <1>3 DEF Provisioned
  <2> QED
    BY <1>2, <1>6, <2>1, <2>2, ViewStutters
<1> QED
  BY <1>5, <1>6

LEMMA ViewRakazoActs ==
  ASSUME LockInv, LockInv', OwnerInv, OwnerInv', NEW r \in Requests,
         RakazoActs(r) \/ AbandonedCallDropped(r)
  PROVE  [View!BridgeNext]_View!viewVars
<1>0. /\ machine \in [Computers -> Machines] /\ phase \in [Requests -> Phases]
      /\ reply \in [Requests -> [code: Codes \cup {None}, id: Computers \cup {None}]]
  BY DEF LockInv, TypeInv, TypeOK
<1>1. CASE RakazoProvisions(r)
  BY <1>1, ViewProvisions
<1>2. CASE ~RakazoProvisions(r)
  <2>1. /\ UNCHANGED <<computers, call>>
        /\ \A s \in Requests \ {r} : phase'[s] = phase[s] /\ call'[s] = call[s] /\ reply'[s] = reply[s]
        /\ phase[r] # "replying"
    <3>1. CASE AbandonedCallDropped(r)
      BY <1>0, <3>1 DEF AbandonedCallDropped, records
    <3>2. CASE RakazoActs(r)
      <4>1. (\E code, id : Landed(r, code, id)) /\ phase[r] \in {"calling", "abandoned"}
        BY <3>2 DEF RakazoActs, RakazoProvisions, RakazoExecutes, RakazoStops, RakazoDestroys,
                    RakazoFails, Out
      <4> QED
        BY <1>0, <4>1 DEF Landed, records
    <3> QED
      BY <3>1, <3>2
  <2>2. \A b \in Bots : r \notin Provisioned(b) /\ r \notin Provisioned(b)'
    <3>1. call[r].op = "create" => phase'[r] # "replying" \/ reply'[r].code = "error"
      <4>1. CASE AbandonedCallDropped(r)
        BY <1>0, <4>1 DEF AbandonedCallDropped
      <4>2. CASE RakazoFails(r)
        BY <1>0, <4>2 DEF RakazoFails, Landed
      <4> QED
        BY <1>2, <4>1, <4>2 DEF RakazoActs, RakazoExecutes, RakazoStops, RakazoDestroys, Out
    <3> QED
      BY <2>1, <3>1 DEF Provisioned
  <2>3. CASE UNCHANGED rakazo
    BY <2>1, <2>2, <2>3, ViewStutters
  <2>4. CASE RakazoStops(r) \/ RakazoDestroys(r)
    <3>1. call[r].key \in Computers /\ owner' = owner
      BY <2>4 DEF RakazoStops, RakazoDestroys, Out, LockInv, TypeInv, CallOK
    <3>2. CASE \E m \in {"running", "stopped"} :
                 machine[call[r].key] = m /\ machine' = [machine EXCEPT ![call[r].key] = "stopped"]
      <4>1. \A b \in Bots : Live(b)' = Live(b)
        BY <1>0, <3>1, <3>2 DEF Live
      <4> QED
        BY <2>1, <2>2, <4>1, ContainersStay, ViewBystands, ViewVars
    <3>3. CASE machine' = [machine EXCEPT ![call[r].key] = "gone"]
      BY <2>1, <2>2, <3>1, <3>3, ViewDeletes, ViewBystands
    <3> QED
      BY <2>3, <2>4, <3>1, <3>2, <3>3 DEF RakazoStops, RakazoDestroys, rakazo
  <2> QED
    BY <1>2, <2>3, <2>4 DEF RakazoActs, RakazoExecutes, RakazoFails, AbandonedCallDropped
<1> QED
  BY <1>1, <1>2

LEMMA ViewRestarts ==
  ASSUME LockInv, BridgeRestarts
  PROVE  View!BridgeNext
<1>1. ASSUME NEW b \in Bots PROVE CreatingOf(b)' = [id |-> None, capability |-> None]
  <2>1. \A r \in Requests : phase'[r] # "replying"
    BY DEF BridgeRestarts, LockInv, TypeInv, TypeOK, Phases
  <2>2. Provisioned(b)' = {}
    BY <2>1 DEF Provisioned
  <2> QED
    BY <2>2 DEF CreatingOf
<1>2. CreatingMap' = [b \in Bots |-> [id |-> None, capability |-> None]]
  BY <1>1 DEF CreatingMap
<1>3. ContainerMap' = ContainerMap
  BY ContainersStay DEF BridgeRestarts, Live, rakazo
<1>4. View!Forget
  BY <1>2, <1>3 DEF BridgeRestarts, View!Forget, View!NoCreate, ContainerMap, CreatingMap,
                    ContainerOf, CreatingOf
<1> QED
  BY <1>4 DEF View!BridgeNext

LEMMA ViewStep ==
  LockInv /\ LockInv' /\ OwnerInv /\ OwnerInv' /\ [Next]_vars
    => [View!BridgeNext]_View!viewVars
<1> SUFFICES ASSUME LockInv, LockInv', OwnerInv, OwnerInv', [Next]_vars
             PROVE  [View!BridgeNext]_View!viewVars
  OBVIOUS
<1>0. machine \in [Computers -> Machines] /\ phase \in [Requests -> Phases]
  BY DEF LockInv, TypeInv, TypeOK
<1>1. ASSUME NEW r \in Requests, Arrives(r) PROVE UNCHANGED View!viewVars
  <2>1. /\ phase[r] = "idle" /\ phase'[r] \in {"queued", "answered"}
        /\ UNCHANGED <<rakazo, computers, reply>>
    BY <1>0, <1>1, ArrivesLeaves DEF records
  <2>2. \A b \in Bots : r \notin Provisioned(b) /\ r \notin Provisioned(b)'
    BY <2>1 DEF Provisioned
  <2> QED
    BY <1>1, <2>1, <2>2, Bystanders, ViewStutters
<1>2. ASSUME NEW r \in Requests, Begins(r) PROVE UNCHANGED View!viewVars
  <2>1. HasTurn(r) /\ (CallRakazo(r) \/ AnswerAlready(r))
    BY <1>2 DEF Begins, BeginCall, BeginStop, BeginDestroy
  <2>2. /\ phase[r] = "queued" /\ phase'[r] \in {"calling", "answered"}
        /\ UNCHANGED <<rakazo, computers>>
        /\ \A s \in Requests \ {r} : reply'[s] = reply[s]
    BY <1>0, <2>1 DEF HasTurn, CallRakazo, AnswerAlready, Settle, rakazo, records, LockInv, TypeInv, TypeOK
  <2>3. \A b \in Bots : r \notin Provisioned(b) /\ r \notin Provisioned(b)'
    BY <2>2 DEF Provisioned
  <2> QED
    BY <1>2, <2>2, <2>3, Bystanders, ViewStutters
<1>3. ASSUME UNCHANGED <<computers, phase, call, reply>> PROVE CreatingMap' = CreatingMap
  <2>1. \A b \in Bots : CreatingOf(b)' = CreatingOf(b)
    BY <1>3, CreatingStays DEF Provisioned
  <2> QED
    BY <2>1 DEF CreatingMap
<1>4. ASSUME NEW id \in Computers, MachineSuspended(id) PROVE UNCHANGED View!viewVars
  <2>1. \A b \in Bots : Live(b)' = Live(b)
    BY <1>0, <1>4 DEF MachineSuspended, Live
  <2> QED
    BY <1>3, <1>4, <2>1, ContainersStay, ViewVars DEF MachineSuspended, records
<1>5. ASSUME NEW id \in Computers, MachineReclaimed(id) PROVE View!BridgeNext
  BY <1>3, <1>5, ViewDeletes DEF MachineReclaimed, records
<1>6. UNCHANGED vars => UNCHANGED View!viewVars
  BY <1>3, ContainersStay, ViewVars DEF vars, Live
<1> QED
  BY <1>1, <1>2, <1>4, <1>5, <1>6, ViewRakazoActs, ViewReturns, ViewRestarts DEF Next

\* To the harness the bridge and Rakazo are one thing: a bot has one live
\* container at most, every create gives out a new capability, the last one
\* issued opens, and a restart forgets them all.
THEOREM BridgeViewImplemented == Spec => ImplementsBridgeView
<1>1. Init => View!BridgeInit
  <2> SUFFICES ASSUME Init PROVE View!BridgeInit
    OBVIOUS
  <2>1. \A b \in Bots : ContainerOf(b) = None /\ CreatingOf(b) = [id |-> None, capability |-> None]
    BY DEF Init, ContainerOf, CreatingOf, Live, Provisioned
  <2> QED
    BY <2>1 DEF Init, View!BridgeInit, View!NoCreate, ContainerOf, CreatingOf
<1> QED
  BY <1>1, ViewStep, LockInvariant, OwnerInvariant, PTL
  DEF Spec, ImplementsBridgeView, View!BridgeSpec

\* A live computer with a record is never missing from the list, although the
\* list is made of the records' states alone.
THEOREM ListCorrect == Spec => []ListShowsEveryLiveComputer
<1>1. LockInv /\ RecordInv /\ OwnerInv => ListShowsEveryLiveComputer
  <2> SUFFICES ASSUME LockInv, RecordInv, OwnerInv, NEW id \in Computers,
                      View!Alive(id), computers[id] # None
               PROVE  id \in Listed
    BY DEF ListShowsEveryLiveComputer, View!Listed
  <2>1. PICK b \in Bots : ContainerOf(b) = id
    BY DEF View!Alive, ContainerOf
  <2>2. Live(b) = {id}
    BY <2>1, ContainerIs
  <2>3. machine[id] # "gone"
    BY <2>2 DEF Live
  <2>4. computers[id] \in Requests /\ entry[computers[id]].id = id
    BY DEF LockInv, TypeInv, TypeOK, RecordInv, RecordOK
  <2>5. entry[computers[id]].state \notin Terminal
    BY <2>3, <2>4 DEF RecordInv, TerminalMeansGone
  <2> QED
    BY <2>5 DEF Listed
<1> QED
  BY <1>1, LockInvariant, RecordInvariant, OwnerInvariant, PTL
=============================================================================
