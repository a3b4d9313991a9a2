----------------------- MODULE ComputerControlProofs -----------------------
(***************************************************************************)
(* Theorems about ComputerControl, for every set of bots, containers and   *)
(* requests.                                                               *)
(***************************************************************************)
EXTENDS ComputerControl, TLAPS

USE KeysAreDisjoint, NoneIsNoValue

-----------------------------------------------------------------------------
(* Types.                                                                   *)

\* A request in the chain has a complete call.
CallOK ==
  \A r \in Requests :
    /\ phase[r] = "idle" => call[r] = NoCall
    /\ phase[r] \in Pending \cup {"abandoned"} => call[r].op # None
    /\ call[r].op = "create" => call[r].key \in Bots
    /\ call[r].op \in {"status", "command", "stop", "destroy"} =>
         call[r].key \in Computers /\ call[r].entry \in Requests
    /\ phase[r] = "replying" =>
         /\ reply[r].code \in Codes
         /\ call[r].op = "create" /\ reply[r].code = "ok" => reply[r].id \in Computers

TypeInv == TypeOK /\ CallOK

LEMMA TypeInit == Init => TypeInv
BY DEF Init, TypeInv, TypeOK, CallOK, Entries, NoEntry, NoCall, NoReply, Keys, Machines, States,
       Terminal, Phases, Pending, Operations

LEMMA CallShape ==
  ASSUME TypeInv, NEW r \in Requests, phase[r] \in Pending \cup {"abandoned"}
  PROVE  /\ call[r].key \in Keys
         /\ \/ call[r].op = "create" /\ call[r].key \in Bots
            \/ /\ call[r].op \in {"status", "command", "stop", "destroy"}
               /\ call[r].key \in Computers
               /\ call[r].entry \in Requests
<1>1. call[r].op \in Operations
  BY DEF TypeInv, TypeOK, CallOK
<1> QED
  BY <1>1 DEF TypeInv, CallOK, Operations, Keys

\* A request that queues, whatever its operation.
LEMMA TypeEnqueue ==
  ASSUME TypeInv, NEW r \in Requests, phase[r] = "idle",
         NEW op, NEW key, NEW e, NEW u \in Requests \cup {None}, Enqueue(r, op, key, e, u),
         \/ op = "create" /\ key \in Bots /\ e = None
         \/ op \in {"status", "command", "stop", "destroy"} /\ key \in Computers /\ e \in Requests
  PROVE  TypeInv'
<1> key \in Keys /\ Keys = Bots \cup Computers
  BY DEF Keys
<1> USE DEF TypeInv, Enqueue, rakazo, records
<1>1. TypeOK'
  <2>1. locks' \in [Keys -> Seq(Requests)]
    BY DEF TypeOK
  <2>2. phase' \in [Requests -> Phases]
    BY DEF TypeOK, Phases
  <2>3. call' \in [Requests -> [op: Operations \cup {None}, key: Keys \cup {None},
                                entry: Requests \cup {None}, under: Requests \cup {None}]]
    BY DEF TypeOK, Operations
  <2> QED
    BY <2>1, <2>2, <2>3 DEF TypeOK
<1>2. CallOK'
  BY DEF TypeOK, CallOK, Pending, NoCall, Operations
<1> QED
  BY <1>1, <1>2

\* An arrival is queued or refused; it touches nothing else.
LEMMA ArrivesLeaves ==
  ASSUME NEW r \in Requests, Arrives(r)
  PROVE  /\ phase[r] = "idle"
         /\ \E last \in {"queued", "answered"} : phase' = [phase EXCEPT ![r] = last]
         /\ UNCHANGED <<rakazo, records, reply>>
<1> DEFINE Leaves == /\ phase[r] = "idle"
                     /\ \E last \in {"queued", "answered"} : phase' = [phase EXCEPT ![r] = last]
                     /\ UNCHANGED <<rakazo, records, reply>>
<1>1. ASSUME NEW b \in Bots, Create(r, b) PROVE Leaves
  BY <1>1 DEF Create, Enqueue
<1>2. ASSUME NEW op, NEW id, NEW c, NEW t, NEW a, Admit(r, op, id, c, t, a) PROVE Leaves
  <2> HIDE DEF Leaves
  <2>1. CASE Refusal(id, c, t, a) = None
    BY <1>2, <2>1 DEF Admit, Enqueue, Leaves
  <2>2. CASE Refusal(id, c, t, a) # None
    BY <1>2, <2>2 DEF Admit, Leaves
  <2> QED
    BY <2>1, <2>2
<1> HIDE DEF Leaves
<1>3. Leaves
  BY <1>1, <1>2 DEF Arrives, Status, Command, Stop, Destroy
<1> QED
  BY <1>3 DEF Leaves

LEMMA TypeArrives ==
  ASSUME TypeInv, NEW r \in Requests, Arrives(r)
  PROVE  TypeInv'
<1>1. ASSUME NEW b \in Bots, Create(r, b) PROVE TypeInv'
  BY <1>1, TypeEnqueue DEF Create
<1>2. ASSUME NEW id \in Computers, NEW op \in {"status", "command", "stop", "destroy"},
             NEW c \in Capabilities \cup {None}, NEW t, NEW a, Admit(r, op, id, c, t, a)
      PROVE  TypeInv'
  <2>1. CASE Refusal(id, c, t, a) = None
    <3>1. computers[id] \in Requests
      BY <2>1 DEF Refusal, TypeInv, TypeOK, Outcomes
    <3>2. (IF a THEN None ELSE c) \in Requests \cup {None}
      BY <1>2 DEF Capabilities
    <3> QED
      BY <1>2, <2>1, <3>1, <3>2, TypeEnqueue DEF Admit
  <2>2. CASE Refusal(id, c, t, a) # None
    <3>1. Refusal(id, c, t, a) \in {"notfound", "forbidden"}
      BY <2>2 DEF Refusal
    <3>2. /\ phase' = [phase EXCEPT ![r] = "answered"]
          /\ outcome' = [outcome EXCEPT ![r] = Refusal(id, c, t, a)]
          /\ UNCHANGED <<machine, owner, computers, entry, locks, call, reply>>
      BY <1>2, <2>2 DEF Admit, rakazo, records
    <3>3. TypeOK'
      BY <3>1, <3>2 DEF TypeInv, TypeOK, Phases, Outcomes
    <3>4. CallOK'
      BY <3>2 DEF TypeInv, TypeOK, CallOK, Pending
    <3> QED
      BY <3>3, <3>4 DEF TypeInv
  <2> QED
    BY <2>1, <2>2
<1> QED
  BY <1>1, <1>2 DEF Arrives, Status, Command, Stop, Destroy

\* A request whose work ends, however it ends.
LEMMA TypeSettle ==
  ASSUME TypeInv, NEW r \in Requests, phase[r] \in Pending,
         locks[call[r].key] # <<>>,
         NEW last \in {"answered", "abandoned"}, NEW result \in Outcomes,
         Settle(r, last, result),
         computers' \in [Computers -> Requests \cup {None}],
         entry' \in [Requests -> Entries]
  PROVE  TypeInv'
<1>1. call[r].key \in Keys
  BY CallShape
<1>2. Tail(locks[call[r].key]) \in Seq(Requests)
  BY <1>1 DEF TypeInv, TypeOK
<1>3. locks' \in [Keys -> Seq(Requests)]
  BY <1>1, <1>2 DEF Settle, TypeInv, TypeOK
<1>4. TypeOK'
  <2>1. NoReply \in [code: Codes \cup {None}, id: Computers \cup {None}]
    BY DEF NoReply
  <2>2. reply' \in [Requests -> [code: Codes \cup {None}, id: Computers \cup {None}]]
    BY <2>1 DEF Settle, TypeInv, TypeOK
  <2>3. outcome' \in [Requests -> Outcomes \cup {None}]
    BY DEF Settle, TypeInv, TypeOK
  <2>4. phase' \in [Requests -> Phases]
    BY DEF Settle, TypeInv, TypeOK, Phases
  <2> QED
    BY <1>3, <2>2, <2>3, <2>4 DEF Settle, rakazo, TypeInv, TypeOK
<1>5. CallOK'
  BY DEF Settle, TypeInv, TypeOK, CallOK, Pending
<1> QED
  BY <1>4, <1>5 DEF TypeInv

LEMMA TypeCallRakazo ==
  ASSUME TypeInv, NEW r \in Requests, phase[r] = "queued", CallRakazo(r)
  PROVE  TypeInv'
<1>1. TypeOK'
  BY DEF CallRakazo, rakazo, records, TypeInv, TypeOK, Phases
<1>2. CallOK'
  BY DEF CallRakazo, rakazo, records, TypeInv, TypeOK, CallOK, Pending
<1> QED
  BY <1>1, <1>2 DEF TypeInv

\* Rakazo answers a call that is out.
LEMMA TypeLanded ==
  ASSUME TypeInv, NEW r \in Requests, phase[r] \in {"calling", "abandoned"},
         NEW code \in Codes, NEW id \in Computers \cup {None}, Landed(r, code, id),
         call[r].op = "create" /\ code = "ok" => id \in Computers,
         machine' \in [Computers -> Machines],
         owner' \in [Computers -> Bots \cup {None}]
  PROVE  TypeInv'
<1>1. TypeOK'
  <2>1. [code |-> code, id |-> id] \in [code: Codes \cup {None}, id: Computers \cup {None}]
    OBVIOUS
  <2>2. reply' \in [Requests -> [code: Codes \cup {None}, id: Computers \cup {None}]]
    BY <2>1 DEF Landed, TypeInv, TypeOK
  <2>3. phase' \in [Requests -> Phases]
    <3>1. phase \in [Requests -> Phases] /\ "replying" \in Phases /\ "answered" \in Phases
      BY DEF TypeInv, TypeOK, Phases
    <3> QED
      BY <3>1 DEF Landed
  <2> QED
    BY <2>2, <2>3 DEF Landed, records, TypeInv, TypeOK
<1>2. CallOK'
  <2>1. CASE phase[r] = "calling"
    BY <2>1 DEF Landed, records, TypeInv, TypeOK, CallOK, Pending
  <2>2. CASE phase[r] # "calling"
    BY <2>2 DEF Landed, records, TypeInv, TypeOK, CallOK, Pending
  <2> QED
    BY <2>1, <2>2
<1> QED
  BY <1>1, <1>2 DEF TypeInv

LEMMA TypeRestart ==
  ASSUME TypeInv, BridgeRestarts
  PROVE  TypeInv'
<1>1. TypeOK'
  <2>1. /\ \A r \in Requests : NoEntry \in Entries
        /\ NoReply \in [code: Codes \cup {None}, id: Computers \cup {None}]
    BY DEF NoEntry, NoReply, Entries
  <2>2. phase' \in [Requests -> Phases]
    BY DEF BridgeRestarts, TypeInv, TypeOK, Phases
  <2>3. outcome' \in [Requests -> Outcomes \cup {None}]
    BY DEF BridgeRestarts, TypeInv, TypeOK, Outcomes
  <2>4. /\ entry' \in [Requests -> Entries]
        /\ reply' \in [Requests -> [code: Codes \cup {None}, id: Computers \cup {None}]]
        /\ computers' \in [Computers -> Requests \cup {None}]
        /\ locks' \in [Keys -> Seq(Requests)]
    BY <2>1 DEF BridgeRestarts
  <2> QED
    BY <2>2, <2>3, <2>4 DEF BridgeRestarts, rakazo, TypeInv, TypeOK
<1>2. CallOK'
  BY DEF BridgeRestarts, TypeInv, TypeOK, CallOK, Pending, Phases
<1> QED
  BY <1>1, <1>2 DEF TypeInv

-----------------------------------------------------------------------------
(* The lock.                                                                *)

\* The chain of a key holds exactly the pending requests of that key, once
\* each, and only its head has begun.
ChainOK ==
  /\ \A k \in Keys : \A i \in 1..Len(locks[k]) :
       /\ phase[locks[k][i]] \in Pending
       /\ call[locks[k][i]].key = k
       /\ phase[locks[k][i]] \in Holding => i = 1
  /\ \A k \in Keys : \A i, j \in 1..Len(locks[k]) : locks[k][i] = locks[k][j] => i = j
  /\ \A r \in Requests : phase[r] \in Pending =>
       \E i \in 1..Len(locks[call[r].key]) : locks[call[r].key][i] = r

LEMMA ChainInit == Init => ChainOK
BY DEF Init, ChainOK, Pending

\* A request that has begun, or whose turn it is, is the head of its chain.
LEMMA AtTheHead ==
  ASSUME TypeInv, ChainOK, NEW r \in Requests, phase[r] \in Holding \/ HasTurn(r)
  PROVE  /\ call[r].key \in Keys
         /\ locks[call[r].key] # <<>>
         /\ locks[call[r].key][1] = r
<1>1. phase[r] \in Pending /\ call[r].key \in Keys
  BY CallShape DEF HasTurn, Pending, Holding
<1>2. PICK i \in 1..Len(locks[call[r].key]) : locks[call[r].key][i] = r
  BY <1>1 DEF ChainOK
<1>3. locks[call[r].key] \in Seq(Requests)
  BY <1>1 DEF TypeInv, TypeOK
<1>4. locks[call[r].key] # <<>>
  BY <1>2, <1>3
<1>5. CASE phase[r] \in Holding
  BY <1>1, <1>2, <1>4, <1>5 DEF ChainOK
<1>6. CASE HasTurn(r)
  BY <1>1, <1>3, <1>4, <1>6 DEF HasTurn
<1> QED
  BY <1>1, <1>4, <1>5, <1>6

LEMMA ChainEnqueue ==
  ASSUME TypeInv, ChainOK, NEW r \in Requests, phase[r] = "idle",
         NEW op, NEW key \in Keys, NEW e, NEW u, Enqueue(r, op, key, e, u)
  PROVE  ChainOK'
<1> DEFINE q == locks[key]
<1>1. q \in Seq(Requests) /\ Len(q) \in Nat
  BY DEF TypeInv, TypeOK
<1>2. /\ locks'[key] = Append(q, r)
      /\ \A k \in Keys : k # key => locks'[k] = locks[k]
      /\ phase'[r] = "queued" /\ call'[r].key = key
      /\ \A s \in Requests : s # r => phase'[s] = phase[s] /\ call'[s] = call[s]
  <2>1. phase \in [Requests -> Phases] /\ DOMAIN locks = Keys /\ DOMAIN call = Requests
    BY DEF TypeInv, TypeOK
  <2>2. /\ phase' = [phase EXCEPT ![r] = "queued"]
        /\ locks' = [locks EXCEPT ![key] = Append(@, r)]
        /\ call' = [call EXCEPT ![r] = [op |-> op, key |-> key, entry |-> e, under |-> u]]
    BY DEF Enqueue
  <2>3. locks'[key] = Append(q, r) /\ \A k \in Keys : k # key => locks'[k] = locks[k]
    BY <2>1, <2>2
  <2>4. phase'[r] = "queued" /\ \A s \in Requests : s # r => phase'[s] = phase[s]
    BY <2>1, <2>2
  <2>5. call'[r].key = key /\ \A s \in Requests : s # r => call'[s] = call[s]
    BY <2>1, <2>2
  <2> QED
    BY <2>3, <2>4, <2>5
<1>3. \A k \in Keys : \A i \in 1..Len(locks[k]) : locks[k][i] \in Requests /\ locks[k][i] # r
  <2>1. phase[r] \notin Pending
    BY DEF Pending
  <2>2. \A k \in Keys : locks[k] \in Seq(Requests)
    BY DEF TypeInv, TypeOK
  <2> QED
    BY <2>1, <2>2 DEF ChainOK
<1>4. /\ Len(Append(q, r)) = Len(q) + 1
      /\ \A i \in 1..Len(q) : Append(q, r)[i] = q[i]
      /\ Append(q, r)[Len(q) + 1] = r
  BY <1>1
<1>5. ASSUME NEW k \in Keys, NEW i \in 1..Len(locks'[k])
      PROVE  /\ phase'[locks'[k][i]] \in Pending
             /\ call'[locks'[k][i]].key = k
             /\ phase'[locks'[k][i]] \in Holding => i = 1
  <2>1. CASE k = key /\ i = Len(q) + 1
    BY <1>2, <1>4, <2>1 DEF Pending, Holding
  <2>2. CASE ~(k = key /\ i = Len(q) + 1)
    <3>1. i \in 1..Len(locks[k]) /\ locks'[k][i] = locks[k][i]
      <4>1. CASE k = key
        <5>1. locks'[k] = Append(q, r) /\ i \in 1..Len(q) + 1 /\ i # Len(q) + 1
          BY <1>2, <1>4, <1>5, <2>2, <4>1
        <5>2. i \in 1..Len(q)
          BY <1>1, <5>1
        <5> QED
          BY <1>4, <4>1, <5>1, <5>2
      <4>2. CASE k # key
        BY <1>2, <1>5, <4>2
      <4> QED
        BY <4>1, <4>2
    <3>2. locks[k][i] \in Requests /\ locks[k][i] # r
      BY <1>3, <3>1
    <3> QED
      BY <1>2, <3>1, <3>2 DEF ChainOK
  <2> QED
    BY <2>1, <2>2
<1>6. ASSUME NEW k \in Keys, NEW i \in 1..Len(locks'[k]), NEW j \in 1..Len(locks'[k]),
             locks'[k][i] = locks'[k][j]
      PROVE  i = j
  <2>1. CASE k = key
    <3>1. \A m, n \in 1..Len(q) : q[m] = q[n] => m = n
      BY DEF ChainOK
    <3>2. \A m \in 1..Len(q) : q[m] # r
      BY <1>3
    <3>3. i \in 1..Len(q) + 1 /\ j \in 1..Len(q) + 1 /\ Append(q, r)[i] = Append(q, r)[j]
      BY <1>2, <1>4, <1>6, <2>1
    <3> HIDE DEF q
    <3> QED
      BY <1>1, <1>4, <3>1, <3>2, <3>3
  <2>2. CASE k # key
    BY <1>2, <1>6, <2>2 DEF ChainOK
  <2> QED
    BY <2>1, <2>2
<1>7. ASSUME NEW s \in Requests, phase'[s] \in Pending
      PROVE  \E i \in 1..Len(locks'[call'[s].key]) : locks'[call'[s].key][i] = s
  <2>1. CASE s = r
    BY <1>1, <1>2, <1>4, <2>1
  <2>2. CASE s # r
    <3>1. phase[s] \in Pending /\ call'[s] = call[s] /\ call[s].key \in Keys
      BY <1>2, <1>7, <2>2, CallShape
    <3>2. PICK i \in 1..Len(locks[call[s].key]) : locks[call[s].key][i] = s
      BY <3>1 DEF ChainOK
    <3>3. CASE call[s].key = key
      <4>1. locks'[call'[s].key] = Append(q, r) /\ q[i] = s /\ i \in 1..Len(q)
        BY <1>2, <3>1, <3>2, <3>3
      <4>2. i \in 1..Len(Append(q, r)) /\ Append(q, r)[i] = s
        BY <1>1, <1>4, <4>1
      <4> QED
        BY <4>1, <4>2
    <3>4. CASE call[s].key # key
      BY <1>2, <3>1, <3>2, <3>4
    <3> QED
      BY <3>3, <3>4
  <2> QED
    BY <2>1, <2>2
<1> QED
  BY <1>5, <1>6, <1>7 DEF ChainOK

\* The head of a chain settles: it leaves the chain, and the next one is head.
LEMMA ChainSettle ==
  ASSUME TypeInv, ChainOK, NEW r \in Requests, phase[r] \in Holding \/ HasTurn(r),
         NEW last \in {"answered", "abandoned"}, NEW result, Settle(r, last, result)
  PROVE  ChainOK'
<1> DEFINE key == call[r].key
           q == locks[key]
<1>1. key \in Keys /\ q # <<>> /\ q[1] = r /\ q \in Seq(Requests)
  BY AtTheHead DEF TypeInv, TypeOK
<1>2. /\ Len(q) \in Nat /\ Len(q) >= 1
      /\ Len(Tail(q)) = Len(q) - 1
      /\ \A i \in 1..Len(Tail(q)) : Tail(q)[i] = q[i + 1] /\ i + 1 \in 1..Len(q)
  BY <1>1
<1>3. /\ locks'[key] = Tail(q)
      /\ \A k \in Keys : k # key => locks'[k] = locks[k]
      /\ phase'[r] = last
      /\ \A s \in Requests : s # r => phase'[s] = phase[s]
      /\ call' = call
  BY <1>1 DEF Settle, TypeInv, TypeOK
<1>4. \A k \in Keys : \A i \in 1..Len(locks[k]) :
        /\ locks[k][i] \in Requests
        /\ locks[k][i] = r => k = key /\ i = 1
  <2>1. ASSUME NEW k \in Keys, NEW i \in 1..Len(locks[k])
        PROVE  /\ locks[k][i] \in Requests
               /\ locks[k][i] = r => k = key /\ i = 1
    <3>1. locks[k][i] \in Requests
      BY DEF TypeInv, TypeOK
    <3>2. locks[k][i] = r => k = key
      BY DEF ChainOK
    <3>3. locks[k][i] = r => i = 1
      BY <1>1, <1>2, <3>2 DEF ChainOK
    <3> QED
      BY <3>1, <3>2, <3>3
  <2> QED
    BY <2>1
<1> HIDE DEF q, key
<1>5. ASSUME NEW k \in Keys, NEW i \in 1..Len(locks'[k])
      PROVE  /\ phase'[locks'[k][i]] \in Pending
             /\ call'[locks'[k][i]].key = k
             /\ phase'[locks'[k][i]] \in Holding => i = 1
  <2>1. PICK j \in 1..Len(locks[k]) : /\ locks'[k][i] = locks[k][j]
                                      /\ locks[k][j] # r
                                      /\ k # key => j = i
                                      /\ k = key => j # 1
    <3>1. CASE k = key
      <4>1. i + 1 \in 1..Len(locks[k]) /\ locks'[k][i] = locks[k][i + 1] /\ i + 1 # 1
        <5>1. locks[k] = q /\ locks'[k] = Tail(q) /\ i \in 1..Len(Tail(q))
          BY <1>3, <1>5, <3>1 DEF q
        <5> QED
          BY <1>2, <5>1
      <4>2. locks[k][i + 1] = r => i + 1 = 1
        BY <1>4, <4>1
      <4> QED
        BY <3>1, <4>1, <4>2
    <3>2. CASE k # key
      BY <1>3, <1>4, <1>5, <3>2
    <3> QED
      BY <3>1, <3>2
  <2>2. /\ phase'[locks[k][j]] = phase[locks[k][j]]
        /\ phase[locks[k][j]] \in Pending
        /\ call[locks[k][j]].key = k
        /\ phase[locks[k][j]] \in Holding => j = 1
    BY <1>3, <1>4, <2>1 DEF ChainOK
  <2> QED
    BY <1>3, <2>1, <2>2
<1>6. ASSUME NEW k \in Keys, NEW i \in 1..Len(locks'[k]), NEW j \in 1..Len(locks'[k]),
             locks'[k][i] = locks'[k][j]
      PROVE  i = j
  <2>1. CASE k = key
    <3>1. q[i + 1] = q[j + 1] /\ i + 1 \in 1..Len(q) /\ j + 1 \in 1..Len(q)
      BY <1>2, <1>3, <1>6, <2>1
    <3>2. i + 1 = j + 1
      BY <1>1, <3>1 DEF ChainOK, q
    <3> QED
      BY <3>2, <1>2, <1>3, <1>6, <2>1
  <2>2. CASE k # key
    BY <1>3, <1>6, <2>2 DEF ChainOK
  <2> QED
    BY <2>1, <2>2
<1>7. ASSUME NEW s \in Requests, phase'[s] \in Pending
      PROVE  \E i \in 1..Len(locks'[call'[s].key]) : locks'[call'[s].key][i] = s
  <2>1. s # r /\ phase[s] \in Pending /\ call'[s] = call[s] /\ call[s].key \in Keys
    BY <1>3, <1>7, CallShape DEF Pending
  <2>2. PICK j \in 1..Len(locks[call[s].key]) : locks[call[s].key][j] = s
    BY <2>1 DEF ChainOK
  <2>3. CASE call[s].key = key
    <3>1. j # 1
      BY <1>1, <2>1, <2>2, <2>3 DEF q
    <3>2. j - 1 \in 1..Len(Tail(q)) /\ Tail(q)[j - 1] = q[(j - 1) + 1]
      BY <1>2, <2>2, <2>3, <3>1 DEF q
    <3>3. Tail(q)[j - 1] = s
      BY <3>2, <2>2, <2>3, <1>2 DEF q
    <3> QED
      BY <1>3, <2>1, <2>3, <3>2, <3>3
  <2>4. CASE call[s].key # key
    BY <1>3, <2>1, <2>2, <2>4
  <2> QED
    BY <2>3, <2>4
<1> QED
  BY <1>5, <1>6, <1>7 DEF ChainOK

\* The head of a chain goes from queued to calling to replying; any request
\* outside the chains may move among the other phases.
LEMMA ChainMove ==
  ASSUME TypeInv, ChainOK, NEW r \in Requests, NEW p \in Phases,
         phase' = [phase EXCEPT ![r] = p], UNCHANGED <<locks, call>>,
         \/ (phase[r] \in Holding \/ HasTurn(r)) /\ p \in Holding
         \/ phase[r] \notin Pending /\ p \notin Pending
  PROVE  ChainOK'
<1>1. /\ phase'[r] = p
      /\ \A s \in Requests : s # r => phase'[s] = phase[s]
      /\ \A k \in Keys : \A i \in 1..Len(locks[k]) : locks[k][i] \in Requests
  BY DEF TypeInv, TypeOK
<1>2. CASE phase[r] \notin Pending /\ p \notin Pending
  <2>1. \A k \in Keys : \A i \in 1..Len(locks[k]) : locks[k][i] # r
    BY <1>2 DEF ChainOK
  <2> QED
    BY <1>1, <1>2, <2>1 DEF ChainOK
<1>3. CASE (phase[r] \in Holding \/ HasTurn(r)) /\ p \in Holding
  <2>1. phase[r] \in Pending /\ p \in Pending
    BY <1>3 DEF HasTurn, Pending, Holding
  <2>2. /\ call[r].key \in Keys /\ Len(locks[call[r].key]) \in Nat
        /\ Len(locks[call[r].key]) >= 1 /\ locks[call[r].key][1] = r
    BY <1>3, AtTheHead DEF TypeInv, TypeOK
  <2>3. \A k \in Keys : \A i \in 1..Len(locks[k]) : locks[k][i] = r => i = 1
    BY <2>2 DEF ChainOK
  <2> QED
    BY <1>1, <2>1, <2>3 DEF ChainOK
<1> QED
  BY <1>2, <1>3

-----------------------------------------------------------------------------
(* Every step keeps the types and the chains.                               *)

LockInv == TypeInv /\ ChainOK

LEMMA LockArrives ==
  ASSUME LockInv, NEW r \in Requests, Arrives(r)
  PROVE  LockInv'
<1>1. ASSUME NEW b \in Bots, Create(r, b) PROVE ChainOK'
  BY <1>1, ChainEnqueue DEF Create, LockInv, Keys
<1>2. ASSUME NEW id \in Computers, NEW op \in {"status", "command", "stop", "destroy"},
             NEW c, NEW t, NEW a, Admit(r, op, id, c, t, a)
      PROVE  ChainOK'
  <2>1. CASE Refusal(id, c, t, a) = None
    BY <1>2, <2>1, ChainEnqueue DEF Admit, LockInv, Keys
  <2>2. CASE Refusal(id, c, t, a) # None
    BY <1>2, <2>2, ChainMove DEF Admit, LockInv, Phases, Pending
  <2> QED
    BY <2>1, <2>2
<1>3. ChainOK'
  BY <1>1, <1>2 DEF Arrives, Status, Command, Stop, Destroy
<1> QED
  BY <1>3, TypeArrives DEF LockInv

\* What Settle needs: the request is the head of its chain.
LEMMA LockSettle ==
  ASSUME LockInv, NEW r \in Requests, phase[r] \in Holding \/ HasTurn(r),
         NEW last \in {"answered", "abandoned"}, NEW result \in Outcomes,
         Settle(r, last, result),
         computers' \in [Computers -> Requests \cup {None}],
         entry' \in [Requests -> Entries]
  PROVE  LockInv'
<1>1. phase[r] \in Pending /\ locks[call[r].key] # <<>>
  BY AtTheHead DEF LockInv, HasTurn, Holding, Pending
<1>2. TypeInv'
  BY <1>1, TypeSettle DEF LockInv
<1>3. ChainOK'
  BY ChainSettle DEF LockInv
<1> QED
  BY <1>2, <1>3 DEF LockInv

LEMMA RecordsUnchanged ==
  ASSUME LockInv, UNCHANGED records
  PROVE  /\ computers' \in [Computers -> Requests \cup {None}]
         /\ entry' \in [Requests -> Entries]
BY DEF LockInv, TypeInv, TypeOK, records

LEMMA LockCallRakazo ==
  ASSUME LockInv, NEW r \in Requests, HasTurn(r), CallRakazo(r)
  PROVE  LockInv'
<1>1. TypeInv'
  BY TypeCallRakazo DEF LockInv, HasTurn
<1>2. ChainOK'
  BY ChainMove DEF LockInv, CallRakazo, Phases, Holding
<1> QED
  BY <1>1, <1>2 DEF LockInv

LEMMA LockBegins ==
  ASSUME LockInv, NEW r \in Requests, Begins(r)
  PROVE  LockInv'
<1>1. ASSUME AnswerAlready(r), HasTurn(r) PROVE LockInv'
  BY <1>1, LockSettle, RecordsUnchanged DEF AnswerAlready, Outcomes
<1> QED
  BY <1>1, LockCallRakazo DEF Begins, BeginCall, BeginStop, BeginDestroy

LEMMA LockLanded ==
  ASSUME LockInv, NEW r \in Requests, phase[r] \in {"calling", "abandoned"},
         NEW code \in Codes, NEW id \in Computers \cup {None}, Landed(r, code, id),
         call[r].op = "create" /\ code = "ok" => id \in Computers,
         machine' \in [Computers -> Machines],
         owner' \in [Computers -> Bots \cup {None}]
  PROVE  LockInv'
<1>1. TypeInv'
  BY TypeLanded DEF LockInv
<1>2. CASE phase[r] = "calling"
  <2>1. ChainOK'
    BY <1>2, ChainMove DEF LockInv, Landed, Phases, Holding
  <2> QED
    BY <1>1, <2>1 DEF LockInv
<1>3. CASE phase[r] = "abandoned"
  <2>1. ChainOK'
    BY <1>3, ChainMove DEF LockInv, Landed, Phases, Pending
  <2> QED
    BY <1>1, <2>1 DEF LockInv
<1> QED
  BY <1>2, <1>3

LEMMA LockRakazoActs ==
  ASSUME LockInv, NEW r \in Requests, RakazoActs(r)
  PROVE  LockInv'
<1>1. /\ machine \in [Computers -> Machines]
      /\ owner \in [Computers -> Bots \cup {None}]
      /\ phase[r] \in {"calling", "abandoned"} =>
           \/ call[r].op = "create" /\ call[r].key \in Bots
           \/ call[r].op \in Operations \ {"create"} /\ call[r].key \in Computers
  BY DEF LockInv, TypeInv, TypeOK, CallOK, Pending, Operations
<1>2. CASE RakazoProvisions(r)
  <2>1. /\ phase[r] \in {"calling", "abandoned"} /\ call[r].key \in Bots
        /\ \E id \in Computers : /\ Landed(r, "ok", id)
                                 /\ machine' = [machine EXCEPT ![id] = "running"]
                                 /\ owner' = [owner EXCEPT ![id] = call[r].key]
    BY <1>1, <1>2 DEF RakazoProvisions, Out, Operations
  <2>2. PICK id \in Computers : /\ Landed(r, "ok", id)
                                /\ machine' = [machine EXCEPT ![id] = "running"]
                                /\ owner' = [owner EXCEPT ![id] = call[r].key]
    BY <2>1
  <2>3. machine' \in [Computers -> Machines] /\ owner' \in [Computers -> Bots \cup {None}]
    BY <1>1, <2>1, <2>2 DEF Machines
  <2> QED
    BY <2>1, <2>2, <2>3, LockLanded DEF Codes
<1>3. CASE RakazoExecutes(r)
  <2>1. PICK code \in {"ok", "nonzero", "nonzero404", "404"} : Landed(r, code, None)
    BY <1>3 DEF RakazoExecutes
  <2> QED
    BY <1>1, <1>3, <2>1, LockLanded DEF RakazoExecutes, Out, Codes, rakazo
<1>4. CASE RakazoStops(r)
  <2>1. machine' \in [Computers -> Machines]
    BY <1>1, <1>4 DEF RakazoStops, Machines
  <2>2. PICK code \in {"ok", "404"} : Landed(r, code, None)
    BY <1>4 DEF RakazoStops
  <2> QED
    BY <1>1, <1>4, <2>1, <2>2, LockLanded DEF RakazoStops, Out, Codes
<1>5. CASE RakazoDestroys(r)
  <2>1. machine' \in [Computers -> Machines]
    BY <1>1, <1>5 DEF RakazoDestroys, Machines
  <2>2. PICK code \in {"ok", "404"} : Landed(r, code, None)
    BY <1>5 DEF RakazoDestroys
  <2> QED
    BY <1>1, <1>5, <2>1, <2>2, LockLanded DEF RakazoDestroys, Out, Codes
<1>6. CASE RakazoFails(r)
  BY <1>1, <1>6, LockLanded DEF RakazoFails, Codes, rakazo
<1> QED
  BY <1>2, <1>3, <1>4, <1>5, <1>6 DEF RakazoActs

LEMMA FailureIsAnOutcome == \A code : Failure(code) \in Outcomes
BY DEF Failure, Outcomes

LEMMA SetStateType ==
  ASSUME LockInv, NEW r \in Requests, phase[r] = "replying", call[r].op # "create",
         NEW state \in States, SetState(r, state)
  PROVE  entry' \in [Requests -> Entries]
<1>1. call[r].entry \in Requests
  BY CallShape DEF LockInv, Pending
<1>2. entry \in [Requests -> Entries]
  BY DEF LockInv, TypeInv, TypeOK
<1>3. [entry[call[r].entry] EXCEPT !.state = state] \in Entries
  BY <1>1, <1>2 DEF Entries
<1> QED
  BY <1>1, <1>2, <1>3 DEF SetState

LEMMA LockReturns ==
  ASSUME LockInv, NEW r \in Requests, Returns(r)
  PROVE  LockInv'
<1>1. ASSUME NEW result \in Outcomes, phase[r] = "replying", Settle(r, "answered", result),
             UNCHANGED records
      PROVE  LockInv'
  BY <1>1, LockSettle, RecordsUnchanged DEF Holding
<1>2. ASSUME NEW result \in Outcomes, phase[r] = "replying", call[r].op # "create",
             Settle(r, "answered", result), UNCHANGED computers,
             \/ UNCHANGED entry
             \/ \E state \in States : SetState(r, state)
      PROVE  LockInv'
  <2>1. computers' \in [Computers -> Requests \cup {None}]
    BY <1>2 DEF LockInv, TypeInv, TypeOK
  <2>2. CASE UNCHANGED entry
    BY <1>1, <1>2, <2>2 DEF records
  <2>3. CASE \E state \in States : SetState(r, state)
    BY <1>2, <2>1, <2>3, SetStateType, LockSettle DEF Holding
  <2> QED
    BY <1>2, <2>2, <2>3
<1>3. CASE CreateReturns(r)
  <2>1. CASE reply[r].code = "ok"
    <3>1. reply[r].id \in Computers /\ call[r].key \in Bots /\ phase[r] = "replying"
      BY <1>3, <2>1 DEF CreateReturns, Replied, LockInv, TypeInv, CallOK, Pending
    <3>2. /\ computers' \in [Computers -> Requests \cup {None}]
          /\ entry' \in [Requests -> Entries]
      <4>1. [id |-> reply[r].id, botId |-> call[r].key, state |-> "running"] \in Entries
        BY <3>1 DEF Entries, States
      <4>2. /\ entry \in [Requests -> Entries]
            /\ computers \in [Computers -> Requests \cup {None}]
        BY DEF LockInv, TypeInv, TypeOK
      <4>3. /\ entry' = [entry EXCEPT ![r] = [id |-> reply[r].id, botId |-> call[r].key,
                                              state |-> "running"]]
            /\ computers' = [computers EXCEPT ![reply[r].id] = r]
        BY <1>3, <2>1 DEF CreateReturns
      <4> QED
        BY <3>1, <4>1, <4>2, <4>3
    <3> QED
      BY <1>3, <2>1, <3>1, <3>2, LockSettle DEF CreateReturns, Holding, Outcomes
  <2>2. CASE reply[r].code # "ok"
    BY <1>1, <1>3, <2>2, FailureIsAnOutcome DEF CreateReturns, Replied
  <2> QED
    BY <2>1, <2>2
<1>4. CASE StatusReturns(r)
  <2>1. \A code : ProbeState(code) \in States
    BY DEF ProbeState, States, Terminal
  <2> QED
    BY <1>2, <1>4, <2>1, FailureIsAnOutcome DEF StatusReturns, Replied, Outcomes
<1>5. CASE CommandReturns(r)
  BY <1>1, <1>5, FailureIsAnOutcome DEF CommandReturns, Replied, Outcomes
<1>6. CASE StopReturns(r)
  BY <1>2, <1>6 DEF StopReturns, Replied, Outcomes, States
<1>7. CASE DestroyReturns(r)
  BY <1>2, <1>7 DEF DestroyReturns, Replied, Outcomes, States, Terminal
<1> QED
  BY <1>3, <1>4, <1>5, <1>6, <1>7 DEF Returns

LEMMA LockTimesOut ==
  ASSUME LockInv, NEW r \in Requests, TimesOut(r)
  PROVE  LockInv'
<1>1. PICK last \in {"answered", "abandoned"} : Settle(r, last, "failed")
  BY DEF TimesOut
<1> QED
  BY <1>1, LockSettle, RecordsUnchanged DEF TimesOut, Outcomes

LEMMA LockDropped ==
  ASSUME LockInv, NEW r \in Requests, AbandonedCallDropped(r)
  PROVE  LockInv'
<1>1. TypeOK'
  <2>1. phase' \in [Requests -> Phases]
    BY DEF AbandonedCallDropped, LockInv, TypeInv, TypeOK, Phases
  <2> QED
    BY <2>1 DEF AbandonedCallDropped, LockInv, TypeInv, TypeOK, rakazo, records
<1>2. CallOK'
  BY DEF AbandonedCallDropped, LockInv, TypeInv, TypeOK, CallOK, Pending, rakazo, records
<1>3. ChainOK'
  BY ChainMove DEF AbandonedCallDropped, LockInv, Phases, Pending
<1> QED
  BY <1>1, <1>2, <1>3 DEF LockInv, TypeInv

LEMMA LockRestart ==
  ASSUME LockInv, BridgeRestarts
  PROVE  LockInv'
<1>1. \A k \in Keys : Len(locks'[k]) = 0
  BY DEF BridgeRestarts
<1>2. \A r \in Requests : phase'[r] \notin Pending
  BY DEF BridgeRestarts, LockInv, TypeInv, TypeOK, Phases, Pending
<1>3. ChainOK'
  BY <1>1, <1>2 DEF ChainOK
<1> QED
  BY <1>3, TypeRestart DEF LockInv

LEMMA LockMachine ==
  ASSUME LockInv, NEW id \in Computers, MachineSuspended(id) \/ MachineReclaimed(id)
  PROVE  LockInv'
<1>1. /\ machine' \in [Computers -> Machines]
      /\ UNCHANGED <<owner, computers, entry, locks, phase, call, reply, outcome>>
  BY DEF MachineSuspended, MachineReclaimed, LockInv, TypeInv, TypeOK, Machines, records
<1> QED
  BY <1>1 DEF LockInv, TypeInv, TypeOK, CallOK, ChainOK

LEMMA LockStep == LockInv /\ [Next]_vars => LockInv'
<1> SUFFICES ASSUME LockInv, [Next]_vars PROVE LockInv'
  OBVIOUS
<1>1. CASE Next
  BY <1>1, LockArrives, LockBegins, LockRakazoActs, LockReturns, LockTimesOut, LockDropped,
     LockRestart, LockMachine DEF Next
<1>2. CASE UNCHANGED vars
  BY <1>2 DEF vars, LockInv, TypeInv, TypeOK, CallOK, ChainOK
<1> QED
  BY <1>1, <1>2

LEMMA LockInvariant == Spec => []LockInv
<1>1. Init => LockInv
  BY TypeInit, ChainInit DEF LockInv
<1> QED
  BY <1>1, LockStep, PTL DEF Spec

\* The state has the shape TypeOK says, for every set of requests.
THEOREM TypeCorrect == Spec => []TypeOK
<1>1. LockInv => TypeOK
  BY DEF LockInv, TypeInv
<1> QED
  BY <1>1, LockInvariant, PTL

\* The chain of promises serializes the calls of one key.
THEOREM SerializedCorrect == Spec => []Serialized
<1>1. LockInv => Serialized
  <2> SUFFICES ASSUME LockInv, NEW r \in Requests, NEW s \in Requests,
                      phase[r] \in Holding, phase[s] \in Holding, call[r].key = call[s].key
               PROVE  r = s
    BY DEF Serialized
  <2>1. locks[call[r].key][1] = r /\ locks[call[s].key][1] = s
    BY AtTheHead DEF LockInv
  <2> QED
    BY <2>1
<1> QED
  BY <1>1, LockInvariant, PTL

-----------------------------------------------------------------------------
(* Records and machines.  TerminalMeansGone is not inductive by itself: what*)
(* a record will say is decided by an answer still on its way, and written  *)
(* to the record object the request got before it queued.                   *)

RecordOK ==
  /\ \A id \in Computers : computers[id] # None =>
       entry[computers[id]].id = id /\ entry[computers[id]].state # None
  /\ \A r \in Requests :
       /\ entry[r].state # None => entry[r].id \in Computers /\ machine[entry[r].id] # "unborn"
       /\ phase[r] # "answered" => entry[r].state = None
       /\ phase[r] \in Pending \cup {"idle"} => outcome[r] = None
       /\ phase[r] \in Pending /\ call[r].op # "create" =>
            entry[call[r].entry].id = call[r].key /\ entry[call[r].entry].state # None

\* What the answers on their way, and the stops under way, say of the machine.
ReplyOK ==
  \A r \in Requests :
    /\ phase[r] = "replying" /\ call[r].op = "create" /\ reply[r].code = "ok" =>
         machine[reply[r].id] # "unborn"
    /\ phase[r] = "replying" /\ call[r].op = "destroy" /\ reply[r].code \in {"ok", "404"} =>
         machine[call[r].key] = "gone"
    /\ phase[r] = "replying" /\ call[r].op = "status" /\ reply[r].code = "nonzero404" =>
         machine[call[r].key] = "gone"
    /\ phase[r] = "replying" /\ call[r].op = "status" /\ reply[r].code \in {"ok", "nonzero"} =>
         entry[call[r].entry].state \notin Terminal
    /\ phase[r] \in Holding /\ call[r].op = "stop" =>
         entry[call[r].entry].state \notin Terminal

RecordInv == RecordOK /\ ReplyOK /\ TerminalMeansGone /\ DestroyAnsweredMeansGone

LEMMA RecordInit == Init => RecordInv
BY DEF Init, RecordInv, RecordOK, ReplyOK, TerminalMeansGone, DestroyAnsweredMeansGone,
       NoEntry, NoCall, Terminal, States, Holding, Pending, Operations

\* No step revives a container that is gone, or unmakes one.
LEMMA MachinesAge ==
  ASSUME LockInv, [Next]_vars
  PROVE  \A id \in Computers : /\ machine[id] = "gone" => machine'[id] = "gone"
                               /\ machine[id] # "unborn" => machine'[id] # "unborn"
<1>1. machine \in [Computers -> Machines]
  BY DEF LockInv, TypeInv, TypeOK
<1>2. CASE UNCHANGED machine
  BY <1>2
<1>3. ASSUME NEW r \in Requests, RakazoProvisions(r)
      PROVE  \E id \in Computers : /\ machine[id] # "gone"
                                   /\ machine' = [machine EXCEPT ![id] = "running"]
  BY <1>3 DEF RakazoProvisions
<1>4. ASSUME NEW r \in Requests, RakazoStops(r) \/ RakazoDestroys(r)
      PROVE  \/ UNCHANGED machine
             \/ \E id \in Computers : /\ machine[id] # "gone"
                                      /\ \E m \in {"stopped", "gone"} :
                                           machine' = [machine EXCEPT ![id] = m]
  <2>1. Out(r, "stop") \/ Out(r, "destroy") => call[r].key \in Computers
    BY DEF Out, LockInv, TypeInv, CallOK, Pending
  <2> QED
    BY <1>4, <2>1 DEF RakazoStops, RakazoDestroys
<1>5. ASSUME NEW id \in Computers, MachineSuspended(id) \/ MachineReclaimed(id)
      PROVE  /\ machine[id] # "gone"
             /\ \E m \in {"stopped", "gone"} : machine' = [machine EXCEPT ![id] = m]
  BY <1>5 DEF MachineSuspended, MachineReclaimed
<1>6. \/ UNCHANGED machine
      \/ \E r \in Requests : RakazoProvisions(r) \/ RakazoStops(r) \/ RakazoDestroys(r)
      \/ \E id \in Computers : MachineSuspended(id) \/ MachineReclaimed(id)
  <2>1. ASSUME NEW r \in Requests, Arrives(r) PROVE UNCHANGED machine
    BY <2>1, ArrivesLeaves DEF rakazo
  <2>2. ASSUME NEW r \in Requests, Begins(r) PROVE UNCHANGED machine
    BY <2>2 DEF Begins, BeginCall, BeginStop, BeginDestroy, CallRakazo, AnswerAlready, Settle, rakazo
  <2>3. ASSUME NEW r \in Requests, Returns(r) \/ TimesOut(r) PROVE UNCHANGED machine
    BY <2>3 DEF Returns, CreateReturns, StatusReturns, CommandReturns, StopReturns,
                DestroyReturns, TimesOut, Settle, rakazo
  <2>4. ASSUME NEW r \in Requests, RakazoExecutes(r) \/ RakazoFails(r) \/ AbandonedCallDropped(r)
        PROVE  UNCHANGED machine
    BY <2>4 DEF RakazoExecutes, RakazoFails, AbandonedCallDropped, rakazo
  <2>5. BridgeRestarts => UNCHANGED machine
    BY DEF BridgeRestarts, rakazo
  <2>6. UNCHANGED vars => UNCHANGED machine
    BY DEF vars
  <2> QED
    BY <2>1, <2>2, <2>3, <2>4, <2>5, <2>6 DEF Next, RakazoActs
<1> QED
  BY <1>1, <1>2, <1>3, <1>4, <1>5, <1>6

\* ReplyOK, of one request.
ReplyOKOf(r) ==
  /\ phase[r] = "replying" /\ call[r].op = "create" /\ reply[r].code = "ok" =>
       machine[reply[r].id] # "unborn"
  /\ phase[r] = "replying" /\ call[r].op = "destroy" /\ reply[r].code \in {"ok", "404"} =>
       machine[call[r].key] = "gone"
  /\ phase[r] = "replying" /\ call[r].op = "status" /\ reply[r].code = "nonzero404" =>
       machine[call[r].key] = "gone"
  /\ phase[r] = "replying" /\ call[r].op = "status" /\ reply[r].code \in {"ok", "nonzero"} =>
       entry[call[r].entry].state \notin Terminal
  /\ phase[r] \in Holding /\ call[r].op = "stop" =>
       entry[call[r].entry].state \notin Terminal

DestroyAnswerOf(r) ==
  call[r].op = "destroy" /\ outcome[r] \in {"ok", "already"} => machine[call[r].key] = "gone"

LEMMA ReplyOKSplit ==
  /\ ReplyOK <=> \A r \in Requests : ReplyOKOf(r)
  /\ DestroyAnsweredMeansGone <=> \A r \in Requests : DestroyAnswerOf(r)
BY DEF ReplyOK, ReplyOKOf, DestroyAnsweredMeansGone, DestroyAnswerOf

\* The claims about a request that does not move survive a step that leaves
\* the records alone.
LEMMA BystanderKeepsClaims ==
  ASSUME LockInv, RecordInv, [Next]_vars, UNCHANGED entry, NEW s \in Requests,
         phase'[s] = phase[s], call'[s] = call[s], reply'[s] = reply[s], outcome'[s] = outcome[s]
  PROVE  ReplyOKOf(s)' /\ DestroyAnswerOf(s)'
<1>1. ReplyOKOf(s) /\ DestroyAnswerOf(s)
  BY ReplyOKSplit DEF RecordInv
<1>2. /\ phase[s] = "replying" /\ call[s].op = "create" /\ reply[s].code = "ok" =>
           reply[s].id \in Computers
      /\ phase[s] = "replying" /\ call[s].op \in {"destroy", "status"} =>
           call[s].key \in Computers
  BY DEF LockInv, TypeInv, CallOK, Pending
<1>3. \A id : machine[id] = "gone" /\ id \in Computers => machine'[id] = "gone"
  BY MachinesAge
<1>4. ReplyOKOf(s)'
  BY <1>1, <1>2, <1>3, MachinesAge DEF ReplyOKOf
<1>5. call[s].op = "destroy" /\ outcome[s] \in {"ok", "already"} => call[s].key \in Computers
  BY DEF LockInv, TypeInv, CallOK
<1> QED
  BY <1>1, <1>3, <1>4, <1>5 DEF DestroyAnswerOf

\* A step of r that leaves the records alone keeps RecordInv when what it makes
\* true of r is in order.
LEMMA RecordFrame ==
  ASSUME LockInv, RecordInv, [Next]_vars, UNCHANGED <<computers, entry, call>>,
         NEW r \in Requests,
         \A s \in Requests \ {r} : /\ phase'[s] = phase[s] /\ reply'[s] = reply[s]
                                   /\ outcome'[s] = outcome[s],
         phase[r] # "idle",
         phase'[r] \in Pending => phase[r] \in Pending /\ outcome'[r] = outcome[r],
         phase'[r] # "idle", phase[r] # "answered",
         ReplyOKOf(r)', DestroyAnswerOf(r)'
  PROVE  RecordInv'
<1>1. /\ entry \in [Requests -> Entries] /\ computers \in [Computers -> Requests \cup {None}]
      /\ machine \in [Computers -> Machines]
  BY DEF LockInv, TypeInv, TypeOK
<1>2. \A s \in Requests : ReplyOKOf(s)' /\ DestroyAnswerOf(s)'
  BY BystanderKeepsClaims
<1>3. ReplyOK' /\ DestroyAnsweredMeansGone'
  BY <1>2 DEF ReplyOK, ReplyOKOf, DestroyAnsweredMeansGone, DestroyAnswerOf
<1>4. TerminalMeansGone'
  <2> SUFFICES ASSUME NEW s \in Requests, entry[s].state \in Terminal
               PROVE  machine'[entry[s].id] = "gone"
    BY DEF TerminalMeansGone
  <2>1. entry[s].state # None
    BY DEF Terminal, States
  <2> QED
    BY <2>1, MachinesAge DEF RecordInv, RecordOK, TerminalMeansGone
<1>5. RecordOK'
  BY <1>1, MachinesAge DEF RecordInv, RecordOK
<1> QED
  BY <1>3, <1>4, <1>5 DEF RecordInv

\* r's work ends without touching a record.
LEMMA RecordSettle ==
  ASSUME LockInv, RecordInv, [Next]_vars, UNCHANGED records, NEW r \in Requests,
         phase[r] \in Pending, NEW last \in {"answered", "abandoned"}, NEW result,
         Settle(r, last, result),
         call[r].op = "destroy" /\ result \in {"ok", "already"} => machine[call[r].key] = "gone"
  PROVE  RecordInv'
<1>1. /\ UNCHANGED <<computers, entry, call, machine>>
      /\ \A s \in Requests \ {r} : /\ phase'[s] = phase[s] /\ reply'[s] = reply[s]
                                   /\ outcome'[s] = outcome[s]
      /\ phase'[r] = last /\ outcome'[r] = result
  BY DEF Settle, records, rakazo, LockInv, TypeInv, TypeOK
<1>2. ReplyOKOf(r)' /\ DestroyAnswerOf(r)'
  BY <1>1 DEF ReplyOKOf, DestroyAnswerOf, Holding
<1> QED
  BY <1>1, <1>2, RecordFrame DEF Pending

LEMMA RecordArrives ==
  ASSUME LockInv, RecordInv, NEW r \in Requests, Arrives(r)
  PROVE  RecordInv'
<1>0. /\ entry \in [Requests -> Entries] /\ computers \in [Computers -> Requests \cup {None}]
      /\ phase \in [Requests -> Phases] /\ machine \in [Computers -> Machines]
      /\ call \in [Requests -> [op: Operations \cup {None}, key: Keys \cup {None},
                                entry: Requests \cup {None}, under: Requests \cup {None}]]
      /\ outcome \in [Requests -> Outcomes \cup {None}]
  BY DEF LockInv, TypeInv, TypeOK
<1>1. ASSUME phase[r] = "idle", NEW op, NEW key, NEW e, NEW u, Enqueue(r, op, key, e, u),
             op # "create" => entry[e].id = key /\ entry[e].state # None
      PROVE  RecordInv'
  <2>1. /\ phase'[r] = "queued" /\ call'[r] = [op |-> op, key |-> key, entry |-> e, under |-> u]
        /\ \A s \in Requests \ {r} : phase'[s] = phase[s] /\ call'[s] = call[s]
        /\ UNCHANGED <<machine, computers, entry, reply, outcome>>
    BY <1>0, <1>1 DEF Enqueue, rakazo, records
  <2>2. outcome[r] = None
    BY <1>1 DEF RecordInv, RecordOK
  <2>3. ReplyOK'
    BY <2>1 DEF RecordInv, ReplyOK, Holding
  <2>4. TerminalMeansGone'
    BY <2>1 DEF RecordInv, TerminalMeansGone
  <2>5. DestroyAnsweredMeansGone'
    BY <2>1, <2>2 DEF RecordInv, DestroyAnsweredMeansGone, Outcomes
  <2>6. RecordOK'
    BY <1>1, <2>1 DEF RecordInv, RecordOK, Pending
  <2> QED
    BY <2>3, <2>4, <2>5, <2>6 DEF RecordInv
<1>2. ASSUME NEW b \in Bots, Create(r, b) PROVE RecordInv'
  BY <1>1, <1>2 DEF Create
<1>3. ASSUME NEW id \in Computers, NEW op \in {"status", "command", "stop", "destroy"},
             NEW c, NEW t, NEW a, Admit(r, op, id, c, t, a)
      PROVE  RecordInv'
  <2>1. CASE Refusal(id, c, t, a) = None
    <3>1. computers[id] # None
      BY <2>1 DEF Refusal, Outcomes
    <3>2. entry[computers[id]].id = id /\ entry[computers[id]].state # None
      BY <3>1 DEF RecordInv, RecordOK
    <3> QED
      BY <1>1, <1>3, <2>1, <3>2 DEF Admit
  <2>2. CASE Refusal(id, c, t, a) # None
    <3>1. Refusal(id, c, t, a) \in {"notfound", "forbidden"}
      BY <2>2 DEF Refusal
    <3>2. /\ phase'[r] = "answered" /\ outcome'[r] \in {"notfound", "forbidden"}
          /\ \A s \in Requests \ {r} : phase'[s] = phase[s] /\ outcome'[s] = outcome[s]
          /\ UNCHANGED <<machine, computers, entry, reply, call>>
      BY <1>0, <1>3, <2>2, <3>1 DEF Admit, rakazo, records
    <3>3. ReplyOK'
      BY <3>2 DEF RecordInv, ReplyOK, Holding
    <3>4. TerminalMeansGone'
      BY <3>2 DEF RecordInv, TerminalMeansGone
    <3>5. DestroyAnsweredMeansGone'
      BY <3>2 DEF RecordInv, DestroyAnsweredMeansGone
    <3>6. RecordOK'
      BY <3>2 DEF RecordInv, RecordOK, Pending
    <3> QED
      BY <3>3, <3>4, <3>5, <3>6 DEF RecordInv
  <2> QED
    BY <2>1, <2>2
<1> QED
  BY <1>2, <1>3 DEF Arrives, Status, Command, Stop, Destroy

LEMMA RecordBegins ==
  ASSUME LockInv, RecordInv, [Next]_vars, NEW r \in Requests, Begins(r)
  PROVE  RecordInv'
<1>1. HasTurn(r) /\ phase[r] = "queued"
  BY DEF Begins, BeginCall, BeginStop, BeginDestroy, HasTurn
<1>2. call[r].op \in {"stop", "destroy"} =>
        call[r].entry \in Requests /\ call[r].key \in Computers
  BY DEF LockInv, TypeInv, CallOK
<1>3. ASSUME CallRakazo(r), call[r].op = "stop" => entry[call[r].entry].state \notin Terminal
      PROVE  RecordInv'
  <2>1. /\ UNCHANGED <<computers, entry, call, machine>> /\ outcome'[r] = outcome[r]
        /\ \A s \in Requests \ {r} : /\ phase'[s] = phase[s] /\ reply'[s] = reply[s]
                                     /\ outcome'[s] = outcome[s]
        /\ phase'[r] = "calling" /\ outcome[r] = None
    BY <1>1, <1>3 DEF CallRakazo, records, rakazo, LockInv, TypeInv, TypeOK, RecordInv, RecordOK, Pending
  <2>2. ReplyOKOf(r)'
    BY <1>3, <2>1 DEF ReplyOKOf
  <2>3. DestroyAnswerOf(r)'
    BY <2>1 DEF DestroyAnswerOf, Outcomes
  <2> QED
    BY <1>1, <2>1, <2>2, <2>3, RecordFrame DEF Pending
<1>4. ASSUME AnswerAlready(r), call[r].op = "destroy" => entry[call[r].entry].state = "destroyed"
      PROVE  RecordInv'
  <2>1. call[r].op = "destroy" => machine[call[r].key] = "gone"
    BY <1>1, <1>2, <1>4 DEF RecordInv, RecordOK, TerminalMeansGone, Terminal, Pending
  <2> QED
    BY <1>1, <1>4, <2>1, RecordSettle DEF AnswerAlready, Pending
<1> QED
  BY <1>3, <1>4 DEF Begins, BeginCall, BeginStop, BeginDestroy

\* Rakazo's answer, when it says of the machine and the record what it may.
LEMMA RecordLanded ==
  ASSUME LockInv, RecordInv, [Next]_vars, NEW r \in Requests,
         phase[r] \in {"calling", "abandoned"}, NEW code, NEW id, Landed(r, code, id),
         phase[r] = "calling" =>
           /\ call[r].op = "create" /\ code = "ok" => machine'[id] # "unborn"
           /\ call[r].op = "destroy" /\ code \in {"ok", "404"} => machine'[call[r].key] = "gone"
           /\ call[r].op = "status" /\ code = "nonzero404" => machine'[call[r].key] = "gone"
           /\ call[r].op = "status" /\ code \in {"ok", "nonzero"} =>
                entry[call[r].entry].state \notin Terminal
  PROVE  RecordInv'
<1>1. /\ UNCHANGED <<computers, entry, call, outcome>>
      /\ \A s \in Requests \ {r} : /\ phase'[s] = phase[s] /\ reply'[s] = reply[s]
                                   /\ outcome'[s] = outcome[s]
      /\ \/ /\ phase[r] = "calling" /\ phase'[r] = "replying"
            /\ reply'[r] = [code |-> code, id |-> id]
         \/ phase[r] = "abandoned" /\ phase'[r] = "answered"
  BY DEF Landed, records, LockInv, TypeInv, TypeOK
<1>2. DestroyAnswerOf(r)'
  <2>1. DestroyAnswerOf(r)
    BY ReplyOKSplit DEF RecordInv
  <2>2. call[r].op = "destroy" => call[r].key \in Computers
    BY DEF LockInv, TypeInv, CallOK
  <2> QED
    BY <1>1, <2>1, <2>2, MachinesAge DEF DestroyAnswerOf
<1>3. ReplyOKOf(r)'
  <2>1. CASE phase[r] = "abandoned"
    BY <1>1, <2>1 DEF ReplyOKOf, Holding
  <2>2. CASE phase[r] = "calling"
    <3>1. call[r].op = "stop" => entry[call[r].entry].state \notin Terminal
      BY <2>2 DEF RecordInv, ReplyOK, Holding
    <3>2. reply'[r].code = code /\ reply'[r].id = id /\ phase'[r] = "replying"
      BY <1>1, <2>2
    <3> QED
      BY <1>1, <3>1, <3>2 DEF ReplyOKOf, Holding
  <2> QED
    BY <2>1, <2>2
<1> QED
  BY <1>1, <1>2, <1>3, RecordFrame DEF Pending

LEMMA RecordRakazoActs ==
  ASSUME LockInv, RecordInv, [Next]_vars, NEW r \in Requests, RakazoActs(r)
  PROVE  RecordInv'
<1>1. /\ machine \in [Computers -> Machines]
      /\ phase[r] \in {"calling", "abandoned"} /\ call[r].op # "create" =>
           call[r].key \in Computers /\ call[r].entry \in Requests
  BY CallShape DEF LockInv, TypeInv, TypeOK, Pending
<1>7. ASSUME phase[r] = "calling", call[r].op # "create"
      PROVE  /\ machine[call[r].key] # "unborn"
             /\ entry[call[r].entry].state \in Terminal => machine[call[r].key] = "gone"
  <2>1. call[r].entry \in Requests
    BY <1>1, <1>7
  <2>2. entry[call[r].entry].id = call[r].key /\ entry[call[r].entry].state # None
    BY <1>7 DEF RecordInv, RecordOK, Pending
  <2> QED
    BY <2>1, <2>2 DEF RecordInv, RecordOK, TerminalMeansGone
<1>2. CASE RakazoProvisions(r)
  <2>1. PICK id \in Computers : /\ Landed(r, "ok", id)
                                /\ machine' = [machine EXCEPT ![id] = "running"]
    BY <1>2 DEF RakazoProvisions
  <2>2. machine'[id] # "unborn"
    BY <1>1, <2>1
  <2> QED
    BY <1>2, <2>1, <2>2, RecordLanded DEF RakazoProvisions, Out
<1>3. CASE RakazoExecutes(r)
  <2>1. PICK code \in {"ok", "nonzero", "nonzero404", "404"} :
          /\ Landed(r, code, None)
          /\ machine[call[r].key] \in {"running", "stopped"} => code \in {"ok", "nonzero"}
          /\ machine[call[r].key] \notin {"running", "stopped"} => code \in {"nonzero404", "404"}
    BY <1>3 DEF RakazoExecutes
  <2>2. UNCHANGED machine /\ phase[r] \in {"calling", "abandoned"} /\ call[r].op \in {"status", "command"}
    BY <1>3 DEF RakazoExecutes, rakazo, Out
  <2>3. CASE phase[r] = "calling"
    <3>1. call[r].op = "status" /\ code = "nonzero404" => machine'[call[r].key] = "gone"
      BY <1>1, <1>7, <2>1, <2>2, <2>3 DEF Machines
    <3>2. call[r].op = "status" /\ code \in {"ok", "nonzero"} =>
            entry[call[r].entry].state \notin Terminal
      BY <1>7, <2>1, <2>2, <2>3
    <3> QED
      BY <2>1, <2>2, <2>3, <3>1, <3>2, RecordLanded
  <2>4. CASE phase[r] = "abandoned"
    BY <2>1, <2>2, <2>4, RecordLanded
  <2> QED
    BY <2>2, <2>3, <2>4
<1>4. CASE RakazoStops(r)
  <2>1. PICK code : Landed(r, code, None)
    BY <1>4 DEF RakazoStops
  <2> QED
    BY <1>4, <2>1, RecordLanded DEF RakazoStops, Out
<1>5. CASE RakazoDestroys(r)
  <2>1. PICK code : Landed(r, code, None)
    BY <1>5 DEF RakazoDestroys
  <2>2. phase[r] = "calling" => machine'[call[r].key] = "gone"
    <3>1. call[r].op = "destroy" /\ (phase[r] = "calling" => call[r].key \in Computers)
      BY <1>1, <1>5 DEF RakazoDestroys, Out
    <3> QED
      BY <1>1, <1>5, <1>7, <3>1 DEF RakazoDestroys, Machines
  <2> QED
    BY <1>5, <2>1, <2>2, RecordLanded DEF RakazoDestroys, Out
<1>6. CASE RakazoFails(r)
  BY <1>6, RecordLanded DEF RakazoFails
<1> QED
  BY <1>2, <1>3, <1>4, <1>5, <1>6 DEF RakazoActs

\* r's answer changes what one record says: the record of its computer, and no
\* other request that has begun holds that record.
LEMMA RecordWritten ==
  ASSUME LockInv, RecordInv, [Next]_vars, NEW r \in Requests, phase[r] = "replying",
         call[r].op \in {"status", "stop", "destroy"}, UNCHANGED computers,
         NEW state \in States, SetState(r, state), Settle(r, "answered", "ok"),
         state \in Terminal => machine[call[r].key] = "gone",
         call[r].op = "destroy" => state \in Terminal
  PROVE  RecordInv'
<1> DEFINE e == call[r].entry
<1>0. /\ entry \in [Requests -> Entries] /\ computers \in [Computers -> Requests \cup {None}]
      /\ phase \in [Requests -> Phases] /\ machine \in [Computers -> Machines]
      /\ outcome \in [Requests -> Outcomes \cup {None}]
  BY DEF LockInv, TypeInv, TypeOK
<1>1. e \in Requests /\ call[r].key \in Computers
  BY CallShape DEF LockInv, Pending
<1>2. entry[e].id = call[r].key /\ entry[e].state # None
  BY DEF RecordInv, RecordOK, Pending
<1>3. /\ entry'[e].id = entry[e].id /\ entry'[e].state = state
      /\ \A s \in Requests \ {e} : entry'[s] = entry[s]
      /\ \A s \in Requests : entry'[s].id = entry[s].id
  BY <1>0, <1>1 DEF SetState, Entries
<1>4. /\ UNCHANGED <<machine, call>>
      /\ phase'[r] = "answered" /\ outcome'[r] = "ok"
      /\ \A s \in Requests \ {r} : /\ phase'[s] = phase[s] /\ reply'[s] = reply[s]
                                   /\ outcome'[s] = outcome[s]
  BY <1>0 DEF Settle, rakazo, LockInv, TypeInv, TypeOK
<1>5. state # None /\ None \notin Terminal
  BY DEF States, Terminal
<1>6. \A s \in Requests : phase[s] \in Holding /\ call[s].op # "create" /\ s # r =>
        call[s].entry # e
  <2> SUFFICES ASSUME NEW s \in Requests, phase[s] \in Holding, call[s].op # "create",
                      call[s].entry = e
               PROVE  s = r
    OBVIOUS
  <2>1. call[s].key = call[r].key
    BY <1>2 DEF RecordInv, RecordOK, Pending, Holding
  <2> QED
    BY <2>1, AtTheHead DEF LockInv, Holding
<1> HIDE DEF e
<1>7. ReplyOK'
  <2> SUFFICES ASSUME NEW s \in Requests PROVE ReplyOKOf(s)'
    BY DEF ReplyOK, ReplyOKOf
  <2>1. CASE s = r
    BY <1>4, <2>1 DEF ReplyOKOf, Holding
  <2>2. CASE s # r
    <3>1. ReplyOKOf(s)
      BY ReplyOKSplit DEF RecordInv
    <3>2. phase[s] \in Holding /\ call[s].op \in {"status", "stop"} => call[s].entry \in Requests
      BY DEF LockInv, TypeInv, CallOK
    <3> QED
      BY <1>3, <1>4, <1>6, <2>2, <3>1, <3>2 DEF ReplyOKOf, Holding
  <2> QED
    BY <2>1, <2>2
<1>8. TerminalMeansGone'
  <2> SUFFICES ASSUME NEW s \in Requests, entry'[s].state \in Terminal
               PROVE  machine[entry[s].id] = "gone"
    BY <1>3, <1>4 DEF TerminalMeansGone
  <2> QED
    BY <1>2, <1>3 DEF RecordInv, TerminalMeansGone
<1>9. DestroyAnsweredMeansGone'
  BY <1>4 DEF RecordInv, DestroyAnsweredMeansGone
<1>10. RecordOK'
  <2>1. \A s \in Requests : entry'[s].state = None <=> entry[s].state = None
    BY <1>2, <1>3, <1>5
  <2>2. \A s \in Requests : phase'[s] \in Pending \cup {"idle"} => s # r /\ phase[s] = phase'[s]
    BY <1>4 DEF Pending
  <2>3. \A id \in Computers : computers[id] # None =>
          entry'[computers[id]].id = id /\ entry'[computers[id]].state # None
    BY <1>0, <1>3, <2>1 DEF RecordInv, RecordOK
  <2>4. \A s \in Requests : entry'[s].state # None =>
          entry'[s].id \in Computers /\ machine'[entry'[s].id] # "unborn"
    BY <1>3, <1>4, <2>1 DEF RecordInv, RecordOK
  <2>5. \A s \in Requests : phase'[s] # "answered" => entry'[s].state = None
    BY <1>4, <2>1 DEF RecordInv, RecordOK
  <2>6. \A s \in Requests : phase'[s] \in Pending \cup {"idle"} => outcome'[s] = None
    BY <1>4, <2>2 DEF RecordInv, RecordOK
  <2>7. ASSUME NEW s \in Requests, phase'[s] \in Pending, call'[s].op # "create"
        PROVE  entry'[call'[s].entry].id = call'[s].key /\ entry'[call'[s].entry].state # None
    <3>1. phase[s] \in Pending /\ call'[s] = call[s] /\ call[s].op # "create"
      BY <1>4, <2>2, <2>7
    <3>2. call[s].entry \in Requests
      BY <3>1, CallShape DEF LockInv
    <3> QED
      BY <1>3, <2>1, <3>1, <3>2 DEF RecordInv, RecordOK
  <2>8. UNCHANGED computers
    OBVIOUS
  <2> QED
    BY <2>3, <2>4, <2>5, <2>6, <2>7, <2>8 DEF RecordOK
<1> QED
  BY <1>7, <1>8, <1>9, <1>10 DEF RecordInv

\* A create that succeeds mints a record nobody can have held before.
LEMMA RecordMinted ==
  ASSUME LockInv, RecordInv, [Next]_vars, NEW r \in Requests, CreateReturns(r), reply[r].code = "ok"
  PROVE  RecordInv'
<1>0. /\ entry \in [Requests -> Entries] /\ computers \in [Computers -> Requests \cup {None}]
      /\ phase \in [Requests -> Phases] /\ machine \in [Computers -> Machines]
      /\ outcome \in [Requests -> Outcomes \cup {None}]
  BY DEF LockInv, TypeInv, TypeOK
<1>1. /\ phase[r] = "replying" /\ call[r].op = "create" /\ reply[r].id \in Computers
      /\ machine[reply[r].id] # "unborn" /\ entry[r].state = None
  BY DEF CreateReturns, Replied, LockInv, TypeInv, CallOK, RecordInv, RecordOK, ReplyOK
<1>2. /\ entry'[r] = [id |-> reply[r].id, botId |-> call[r].key, state |-> "running"]
      /\ \A s \in Requests \ {r} : entry'[s] = entry[s]
      /\ computers'[reply[r].id] = r
      /\ \A id \in Computers \ {reply[r].id} : computers'[id] = computers[id]
      /\ Settle(r, "answered", "ok")
  BY <1>0, <1>1 DEF CreateReturns
<1>3. /\ UNCHANGED <<machine, call>>
      /\ phase'[r] = "answered" /\ outcome'[r] = "ok"
      /\ \A s \in Requests \ {r} : /\ phase'[s] = phase[s] /\ reply'[s] = reply[s]
                                   /\ outcome'[s] = outcome[s]
  BY <1>0, <1>2 DEF Settle, rakazo, LockInv, TypeInv, TypeOK
<1>4. "running" # None /\ "running" \notin Terminal
  BY DEF States, Terminal
<1>5. \A s \in Requests : phase[s] \in Pending /\ call[s].op # "create" =>
        /\ call[s].entry \in Requests /\ call[s].entry # r
        /\ entry[call[s].entry].id = call[s].key /\ entry[call[s].entry].state # None
  BY <1>1, CallShape DEF LockInv, RecordInv, RecordOK
<1>6. \A id \in Computers : computers[id] # r
  BY <1>1 DEF RecordInv, RecordOK
<1>7. ReplyOK'
  <2> SUFFICES ASSUME NEW s \in Requests PROVE ReplyOKOf(s)'
    BY DEF ReplyOK, ReplyOKOf
  <2>1. CASE s = r
    BY <1>3, <2>1 DEF ReplyOKOf, Holding
  <2>2. CASE s # r
    <3>1. ReplyOKOf(s)
      BY ReplyOKSplit DEF RecordInv
    <3>2. phase[s] \in Holding => phase[s] \in Pending
      BY DEF Holding, Pending
    <3> QED
      BY <1>2, <1>3, <1>5, <2>2, <3>1, <3>2 DEF ReplyOKOf, Holding
  <2> QED
    BY <2>1, <2>2
<1>8. TerminalMeansGone'
  BY <1>2, <1>3, <1>4 DEF RecordInv, TerminalMeansGone
<1>9. DestroyAnsweredMeansGone'
  BY <1>1, <1>3 DEF RecordInv, DestroyAnsweredMeansGone
<1>10. RecordOK'
  <2>1. \A id \in Computers : computers'[id] # None =>
          entry'[computers'[id]].id = id /\ entry'[computers'[id]].state # None
    BY <1>0, <1>2, <1>4, <1>6 DEF RecordInv, RecordOK
  <2>2. \A s \in Requests :
          /\ entry'[s].state # None => entry'[s].id \in Computers /\ machine'[entry'[s].id] # "unborn"
          /\ phase'[s] # "answered" => entry'[s].state = None
          /\ phase'[s] \in Pending \cup {"idle"} => outcome'[s] = None
    BY <1>1, <1>2, <1>3 DEF RecordInv, RecordOK, Pending
  <2>3. \A s \in Requests : phase'[s] \in Pending /\ call'[s].op # "create" =>
          entry'[call'[s].entry].id = call'[s].key /\ entry'[call'[s].entry].state # None
    BY <1>2, <1>3, <1>5 DEF Pending
  <2> QED
    BY <2>1, <2>2, <2>3 DEF RecordOK
<1> QED
  BY <1>7, <1>8, <1>9, <1>10 DEF RecordInv

LEMMA RecordReturns ==
  ASSUME LockInv, RecordInv, [Next]_vars, NEW r \in Requests, Returns(r)
  PROVE  RecordInv'
<1>1. \A code : Failure(code) \notin {"ok", "already"}
  BY DEF Failure
<1>2. phase[r] = "replying" /\ phase[r] \in Pending
  BY DEF Returns, CreateReturns, StatusReturns, CommandReturns, StopReturns, DestroyReturns, Replied, Pending
<1>3. CASE CreateReturns(r)
  BY <1>1, <1>2, <1>3, RecordMinted, RecordSettle DEF CreateReturns, records
<1>4. CASE StatusReturns(r)
  <2>1. CASE reply[r].code \in {"ok", "nonzero", "nonzero404"}
    <3>1. /\ ProbeState(reply[r].code) \in States
          /\ ProbeState(reply[r].code) \in Terminal => reply[r].code = "nonzero404"
      BY DEF ProbeState, States, Terminal
    <3>2. ProbeState(reply[r].code) \in Terminal => machine[call[r].key] = "gone"
      BY <1>4, <3>1 DEF StatusReturns, Replied, RecordInv, ReplyOK
    <3> QED
      BY <1>2, <1>4, <2>1, <3>1, <3>2, RecordWritten DEF StatusReturns, Replied
  <2>2. CASE reply[r].code \notin {"ok", "nonzero", "nonzero404"}
    BY <1>2, <1>4, <2>2, RecordSettle DEF StatusReturns, Replied, records
  <2> QED
    BY <2>1, <2>2
<1>5. CASE CommandReturns(r)
  BY <1>2, <1>5, RecordSettle DEF CommandReturns, Replied
<1>6. CASE StopReturns(r)
  <2>1. "stopped" \in States /\ "stopped" \notin Terminal
    BY DEF States, Terminal
  <2> QED
    BY <1>2, <1>6, <2>1, RecordWritten, RecordSettle DEF StopReturns, Replied, records
<1>7. CASE DestroyReturns(r)
  <2>1. CASE reply[r].code \in {"ok", "404"}
    <3>1. machine[call[r].key] = "gone"
      BY <1>7, <2>1 DEF DestroyReturns, Replied, RecordInv, ReplyOK
    <3>2. "destroyed" \in States /\ "destroyed" \in Terminal
      BY DEF States, Terminal
    <3> QED
      BY <1>2, <1>7, <2>1, <3>1, <3>2, RecordWritten DEF DestroyReturns, Replied
  <2>2. CASE reply[r].code \notin {"ok", "404"}
    BY <1>2, <1>7, <2>2, RecordSettle DEF DestroyReturns, Replied, records
  <2> QED
    BY <2>1, <2>2
<1> QED
  BY <1>3, <1>4, <1>5, <1>6, <1>7 DEF Returns

LEMMA RecordTimesOut ==
  ASSUME LockInv, RecordInv, [Next]_vars, NEW r \in Requests, TimesOut(r)
  PROVE  RecordInv'
<1>1. PICK last \in {"answered", "abandoned"} : Settle(r, last, "failed")
  BY DEF TimesOut
<1> QED
  BY <1>1, RecordSettle DEF TimesOut, Holding, Pending

LEMMA RecordDropped ==
  ASSUME LockInv, RecordInv, [Next]_vars, NEW r \in Requests, AbandonedCallDropped(r)
  PROVE  RecordInv'
<1>1. /\ phase[r] = "abandoned" /\ phase'[r] = "answered"
      /\ \A s \in Requests \ {r} : phase'[s] = phase[s]
      /\ UNCHANGED <<machine, computers, entry, call, reply, outcome>>
  BY DEF AbandonedCallDropped, rakazo, records, LockInv, TypeInv, TypeOK
<1>2. DestroyAnswerOf(r)'
  BY <1>1, ReplyOKSplit DEF RecordInv, DestroyAnswerOf
<1>3. ReplyOKOf(r)'
  BY <1>1 DEF ReplyOKOf, Holding
<1> QED
  BY <1>1, <1>2, <1>3, RecordFrame DEF Pending

LEMMA RecordRestart ==
  ASSUME LockInv, RecordInv, BridgeRestarts
  PROVE  RecordInv'
<1>1. /\ \A r \in Requests : /\ entry'[r].state = None
                             /\ phase'[r] \notin Pending
                             /\ phase'[r] = "idle" => phase[r] = "idle"
                             /\ outcome'[r] = outcome[r] \/ outcome'[r] = "lost"
                             /\ phase[r] \notin Pending => outcome'[r] = outcome[r]
      /\ \A id \in Computers : computers'[id] = None
      /\ UNCHANGED <<machine, call>>
  BY DEF BridgeRestarts, NoEntry, rakazo, LockInv, TypeInv, TypeOK, Phases, Pending
<1>2. None \notin Terminal
  BY DEF States, Terminal
<1>3. ReplyOK'
  BY <1>1 DEF ReplyOK, Pending, Holding
<1>4. TerminalMeansGone'
  BY <1>1, <1>2 DEF TerminalMeansGone
<1>5. DestroyAnsweredMeansGone'
  BY <1>1 DEF RecordInv, DestroyAnsweredMeansGone
<1>6. RecordOK'
  <2>1. \A r \in Requests : phase'[r] \in Pending \cup {"idle"} => outcome'[r] = None
    BY <1>1 DEF RecordInv, RecordOK, Pending
  <2> QED
    BY <1>1, <2>1 DEF RecordOK
<1> QED
  BY <1>3, <1>4, <1>5, <1>6 DEF RecordInv

\* A machine that changes on its own, or nothing at all.
LEMMA RecordMachine ==
  ASSUME LockInv, RecordInv, [Next]_vars,
         UNCHANGED <<computers, entry, phase, call, reply, outcome>>
  PROVE  RecordInv'
<1>1. ReplyOK' /\ DestroyAnsweredMeansGone'
  BY BystanderKeepsClaims DEF ReplyOK, ReplyOKOf, DestroyAnsweredMeansGone, DestroyAnswerOf
<1>2. TerminalMeansGone'
  <2>1. None \notin Terminal
    BY DEF States, Terminal
  <2> QED
    BY <2>1, MachinesAge DEF RecordInv, RecordOK, TerminalMeansGone
<1>3. RecordOK'
  BY MachinesAge DEF RecordInv, RecordOK
<1> QED
  BY <1>1, <1>2, <1>3 DEF RecordInv

LEMMA RecordStep == LockInv /\ RecordInv /\ [Next]_vars => RecordInv'
<1> SUFFICES ASSUME LockInv, RecordInv, [Next]_vars PROVE RecordInv'
  OBVIOUS
<1>1. ASSUME NEW id \in Computers, MachineSuspended(id) \/ MachineReclaimed(id)
      PROVE  RecordInv'
  BY <1>1, RecordMachine DEF MachineSuspended, MachineReclaimed, records
<1>2. CASE UNCHANGED vars
  BY <1>2, RecordMachine DEF vars
<1> QED
  BY <1>1, <1>2, RecordArrives, RecordBegins, RecordRakazoActs, RecordReturns, RecordTimesOut,
     RecordDropped, RecordRestart DEF Next

LEMMA RecordInvariant == Spec => []RecordInv
BY RecordInit, RecordStep, LockInvariant, PTL DEF Spec

\* A record that says destroyed or missing is right: the container is gone.
THEOREM TerminalMeansGoneCorrect == Spec => []TerminalMeansGone
<1>1. RecordInv => TerminalMeansGone
  BY DEF RecordInv
<1> QED
  BY <1>1, RecordInvariant, PTL

\* A destroy that was answered with success has left nothing behind, whatever
\* timed out, restarted or was created again meanwhile.
THEOREM DestroyAnsweredCorrect == Spec => []DestroyAnsweredMeansGone
<1>1. RecordInv => DestroyAnsweredMeansGone
  BY DEF RecordInv
<1> QED
  BY <1>1, RecordInvariant, PTL

\* No status, stop or create brings back a record that said destroyed or missing.
THEOREM TerminalIsFinalCorrect == Spec => TerminalIsFinal
<1> DEFINE Final == \A r \in Requests :
                      entry[r].state \in Terminal => entry'[r].state \in Terminal \cup {None}
<1>1. LockInv /\ RecordInv /\ [Next]_vars => [Final]_vars
  <2> SUFFICES ASSUME LockInv, RecordInv, Next, NEW s \in Requests, entry[s].state \in Terminal
               PROVE  entry'[s].state \in Terminal \cup {None}
    BY DEF Final
  <2>0. entry \in [Requests -> Entries]
    BY DEF LockInv, TypeInv, TypeOK
  <2>1. CASE UNCHANGED entry
    BY <2>1
  <2>2. ASSUME NEW r \in Requests, Arrives(r) \/ Begins(r) \/ RakazoActs(r) \/ TimesOut(r)
                                    \/ AbandonedCallDropped(r)
        PROVE  UNCHANGED entry
    <3>1. Arrives(r) => UNCHANGED entry
      BY ArrivesLeaves DEF records
    <3>2. Begins(r) => UNCHANGED entry
      BY DEF Begins, BeginCall, BeginStop, BeginDestroy, CallRakazo, AnswerAlready, records
    <3>3. RakazoActs(r) => UNCHANGED entry
      BY DEF RakazoActs, RakazoProvisions, RakazoExecutes, RakazoStops, RakazoDestroys,
             RakazoFails, Landed, records
    <3>4. TimesOut(r) \/ AbandonedCallDropped(r) => UNCHANGED entry
      BY DEF TimesOut, AbandonedCallDropped, records
    <3> QED
      BY <2>2, <3>1, <3>2, <3>3, <3>4
  <2>3. ASSUME NEW r \in Requests, Returns(r)
        PROVE  entry'[s].state \in Terminal \cup {None}
    <3>1. phase[r] = "replying" /\ phase[r] \in Holding
      BY <2>3 DEF Returns, CreateReturns, StatusReturns, CommandReturns, StopReturns,
                  DestroyReturns, Replied, Holding
    <3>2. ASSUME NEW state, SetState(r, state), call[r].op # "create",
                 state \in Terminal \/ entry[call[r].entry].state \notin Terminal
          PROVE  entry'[s].state \in Terminal \cup {None}
      <4>1. call[r].entry \in Requests
        BY <3>1, <3>2, CallShape DEF LockInv, Pending
      <4>2. /\ entry'[call[r].entry].state = state
            /\ \A t \in Requests \ {call[r].entry} : entry'[t] = entry[t]
        BY <2>0, <3>2, <4>1 DEF SetState, Entries
      <4> QED
        BY <3>2, <4>2
    <3>3. CASE CreateReturns(r)
      <4>1. entry[r].state = None /\ None \notin Terminal
        BY <3>1 DEF RecordInv, RecordOK, States, Terminal
      <4> QED
        BY <2>0, <3>3, <4>1 DEF CreateReturns, records
    <3>4. CASE StatusReturns(r)
      <4>1. CASE reply[r].code = "nonzero404"
        BY <3>2, <3>4, <4>1 DEF StatusReturns, Replied, ProbeState, Terminal
      <4>2. CASE reply[r].code \in {"ok", "nonzero"}
        <5>1. entry[call[r].entry].state \notin Terminal
          BY <3>4, <4>2 DEF StatusReturns, Replied, RecordInv, ReplyOK
        <5> QED
          BY <3>2, <3>4, <4>2, <5>1 DEF StatusReturns, Replied
      <4>3. CASE reply[r].code \notin {"ok", "nonzero", "nonzero404"}
        BY <3>4, <4>3 DEF StatusReturns
      <4> QED
        BY <4>1, <4>2, <4>3
    <3>5. CASE CommandReturns(r)
      BY <3>5 DEF CommandReturns, records
    <3>6. CASE StopReturns(r)
      <4>1. entry[call[r].entry].state \notin Terminal
        BY <3>1, <3>6 DEF StopReturns, Replied, RecordInv, ReplyOK
      <4> QED
        BY <3>2, <3>6, <4>1 DEF StopReturns, Replied
    <3>7. CASE DestroyReturns(r)
      BY <3>2, <3>7 DEF DestroyReturns, Replied, Terminal
    <3> QED
      BY <2>3, <3>3, <3>4, <3>5, <3>6, <3>7 DEF Returns
  <2>4. CASE BridgeRestarts
    BY <2>4 DEF BridgeRestarts, NoEntry
  <2>5. ASSUME NEW id \in Computers, MachineSuspended(id) \/ MachineReclaimed(id)
        PROVE  UNCHANGED entry
    BY <2>5 DEF MachineSuspended, MachineReclaimed, records
  <2> QED
    BY <2>1, <2>2, <2>3, <2>4, <2>5 DEF Next
<1> QED
  BY <1>1, LockInvariant, RecordInvariant, PTL DEF Spec, TerminalIsFinal, Final
=============================================================================
