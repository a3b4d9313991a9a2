--------------------------- MODULE ComputerControl ---------------------------
(***************************************************************************)
(* The bridge's ComputerControl: records, capabilities and the lock per    *)
(* key, its calls to the Rakazo API, and the machines at the far end.      *)
(*                                                                         *)
(* A request is one HTTP request; none is ever reused, so the set Requests *)
(* is the only bound of the model.  A create that succeeds mints one       *)
(* record object and one random capability, and both are named here by the *)
(* request that minted them: computers[id] = r says that the map holds the *)
(* record r minted and that only r's capability opens id.                  *)
(*                                                                         *)
(* A request goes                                                          *)
(*   idle -> queued      admitted, waiting its turn on the lock            *)
(*        -> calling     its call is out at the Rakazo API                 *)
(*        -> replying    Rakazo has acted, the answer is on its way back   *)
(*        -> answered                                                      *)
(* and is abandoned when the bridge stopped waiting for a call (timeout,   *)
(* broken connection, restart) that may still reach the machine.           *)
(***************************************************************************)
EXTENDS Sequences, FiniteSets, Naturals

CONSTANTS
  Bots,        \* bot identities, derived by the callers from their sessions
  Computers,   \* container ids; Rakazo gives every new container a new one
  Requests,    \* HTTP requests to the bridge
  None

ASSUME KeysAreDisjoint == Bots \cap Computers = {}

Operations == {"create", "status", "command", "stop", "destroy"}

\* A create queues on `bot:<id>`, every other operation on the computer's id.
Keys == Bots \cup Computers

Terminal == {"destroyed", "missing"}
States   == {"running", "stopped"} \cup Terminal
Machines == {"unborn", "running", "stopped", "gone"}

Phases  == {"idle", "queued", "calling", "replying", "abandoned", "answered"}
Pending == {"queued", "calling", "replying"}   \* holds a place in a lock's chain
Holding == {"calling", "replying"}             \* its work has begun

\* Rakazo's answers: done; the command exited non-zero, or so with a 404 in
\* its stderr; status 404; any other failure.
Codes    == {"ok", "nonzero", "nonzero404", "404", "error"}
\* What the caller is told.  "notfound" and "forbidden" are refusals at the
\* door, "gone" is a 404 from Rakazo, "failed" any other error.
Outcomes == {"ok", "already", "notfound", "forbidden", "gone", "failed", "lost"}

ASSUME NoneIsNoValue ==
  None \notin Bots \cup Computers \cup Requests \cup Operations \cup States \cup Codes \cup Outcomes

Entries == [id: Computers \cup {None}, botId: Bots \cup {None}, state: States \cup {None}]
NoEntry == [id |-> None, botId |-> None, state |-> None]
NoCall  == [op |-> None, key |-> None, entry |-> None, under |-> None]
NoReply == [code |-> None, id |-> None]

VARIABLES
  machine,    \* per container id, the machine as Rakazo has it
  owner,      \* per container id, the bot it was provisioned for
  computers,  \* the bridge's map: container id -> record object, or None
  entry,      \* the record objects, by the request that minted them
  locks,      \* per key, the requests in the chain whose work has not settled
  phase,      \* per request, how far it is
  call,       \* per request, its operation, its lock key, its record object and
              \* the capability it was let in by (history: no action reads it)
  reply,      \* per request, the Rakazo answer it is about to be handed
  outcome     \* per request, what its caller was told

vars == <<machine, owner, computers, entry, locks, phase, call, reply, outcome>>
rakazo  == <<machine, owner>>
records == <<computers, entry>>

TypeOK ==
  /\ machine \in [Computers -> Machines]
  /\ owner \in [Computers -> Bots \cup {None}]
  /\ computers \in [Computers -> Requests \cup {None}]
  /\ entry \in [Requests -> Entries]
  /\ locks \in [Keys -> Seq(Requests)]
  /\ phase \in [Requests -> Phases]
  /\ call \in [Requests -> [op: Operations \cup {None}, key: Keys \cup {None},
                            entry: Requests \cup {None}, under: Requests \cup {None}]]
  /\ reply \in [Requests -> [code: Codes \cup {None}, id: Computers \cup {None}]]
  /\ outcome \in [Requests -> Outcomes \cup {None}]

Init ==
  /\ machine = [id \in Computers |-> "unborn"]
  /\ owner = [id \in Computers |-> None]
  /\ computers = [id \in Computers |-> None]
  /\ entry = [r \in Requests |-> NoEntry]
  /\ locks = [k \in Keys |-> <<>>]
  /\ phase = [r \in Requests |-> "idle"]
  /\ call = [r \in Requests |-> NoCall]
  /\ reply = [r \in Requests |-> NoReply]
  /\ outcome = [r \in Requests |-> None]

\* Capabilities some caller was given, by this process or by an earlier one.
Capabilities == {r \in Requests : call[r].op = "create" /\ outcome[r] = "ok"}

\* Mutant: only those whose record says running.
ListedRunning == {id \in Computers : computers[id] # None /\ entry[computers[id]].state = "running"}

\* The containers list() and GET /v1/computers show.
Listed == {id \in Computers : computers[id] # None /\ entry[computers[id]].state \notin Terminal}

-----------------------------------------------------------------------------
(* The lock of a key: work runs in order of arrival, one at a time, and a   *)
(* failure lets the next one run like a success does.                       *)

\* Mutant: the newest request goes first.
EnqueueFirst(r, op, key, e, capability) ==
  /\ phase' = [phase EXCEPT ![r] = "queued"]
  /\ call' = [call EXCEPT ![r] = [op |-> op, key |-> key, entry |-> e, under |-> capability]]
  /\ locks' = [locks EXCEPT ![key] = <<r>> \o @]
  /\ UNCHANGED <<rakazo, records, reply, outcome>>

Enqueue(r, op, key, e, capability) ==
  /\ phase' = [phase EXCEPT ![r] = "queued"]
  /\ call' = [call EXCEPT ![r] = [op |-> op, key |-> key, entry |-> e, under |-> capability]]
  /\ locks' = [locks EXCEPT ![key] = Append(@, r)]
  /\ UNCHANGED <<rakazo, records, reply, outcome>>

\* Mutant: no lock at all.
HasTurnAtOnce(r) == phase[r] = "queued"

HasTurn(r) == phase[r] = "queued" /\ Head(locks[call[r].key]) = r

\* r's work ends, for good (answered) or with its call still out (abandoned).
Settle(r, last, result) ==
  /\ phase' = [phase EXCEPT ![r] = last]
  /\ locks' = [locks EXCEPT ![call[r].key] = Tail(@)]
  /\ reply' = [reply EXCEPT ![r] = NoReply]
  /\ outcome' = [outcome EXCEPT ![r] = result]
  /\ UNCHANGED <<rakazo, call>>

-----------------------------------------------------------------------------
(* Requests arrive.  #entry looks at the record before the request queues,  *)
(* and the record object it found is the one the queued work will use.      *)

\* Mutant: whoever presents a capability is let in.
RefusalUnchecked(id, capability, allowTerminal, adopt) ==
  IF computers[id] = None THEN "notfound"
  ELSE IF ~allowTerminal /\ entry[computers[id]].state \in Terminal THEN "notfound"
  ELSE None

Refusal(id, capability, allowTerminal, adopt) ==
  IF computers[id] = None THEN "notfound"
  ELSE IF ~allowTerminal /\ entry[computers[id]].state \in Terminal THEN "notfound"
  ELSE IF ~adopt /\ capability # computers[id] THEN "forbidden"
  ELSE None

Admit(r, op, id, capability, allowTerminal, adopt) ==
  LET refusal == Refusal(id, capability, allowTerminal, adopt) IN
  /\ phase[r] = "idle"
  /\ \/ /\ refusal = None
        /\ Enqueue(r, op, id, computers[id], IF adopt THEN None ELSE capability)
     \/ /\ refusal # None
        /\ phase' = [phase EXCEPT ![r] = "answered"]
        /\ outcome' = [outcome EXCEPT ![r] = refusal]
        /\ UNCHANGED <<rakazo, records, locks, call, reply>>

Create(r, botId) ==
  /\ phase[r] = "idle"
  /\ Enqueue(r, "create", botId, None, None)

Status(r, id, capability) == Admit(r, "status", id, capability, FALSE, FALSE)

\* exec, readFile, writeFile, observe and browser: one control flow.
Command(r, id, capability) == Admit(r, "command", id, capability, FALSE, FALSE)

Stop(r, id, capability) == Admit(r, "stop", id, capability, TRUE, FALSE)

Destroy(r, id, capability, adopt) == Admit(r, "destroy", id, capability, TRUE, adopt)

-----------------------------------------------------------------------------
(* A request's turn comes: it answers at once or calls the Rakazo API.      *)

CallRakazo(r) ==
  /\ phase' = [phase EXCEPT ![r] = "calling"]
  /\ UNCHANGED <<rakazo, records, locks, call, reply, outcome>>

AnswerAlready(r) == Settle(r, "answered", "already") /\ UNCHANGED records

BeginCall(r) ==
  /\ HasTurn(r)
  /\ call[r].op \in {"create", "status", "command"}
  /\ CallRakazo(r)

\* Mutant: a stop looks for "stopped" only.
BeginStopUnlessStopped(r) ==
  /\ HasTurn(r)
  /\ call[r].op = "stop"
  /\ IF entry[call[r].entry].state = "stopped" THEN AnswerAlready(r) ELSE CallRakazo(r)

BeginStop(r) ==
  /\ HasTurn(r)
  /\ call[r].op = "stop"
  /\ IF entry[call[r].entry].state \in Terminal \cup {"stopped"}
     THEN AnswerAlready(r) ELSE CallRakazo(r)

BeginDestroy(r) ==
  /\ HasTurn(r)
  /\ call[r].op = "destroy"
  /\ IF entry[call[r].entry].state = "destroyed"
     THEN AnswerAlready(r) ELSE CallRakazo(r)

-----------------------------------------------------------------------------
(* Rakazo acts on a call, awaited or abandoned.  Any call may also fail     *)
(* without effect.                                                          *)

Out(r, op) == phase[r] \in {"calling", "abandoned"} /\ call[r].op = op

Landed(r, code, id) ==
  /\ IF phase[r] = "calling"
     THEN /\ phase' = [phase EXCEPT ![r] = "replying"]
          /\ reply' = [reply EXCEPT ![r] = [code |-> code, id |-> id]]
     ELSE /\ phase' = [phase EXCEPT ![r] = "answered"]
          /\ reply' = reply
  /\ UNCHANGED <<records, locks, call, outcome>>

\* A known bot identity gets its existing container back, running again; an
\* unknown one gets a new container.
RakazoProvisions(r) ==
  /\ Out(r, "create")
  /\ LET mine == {id \in Computers : owner[id] = call[r].key /\ machine[id] \in {"running", "stopped"}}
         fresh == {id \in Computers : machine[id] = "unborn"}
     IN \E id \in IF mine # {} THEN mine ELSE fresh :
          /\ machine' = [machine EXCEPT ![id] = "running"]
          /\ owner' = [owner EXCEPT ![id] = call[r].key]
          /\ Landed(r, "ok", id)

\* A status probe runs /bin/true: a command like the others.
RakazoExecutes(r) ==
  /\ Out(r, "status") \/ Out(r, "command")
  /\ \E code \in CASE machine[call[r].key] = "running" -> {"ok"}
                   [] machine[call[r].key] = "stopped" -> {"nonzero"}
                   [] OTHER -> {"nonzero404", "404"} :
       Landed(r, code, None)
  /\ UNCHANGED rakazo

RakazoStops(r) ==
  /\ Out(r, "stop")
  /\ LET id == call[r].key IN
     IF machine[id] \in {"running", "stopped"}
     THEN machine' = [machine EXCEPT ![id] = "stopped"] /\ Landed(r, "ok", None)
     ELSE machine' = machine /\ Landed(r, "404", None)
  /\ UNCHANGED owner

RakazoDestroys(r) ==
  /\ Out(r, "destroy")
  /\ LET id == call[r].key IN
     IF machine[id] \in {"running", "stopped"}
     THEN machine' = [machine EXCEPT ![id] = "gone"] /\ Landed(r, "ok", None)
     ELSE machine' = machine /\ Landed(r, "404", None)
  /\ UNCHANGED owner

RakazoFails(r) ==
  /\ phase[r] \in {"calling", "abandoned"}
  /\ Landed(r, "error", None)
  /\ UNCHANGED rakazo

-----------------------------------------------------------------------------
(* The awaited answer arrives and the work finishes.                        *)

Replied(r, op) == phase[r] = "replying" /\ call[r].op = op

\* translate(): a 404 means that the container is gone.
Failure(code) == IF code = "404" THEN "gone" ELSE "failed"

SetState(r, state) == entry' = [entry EXCEPT ![call[r].entry].state = state]

\* A new record and a new capability replace whatever the map held.
CreateReturns(r) ==
  /\ Replied(r, "create")
  /\ IF reply[r].code = "ok"
     THEN /\ entry' = [entry EXCEPT ![r] = [id |-> reply[r].id, botId |-> call[r].key,
                                            state |-> "running"]]
          /\ computers' = [computers EXCEPT ![reply[r].id] = r]
          /\ Settle(r, "answered", "ok")
     ELSE Settle(r, "answered", Failure(reply[r].code)) /\ UNCHANGED records

\* Mutants: the probe's answer kept as it is; any failed probe means missing.
ProbeStateAsIs(code) == code
ProbeStateMissing(code) == IF code = "ok" THEN "running" ELSE "missing"

ProbeState(code) ==
  CASE code = "ok" -> "running" [] code = "nonzero404" -> "missing" [] OTHER -> "stopped"

StatusReturns(r) ==
  /\ Replied(r, "status")
  /\ IF reply[r].code \in {"ok", "nonzero", "nonzero404"}
     THEN SetState(r, ProbeState(reply[r].code)) /\ Settle(r, "answered", "ok")
     ELSE Settle(r, "answered", Failure(reply[r].code)) /\ UNCHANGED entry
  /\ UNCHANGED computers

\* An exit code, zero or not, is a result; the record is not touched.
CommandReturns(r) ==
  /\ Replied(r, "command")
  /\ Settle(r, "answered",
            IF reply[r].code \in {"ok", "nonzero", "nonzero404"} THEN "ok" ELSE Failure(reply[r].code))
  /\ UNCHANGED records

\* A 404 is as good as done.
StopReturns(r) ==
  /\ Replied(r, "stop")
  /\ IF reply[r].code \in {"ok", "404"}
     THEN SetState(r, "stopped") /\ Settle(r, "answered", "ok")
     ELSE Settle(r, "answered", "failed") /\ UNCHANGED entry
  /\ UNCHANGED computers

\* Mutant: every error is tolerated, not only a 404.
DestroyReturnsAnyway(r) ==
  /\ Replied(r, "destroy")
  /\ SetState(r, "destroyed")
  /\ Settle(r, "answered", "ok")
  /\ UNCHANGED computers

DestroyReturns(r) ==
  /\ Replied(r, "destroy")
  /\ IF reply[r].code \in {"ok", "404"}
     THEN SetState(r, "destroyed") /\ Settle(r, "answered", "ok")
     ELSE Settle(r, "answered", "failed") /\ UNCHANGED entry
  /\ UNCHANGED computers

-----------------------------------------------------------------------------
(* Calls that are not answered, the bridge's end, and the world outside.    *)

\* Mutant: a rejected promise that stays in the chain.
TimesOutInChain(r) ==
  /\ phase[r] \in Holding
  /\ phase' = [phase EXCEPT ![r] = IF @ = "calling" THEN "abandoned" ELSE "answered"]
  /\ reply' = [reply EXCEPT ![r] = NoReply]
  /\ outcome' = [outcome EXCEPT ![r] = "failed"]
  /\ UNCHANGED <<rakazo, records, locks, call>>

\* fetch fails: AbortSignal.timeout fired or the connection broke.  The lock
\* is released whether or not Rakazo has acted, or ever will.
TimesOut(r) ==
  /\ phase[r] \in Holding
  /\ Settle(r, IF phase[r] = "calling" THEN "abandoned" ELSE "answered", "failed")
  /\ UNCHANGED records

\* Rakazo noticed the broken connection, or never got the call.
AbandonedCallDropped(r) ==
  /\ phase[r] = "abandoned"
  /\ phase' = [phase EXCEPT ![r] = "answered"]
  /\ UNCHANGED <<rakazo, records, locks, call, reply, outcome>>

\* Nothing is persisted: the map, the locks and the waiting requests are lost,
\* the calls already sent are not.
BridgeRestarts ==
  /\ computers' = [id \in Computers |-> None]
  /\ entry' = [r \in Requests |-> NoEntry]
  /\ locks' = [k \in Keys |-> <<>>]
  /\ phase' = [r \in Requests |-> CASE phase[r] = "calling" -> "abandoned"
                                    [] phase[r] \in {"queued", "replying"} -> "answered"
                                    [] OTHER -> phase[r]]
  /\ reply' = [r \in Requests |-> NoReply]
  /\ outcome' = [r \in Requests |-> IF phase[r] \in Pending THEN "lost" ELSE outcome[r]]
  /\ UNCHANGED <<rakazo, call>>

\* Rakazo suspends an idle machine on its own.
MachineSuspended(id) ==
  /\ machine[id] = "running"
  /\ machine' = [machine EXCEPT ![id] = "stopped"]
  /\ UNCHANGED <<owner, records, locks, phase, call, reply, outcome>>

\* Somebody else removes the container.
MachineReclaimed(id) ==
  /\ machine[id] \in {"running", "stopped"}
  /\ machine' = [machine EXCEPT ![id] = "gone"]
  /\ UNCHANGED <<owner, records, locks, phase, call, reply, outcome>>

-----------------------------------------------------------------------------
Arrives(r) ==
  \/ \E b \in Bots : Create(r, b)
  \/ \E id \in Computers, c \in Capabilities \cup {None} :
       \/ Status(r, id, c)
       \/ Command(r, id, c)
       \/ Stop(r, id, c)
       \/ \E adopt \in BOOLEAN : Destroy(r, id, c, adopt)

Begins(r) == BeginCall(r) \/ BeginStop(r) \/ BeginDestroy(r)

RakazoActs(r) ==
  \/ RakazoProvisions(r)
  \/ RakazoExecutes(r)
  \/ RakazoStops(r)
  \/ RakazoDestroys(r)
  \/ RakazoFails(r)

Returns(r) ==
  \/ CreateReturns(r)
  \/ StatusReturns(r)
  \/ CommandReturns(r)
  \/ StopReturns(r)
  \/ DestroyReturns(r)

Next ==
  \/ \E r \in Requests : \/ Arrives(r)
                         \/ Begins(r)
                         \/ RakazoActs(r)
                         \/ Returns(r)
                         \/ TimesOut(r)
                         \/ AbandonedCallDropped(r)
  \/ BridgeRestarts
  \/ \E id \in Computers : MachineSuspended(id) \/ MachineReclaimed(id)

Spec == Init /\ [][Next]_vars

\* The event loop runs a promise that can run, and every fetch has an
\* AbortSignal.timeout.  Nothing is assumed of Rakazo or of the callers.
Fairness ==
  \A r \in Requests :
    /\ WF_vars(Begins(r))
    /\ WF_vars(Returns(r))
    /\ WF_vars(TimesOut(r))

FairSpec == Spec /\ Fairness
-----------------------------------------------------------------------------
(* What the bridge promises.                                                *)

\* Two requests whose calls are awaited never share a key: the promise chain
\* of #lock serializes the operations on one computer, and the creates of one
\* bot, through failures, timeouts and restarts.
Serialized ==
  \A r, s \in Requests :
    phase[r] \in Holding /\ phase[s] \in Holding /\ call[r].key = call[s].key => r = s

\* A record object that says destroyed or missing is right, whatever was
\* queued, abandoned or resumed meanwhile: the container is gone.  TERMINAL_STATES
\* lets #entry refuse and destroy short-cut without asking Rakazo.
TerminalMeansGone ==
  \A r \in Requests :
    entry[r].state \in Terminal => machine[entry[r].id] = "gone"

\* A caller told that its destroy succeeded, or had already, can rely on it:
\* the container is gone and no late call brings it back.
DestroyAnsweredMeansGone ==
  \A r \in Requests :
    call[r].op = "destroy" /\ outcome[r] \in {"ok", "already"} => machine[call[r].key] = "gone"

\* No step takes a record object out of the terminal states, although status
\* and stop write the state after an await; only a restart drops it.
TerminalIsFinal ==
  [][\A r \in Requests :
       entry[r].state \in Terminal => entry'[r].state \in Terminal \cup {None}]_vars

\* Whoever is let in to use a computer presented the capability that is the
\* computer's at that moment; without one a computer that has a record can be torn
\* down (a pruning DELETE) and nothing else.  A create replaces the capability for
\* good, and after a restart no earlier one opens anything: the ownership rules of
\* computers.mjs:4-15 and the test of #entry.
Authority == INSTANCE Ownership WITH
  Capabilities <- Requests,
  Workers <- Requests,
  holder <- computers,
  minted <- Capabilities,
  work <- [r \in Requests |->
             IF phase[r] \in Pending /\ call[r].op # "create"
             THEN [id |-> call[r].key, capability |-> call[r].under,
                   task |-> IF call[r].op = "destroy" THEN "teardown" ELSE "use"]
             ELSE [id |-> None, capability |-> None, task |-> None]]

ImplementsOwnership == Authority!OwnershipSpec

\* On each key requests are served one at a time in the order they came in,
\* whatever fails, times out or is refused.
Fifo == INSTANCE FifoLock WITH
  Jobs <- Requests,
  queue <- locks,
  stage <- [r \in Requests |-> CASE phase[r] = "queued" -> "waiting"
                                 [] phase[r] \in Holding -> "running"
                                 [] phase[r] \notin Pending /\ call[r] = NoCall -> "new"
                                 [] OTHER -> "ended"]

ImplementsFifoLock == Fifo!FifoSpec

\* To the code in the harness, whatever fails, times out or comes late, a bot has
\* one live container at most, and only the create that holds the bot's lock and
\* got Rakazo's answer changes which capability opens it.
Live(b) == {id \in Computers : owner[id] = b /\ machine[id] \in {"running", "stopped"}}

Provisioned(b) ==
  {r \in Requests : /\ call[r].op = "create" /\ call[r].key = b
                    /\ phase[r] = "replying" /\ reply[r].code = "ok"}

View == INSTANCE BridgeView WITH
  Containers <- Computers,
  Capabilities <- Requests,
  container <- [b \in Bots |-> IF Live(b) = {} THEN None ELSE CHOOSE id \in Live(b) : TRUE],
  opens <- computers,
  creating <- [b \in Bots |->
                 IF Provisioned(b) = {} THEN [id |-> None, capability |-> None]
                 ELSE LET r == CHOOSE r \in Provisioned(b) : TRUE
                      IN [id |-> reply[r].id, capability |-> r]]

ImplementsBridgeView == View!BridgeSpec

\* Every request the bridge takes is answered, or lost with the bridge: no
\* error, timeout or silent Rakazo blocks the requests queued behind it.
EveryRequestIsAnswered ==
  \A r \in Requests : phase[r] \in Pending ~> phase[r] \notin Pending

\* list() leaves out what is terminal by its record, and asks Rakazo nothing; so
\* no live computer that has a record is ever missing from it.  (It may show a
\* dead one.)  Pruning, and the harness's BridgeView, rely on it.
ListShowsEveryLiveComputer == View!Listed \subseteq Listed
=============================================================================
