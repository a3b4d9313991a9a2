# Verification of dsh-rakazo

TLA+ models of the Rakazo computer bridge, of the DeepSeek Harness plugin and of
the file and shell providers that use it, with TLC configurations that check them
on small instances and TLAPS proofs that hold for every instance.

## The system

A harness process runs conversations (sessions) whose agents call tools. The
plugin and the providers turn those calls into HTTP requests to a bridge process,
and the bridge turns them into calls to the Rakazo API, which owns the machines.

| Component | State | Operations | Talks to |
| --- | --- | --- | --- |
| `src/computers.mjs` `ComputerControl` | map of records (bot, state, capability hash) by container, map of promise chains per lock key; nothing on disk | create, list, status, exec, read and write file, observe, browser, stop, destroy | API client |
| `src/api-client.mjs` `ApiClient` | none | one `fetch` per operation, with a timeout | Rakazo, external |
| `src/server.mjs` | none | routes a request to an operation of `ComputerControl` | its callers |
| `src/config.mjs` | none | reads the environment once | |
| `plugin/index.js` | row config, `owned`: capability by scope and container | create, use, destroy, the caller's screen; `agent/disposed`; load with pruning; unload | bridge, harness |
| `providers/bridge.js` | `computers`: record or promise by bot identity | `ensureComputer`, `bridgeFetch`, `scopeKeyFor`, `workspaceRel` | bridge |
| `providers/shell-rakazo.js` | none | `run` | `bridge.js` |
| `providers/fs-rakazo.js` | none; the file at the computer | stat, read, list, `writeText`, `editText` | `bridge.js` |
| `dist/dsh-rakazo-computer-use` | | an older build of the plugin | |
| Rakazo, harness | machines; sessions, agents, session store | external | |

What is hard in it:

- **Locks and awaits.** `ComputerControl` checks a record before a request queues
  and uses it after; creates queue under another key than everything else; a call
  that timed out gives up its lock while it may still act.
- **Capabilities rotate.** Every create replaces the capability of its computer.
  The bridge forgets all when it restarts; the harness keeps what it had.
- **Lifetimes cross.** A create, the disposal of its agent, pruning, unload and
  a dying process end or adopt the same computer in any order.
- **Identity is computed twice.** The plugin and the providers each turn a session
  into a scope, from lineage known from the agent or from the store.
- **Two paths to one machine.** Tools and native calls keep capabilities of their
  own for the same computer, and one bridge that keeps the last.
- **Checks and writes are separate round-trips** in the file provider.
- **Two rules for paths.** Providers and bridge each split and resolve them.

Correctness, by component: the *bridge* serves a key one request at a time and in
order, lets work in under the current capability only, and says "gone" only of
what is gone; the *plugin* reaches a scope's computer from that scope only, and
ends a computer exactly when its configuration says so; the *providers* create
once per identity and agree with the plugin on which computer is meant; the *file
provider* loses no change outside the window its round-trips leave open.
`PROJECT.json` lists the hazards at their lines, with the properties for each.

## The modules

| Module | Models | How |
| --- | --- | --- |
| `ComputerControl` | `computers.mjs`, `api-client.mjs`, the routes and the loss of `server.mjs`; Rakazo as its calls show it | one action per stretch between awaits |
| `FifoLock`, `Ownership` | what `#lock` and the ownership rules (`computers.mjs:4-15`) promise | abstract specifications |
| `PromiseLock` | `#lock` as written: a Map of chained promises | implements `FifoLock` |
| `BridgeView` | bridge and Rakazo as seen from the harness | an abstract specification that `ComputerControl` implements; its steps are the bridge of the next three |
| `Scope` | `scopeKeyOf`, the principal test, `scopeKeyFor` | pure operators over a lineage |
| `RakazoPlugin` | `plugin/index.js` in one harness process | uses `Scope`, `BridgeView` |
| `Providers` | `providers/bridge.js` and the calls of both providers | uses `Scope`, `BridgeView` |
| `Harness` | plugin and providers in one process over one bridge and one session store | instantiates the two |
| `FsRakazo` | `fs-rakazo.js` on one path | |
| `Workspace` | the mapping of paths in `providers/bridge.js`, `fs-rakazo.js` and `computers.mjs` | pure operators, and the use of a path that was shown |
| `MC*` | instances for TLC | |
| `ComputerControlProofs`, `ComputerControlRefinement`, `PromiseLockProofs`, `RakazoPluginProofs`, `ProvidersProofs`, `HarnessProofs`, `FsRakazoProofs`, `WorkspaceProofs` | theorems | TLAPS |

Operators that begin with "Mutant" in their comment are plausible bugs of the
definition after them. No specification uses them; substituting one must break
the property that `PROJECT.json` pairs it with.

### ComputerControl

`computers`, `entry` and `locks` are the Maps and the record objects (which
survive in the closures of queued work when the Map moved on). A request goes
`idle -> queued -> calling -> replying -> answered`, or is `abandoned` when its
fetch failed while the call may still act. A record and its capability are
named after the request that minted them: hashing and comparing
capabilities is equality of those names. `call.under` is the capability a request
came with, whatever the record says; a pruning's adopting destroy comes with none.
`Refusal` and `Admit` are `#entry`; `HasTurn` and
`Settle` are `#lock`; `Begin...` and `...Returns` are each operation's code
before and after its await; `Rakazo...` is the far end. Exec, readFile, writeFile,
observe and browser have one control flow and are `Command`. `BridgeRestarts`
loses Maps and waiting requests, not the calls already sent. `MachineSuspended`
and `MachineReclaimed` are Rakazo acting alone.

For `Ownership` a request that is past `#entry` is work at a computer, with the
capability it presented, and its task is a teardown or not. Work starts only for who
presents the holder of that moment; only a teardown may come without (`Adopt`).

Assumed of Rakazo: container ids are never reused, a known bot identity gets its
machine back, a gone machine answers 404 (or a non-zero exit that says so).

### BridgeView, Scope, RakazoPlugin

`BridgeView` shows a request as one step, except a create: it provisions, then
installs its capability, and a destroy may come between, as in `ComputerControl`.
That this is what the bridge does to its callers is checked and proved
(`ImplementsBridgeView`): `container` is the bot's live machine, `opens` the Map of
records, `creating` the create whose answer is on its way back to the bridge. Its
`Listed` leaves out a container that is dead at Rakazo while its record still says
running: deleting one of those again is without effect.

`RakazoPlugin` has one action per stretch of JavaScript: `Create`, `Use`,
`Destroy` up to the fetch (scope and capability looked up at once), the bridge's
steps, and `Returns` or `CallFails`. `deletes` holds the DELETE requests of
releases and of pruning, unordered, since nothing depends on their order.
`Load` is `apply`, with pruning where the composition can list sessions;
`PruneReadsSessions` and `PruneReadsList` are the two reads of `pruneAbandoned`.
The row config is chosen once: a reload keeps it. A pruning goes on through an unload;
one is under way at a time, so a reload beside it starts its own in its place or
starts none. `BridgeRestarts` takes away
every answer under way, more than an orderly stop would. Agents, the session store and
the death of the process are the harness's, external: a conversation may begin before
the store knows of it (`Late`, `StoreLearns`), so that its lineage becomes known later, and a
session that the store forgot is not opened again. `Inline` are the sessions whose agent
carries the header; `Bare` those whose agent has no session object, whose scope is named by
the agent's own id (`index.js:100-104`) and who get no screen (`:133-134`).
`IsPrincipal` has one notion of having no parent, where `index.js:612-613` tests for
`undefined` and `scopeKeyOf` for a string that is not empty: the two differ for an
empty `parentSession` only.

### Providers

`promise` and `record` are the two forms of an entry in `computers`. A waiter gets
what the promise it found gives, later, whatever the map holds by then. Calls carry
a session and whether they come with its sandbox policy: stat, read and list do
not, so they are calls on the default scope (`BotOf`). Bridge restarts, failed
fetches and aborts are actions. A failed create's request may still arrive at the
bridge; nobody else holds a capability it could rotate, so it is dropped.

### Harness

The two share no state of their own: `Harness` gives both the bridge's variables
and one session store, takes a step of either, and lets a native call come only
from a session whose agent is open. `MadeFor` is the identity a container was
provisioned for, by either path. A restart of the bridge is one step of both; failed
calls are in `RakazoPlugin` and `Providers`, each for itself, and so is the death of
the process in `RakazoPlugin`.

### FsRakazo

A text is the set of calls whose change it holds, so a lost update is a missing
mark; its size is the number of marks and its time whole seconds, so that versions
collide as `size:mtime` does. A listing's version, with fractions of a second,
equals no stat's. `touched` is a history variable: calls whose file
changed since they looked last. Line endings, decoding and the search for the
string to replace are abstracted to "the read may be refused".

### Workspace

A path is its segments and what stands before them: the workspace's root, another
root, or none; `""`, `.` and `..` are segments like any other. A name with a backslash
(`Backslashed`) occurs in a listing only, where it is one name; `Slashes` is the
`replaceAll` of `workspaceRel` and of `relativePath`, which makes several segments of it
(`Slashed`). A path that somebody writes is in the model what that conversion leaves
of it. A name with a tab or a newline, at which `listDir` splits what `find` prints, is
not in the model. `WorkspaceRel` is
`workspaceRel`, `Resolve` the file provider's `resolve` with its working directory,
`RelativePath` the bridge's `relativePath`. `Walk` and `Kept` are the two loops over the
segments. The reference it is compared with (`Lexical`) counts depths and never walks. A behaviour names a file and then uses the path it was
shown for it, or that of a listing's entry, from any directory; it resolves to what the
code makes of it then, which for a name with a backslash is another file.

## The runs

| Run | Instance | Shows |
| --- | --- | --- |
| `bridge_safety` | 2 bots, 2 containers, 4 requests, symmetric; each presents a capability, the current one or not, or adopts | `Serialized`, `TerminalMeansGone`, `DestroyAnsweredMeansGone`, `ListShowsEveryLiveComputer`, `TerminalIsFinal`; refines `Ownership` and `FifoLock` |
| `bridge_liveness` | 1 bot, 2 containers, 3 requests | every request is answered or lost with the bridge; refines `BridgeView` |
| `promise_lock` | 2 keys, 4 jobs | the Map loses no waiting job; the promise chain is a fair FIFO lock |
| `plugin_sessions` | Lead without a session object and teammate, 2 tool calls, a sharing, a keeping and an account row; failing calls, death of the harness, unloads, prunings, lineage lost or known late; restarts of the bridge under the account row | scopes never mix, an exit deletes its own scope's computers only, open sessions on one computer have a screen each unless the code has no name for it, no release ends an account's or a kept machine |
| `plugin_closed` | default row, no failures | violation: a closed conversation leaves a container, and only a later pruning ends it |
| `plugin_prune_race` | default row, no failures | violation: pruning deletes a live session's computer |
| `providers` | 3 sessions, 3 lineages, 2 calls, a sharing row | one create per identity, Team root, agreement with the plugin, every call ends |
| `providers_restart` | one Team, bridge restarts only | violation: the cached record is refused for ever |
| `harness` | Lead and teammate, 2 tool calls, 2 native calls, a sharing row, restarts of the bridge | both paths work on the computer of the caller's identity; a native call is refused only for a later create of the plugin or a restart |
| `harness_rotation` | as `harness`, 1 call of each path, no restart | violation: the providers' cached capability opens nothing |
| `workspace_paths` | paths of up to 4 segments, with and without a root, working directories of up to 2, 2 plain names, 2 listed ones with backslashes | a path means what it says or is refused; a shown path and a key name the same file again, but for a backslash; containment; where providers and bridge agree |
| `fs_guards` | 2 calls, 2 computers, 2 seconds | the guards hold but for the window between check and write; an edit keeps what came before its read |

### Bounds

Nothing is counted without bound: a request or call is used once, so their number
bounds a behaviour. Four requests at the bridge are a create, one that resumes,
and two others on the computer: the least in which a stale record, a late answer
and a queued successor meet. Two calls in the plugin are a create and a resumption
or a create and its destruction, with every order of disposal, reload, crash and
pruning around them; in the two-session Team the Lead's agent has no session object and
the teammate's no header, so that its lineage comes from the store alone, which may
know it late (a session without a parent has no lineage to learn) or lose it. Beside
steps of the plugin the bridge restarts under the account row (`Restarts`) and, under the
sharing one, in `harness`. One row of each kind suffices: `account` overrides the rest,
and `keep` matters to a release, which `share` only narrows. Two calls in the providers
are a creator and a waiter, or a creator and a user of the cache. `MaxHops` is 4 instead of 32:
three sessions close any cycle within three hops. `LastSecond` is 1: equal and
different seconds both happen. In `harness` two calls of each path let either one
provision, rotate the other's capability and be rotated in turn. Four segments
hold a name, a climb above the root, the way back and a dot; one of the two names
begins with two dots. Of the names with a backslash one goes below what it stands in
and one, beginning with two dots, goes above it. Where `PROJECT.json` gives no bound, there is none.

Deadlock is not checked in runs whose calls simply run out.

### Fairness

`bridge_liveness` assumes weak fairness of the bridge's own continuations (the
event loop runs a settled promise) and of `TimesOut`: each fetch has an
`AbortSignal.timeout` (`api-client.mjs:39`). It assumes nothing of Rakazo, which
may never answer, nor that anybody restarts or stops restarting the bridge.
`promise_lock` assumes that jobs which can run do and that they end, which
the timeouts give. `providers` assumes that continuations run and that each fetch
is answered or fails (`providers/bridge.js:105`); the bridge itself may be silent.
The plugin has no liveness property: what it would promise after a failure is
what `plugin_closed` refutes without one.

### What the violations say

- **`plugin_closed`** — `plugin/index.js:11-12`: a disposed agent's session leaves no
  running container. `rakazo_computer_create` does not look again after its await
  (`:248`) whether the session is still there. Once the store has forgotten the session, a
pruning at a later load ends the container; nothing else does. A refused or failed delete (`:225`,
  `:577`) leaks too; the run has no failures, to show that none is needed.
- **`plugin_prune_race`** — `plugin/index.js:664-665` reads sessions before computers.
- **`providers_restart`** — `docs/deployment.md:94-95` calls a restart always safe.
  `ensureComputer` never drops a record (`providers/bridge.js:155`).
- **`harness_rotation`** — `providers/bridge.js:149-151` caches the record "so every
  provider in this process shares one live capability for the identity". A
  `rakazo_computer_create` of the identity rotates it under them; the other way
  round the plugin's is gone, and its release is refused.

### What else disagrees with a text

Read off the code while modelling; no run of its own states these.

- **Kept computers are pruned.** `README.md:184-187` and `docs/contributing.md:85` say that with
  `keep: true` a computer whose session disappears is never destroyed by the plugin.
  `pruneAbandoned` (`plugin/index.js:645-678`) looks at no row but the account and deletes
  it at the next load. `ReleasesSparePersistentComputers` says what does spare a kept
  computer, disposals, unloads and their deletes, and admits pruning by name
  (`EndedByPruning`).
- **A screen for each teammate.** `screenIdFor`'s comment (`index.js:119-128`) says that
  a member's screen is unique. It names a member after `session.id` alone, where
  `scopeKeyOf` falls back to `agent.id`: agents without a session object that share an
  account's or a Team's computer are all given the computer's own display, the
  principal's too. `ScreensAreDistinct` is stated but for these.
- **A backslash in a listed name.** Linux allows it, and `listDir`
  (`fs-rakazo.js:355-363`) makes key and shown path of the name as `find` prints it;
  `workspaceRel` (`bridge.js:222`) and `relativePath` (`computers.mjs:55`) read it as a
  slash. A listed `a\b` is reached by neither: both lead to `b` below `a`, or are
  refused; stat and list, which hand the key to a command unconverted, do reach it.
  `TargetKeepsItsMeaning` states both cases.
- `relativePath` (`computers.mjs:52-59`) strips a leading slash where its comment and
  `docs/security.md:103` speak of rejecting absolute paths. The file provider maps
  `/home/rakazo/x` to `x`; `rakazo_file` and the shell's `workdir`
  (`shell-rakazo.js:144`), which go past that mapping, mean `home/rakazo/x` below the
  workspace. `BothRulesAgree` states that difference, and that there is no other.
- After a create that failed, the providers keep its promise: every later call of the
  identity fails without asking the bridge again (`providers/bridge.js:166`). No text
  promises a retry.
- Stat, read and list come without a session and go to the default computer
  (`fs-rakazo.js:274` and its likes); `docs/contributing.md:56-57`.
- The providers walk to the Team root under every row, the plugin only under `share` and
  one hop; `TeamToolsShareComputer` is about the sharing row and two levels, where the
  two are to agree. Lineages of more than 32 hops end anywhere and are in no run.
- A command that timed out may act beside a stop or a destroy
  (`computers.mjs:12-13`): the lock ends with the bridge's wait, not with the command.
- A create answered late may put a "running" record of a computer that is gone into
  the Map, which `list` then shows (`computers.mjs:156`). The other direction is
  `ListShowsEveryLiveComputer`.

## The proofs

All in TLAPS, for every value of the constants, from the named assumptions:
`KeysAreDisjoint` (bot and computer lock keys differ: the code prefixes `bot:`) and
`NoneIsNoValue` for the bridge; `ScopeAssumption`, `PluginAssumption`,
`ProvidersAssumption`, `HarnessAssumption`, `FsAssumption`, `WorkspaceAssumption`,
`TagsAreNoValues` and `NoneIsNoJob`, which say that sets of names are disjoint and
markers are no names, and that the harness walks at least one hop of a lineage.

### The bridge

`ComputerControlProofs`:

1. `TypeInv` is `TypeOK` and `CallOK`: a request that is pending or abandoned has an
   operation, a key and a record that fit together. `TypeCorrect` follows.
2. `Serialized` is not inductive: that the head runs says nothing of the others.
   `ChainOK` adds that a key's chain holds exactly its pending requests, each once,
   and that only its head has begun. `LockInv` is `TypeInv /\ ChainOK`;
   `SerializedCorrect` follows from it.
3. `TerminalMeansGone` is not inductive: what a record will say is decided by an
   answer still on its way, about a record object taken before the request queued.
   `RecordOK` says that this object is of the request's own computer and that records
   name machines that were born; `ReplyOK` says what each answer on its way implies
   of the machine, and that a status or stop under way has a record that is not
   terminal, which holds because of the lock: so `LockInv` is needed. `RecordInv`
   is their conjunction with `TerminalMeansGone` and `DestroyAnsweredMeansGone`.
   `TerminalMeansGoneCorrect`, `DestroyAnsweredCorrect` and, from the same
   invariant, the action property `TerminalIsFinalCorrect` follow.

`ComputerControlRefinement`: `FifoLockImplemented` and `OwnershipImplemented`: each
step of the bridge is a step of the abstract specification, or leaves its
variables alone, under the mappings in `ComputerControl`. For the second that is where
the check of the presented capability is used: the request's `under` must be the holder
when its work starts, unless it adopts.

The same for the bridge's view: `BridgeViewImplemented` needs `OwnerInv`, that a bot has
at most one live machine (Rakazo looks before it takes a fresh one), and `LockInv`,
so that the machine and the create that `CHOOSE` picks are the only ones. `ListCorrect`
follows from `TerminalMeansGone`.

`PromiseLockProofs`: `ChainReachesEveryJob` is stated without recursion: every set
of jobs that holds the last one and what each waits for holds all that have not
ended. `ChainOK` adds that nothing is chained on a job not there yet, that a running
job waits for nothing, and that the Map holds a job under its own key. A new job
joins every such set from the front; a job that ends may be added to any set, since
what it waited for had settled.

`FifoLockImplemented` of the same module: the queue of a key is the chain of its jobs
(`QueueOf`), and each step of `#lock` is a step of `FifoLock`. `QueueInv` says that the
chain is one: it holds each unsettled job once, each is chained on the one before it
and the first has nothing to wait for. Two chains that end at the job the Map holds
and have the same length are equal (`SameChain`), so the chain a step leaves behind is
the queue (`QueueIs`). This is the safety half of `ImplementsFifoLock`; its fairness is
model-checked.

### The plugin

`RakazoPluginProofs`: the four promises follow from one invariant, `PluginInv`. The
promises alone are not inductive: a capability travels from a create's answer to
`owned`, from there into a use, a destroy or a release, and each hand-over needs to
know what the one before it held. `MadeOK` says it for all at once: the container
of a bot, everything in `owned`, every container a call names and every deletion a
session's end asked for was made by a create for that scope (`Made`), and no step
ever takes that away (`MadeStays`). `CallOK` is the shape of a call, `DeletesOK` who
may ask for a deletion under which row. Then `CallerCorrect` and `ExitCorrect` are
instances of `MadeOK`; `ScreensCorrect` follows, because sessions that hold a
container in common have one scope, and screens of one scope differ but for the
principal's and those of agents without a session id (`ScreensDiffer`);
`PersistentCorrect` from `DeletesOK` and a list of the steps that end a container
(`ContainersChange`).

### The providers

`ProvidersProofs` begins with what `scopeKeyFor` computes. Its walk is a recursive
function, and induction is taken as least elements of sets of naturals
(`LeastElement`), so that no induction theorem with an operator parameter is needed.
`ScopeIsReachable`: the end of the walk is the session or an ancestor. `ScopeIsRoot`:
where no more than `MaxHops` sessions exist and the lineage has an end, it is that
end; a counting argument (`RepeatEndsAtRoot`) excludes that the hops run out.
`ScopesAgree`: with two levels the plugin's `scopeKeyOf` gives the same.

`OneCreatePerBot` becomes inductive with `CacheOK`: a promise in the map is that of the
one call that creates, and every call that ever created left its promise or a record
there. `CreatingOK` adds that a create on its way holds its bot's lock at the bridge.
Their conjunction `CacheInv` does not speak of lineages, so that it can be used where
they change. `TeamToolsCorrect` and `TeamRootCorrect` combine `ScopesOK` (the identity
of a call is `BotOf` its caller) with the first part. `TeamRootCorrect` assumes at most
`MaxHops` sessions: the code gives up after 32 hops, and beyond that the claim is false.

### The two in one process

`HarnessProofs` uses both components' lemmas by `INSTANCE`, after showing that these
instances are the ones `Harness` composes (`SamePluginSteps`, `SameNativeSteps`).
Neither invariant survives a step of the other component: `MadeOK` says that the
plugin made every container, `CreatingOK` that the bridge's locks are the
providers'. So `HarnessInv` keeps of each what is its own (`PluginP!CallOK`,
`NativeP!CacheInv`) and restates the rest for both: `LocksOK` (a create of either path
that is on its way holds its bot's lock), `BridgeMade`, `PluginMade` and `NativeMade` (the
container of a bot, what `opens` gives out for it, and what a call of either path
names were made for one identity, by whichever path). A create's identity never
changes afterwards (`MadeStays`). `OwnComputerCorrect` is what the three say about each
call. `RefusalCorrect`, an action property, adds `NativeMadeByOne`: the providers made
one create of an identity at most, so that a capability of theirs which differs from
the cached one cannot exist.

### The file provider

`FsRakazoProofs`: the guards are not inductive, because a write acts on what its
probe saw in an earlier round-trip. `KnowledgeOK` says what a call that is on its way
still knows of its file, unless the file changed since it looked (`touched`), and
`MarksOK` that only calls whose write was sent and not refused have left their mark, also
in texts other calls have read. `GuardCorrect`, `CreationCorrect` and `EditCorrect` rest on
the first, `RefusedCorrect` on the second.

`WorkspaceProofs`: paths and working directories of every length. `Walk` and `Kept` are
recursive functions; `Recursion` shows that such a function has values and `WalkSteps`,
`KeptSteps` unfold them, all by induction over a set of numbers (`Induction`). (A fold, or
`SelectSeq`, takes an operator, and what it computes could not be proved.)
`FollowIsLexical` is the heart: by induction along a path, either it has gone above the
workspace at some segment and the walk is `Outside` (`Gone`), or every level of where the
walk is was reached by a segment that the path never went below again (`Inside`). With
`FollowOn` (taking a path from where another one leads is taking the two in a row)
`LexicalCorrect` follows. `MeaningCorrect` has two halves. A path of
plain names leads to itself (`FollowNames`) and passes the bridge's rule unchanged. A name
with a backslash becomes segments none of which has one (`SlashesType`, by induction along
the concatenation), so neither rule can give the name back; and what the bridge's rule
does not refuse of them is where the walk leads (`SentIsFollow`).
`ContainsPathIsPrefix` turns the first segment of the way between two directories into
a statement on their longest common prefix (`SharedIsPrefix`), and `KeptIsFollow` says
that what the bridge's rule does not refuse is where the walk leads; `KeptBelow` adds the
root's two names in front, for `RulesCorrect`.

### Only model-checked

Every invariant and every action property of a passing run is stated by a theorem.
Model-checked alone are the liveness properties (`EveryRequestIsAnswered`,
`EveryCallEnds`, the fairness in `ImplementsFifoLock`): liveness under fairness and
`ENABLED` are beyond the provers in use. The violations are counterexamples TLC finds.
No module declares a RECURSIVE operator.

## Not modelled

- Payloads, file contents, byte ranges, argv, limits, error texts and HTTP status codes
  except 404 and 403; the bearer token check; request parsing (`server.mjs`).
- The decoding of a text, its line endings, and the search for the string an edit
  replaces (`fs-rakazo.js`).
- `config.mjs`, `configure`'s reading of files, the attachments of an observation, tool
  schemas: read once or without effect on state.
- The plugin's read-only list tool. A second instance of the plugin in one process.
- Failed calls and the death of the process in `Harness`: failed calls are in
  `RakazoPlugin` and `Providers`, the death in `RakazoPlugin`; the providers have one
  life of the process, since nothing of theirs survives it.
- `dist/`, an older copy of the plugin; tests, scripts and patches, which were
  read for what they promise.

## Plan

Done: the bridge with its abstract specifications; the plugin, the providers and the
file provider over the bridge's view, and that view shown to be the bridge's; the
plugin and the providers in one process; paths; a proof of every safety property the
passing runs check.

Left, in order:

1. More faults in `Harness`: failed calls, the death of the process, pruning beside
   the providers' default scope; `HarnessInv` then needs what `PluginInv` says of
   `deletes`.
2. The rest of `PluginInv` over `Harness`: `ScreensAreDistinct` and
   `ReleasesSparePersistentComputers` where native calls provision too.
3. Three-level lineages in `RakazoPlugin`, once a document says what should happen to
   the computer of a helper's helper.
