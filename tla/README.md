# Verification of corteza-server

TLA+ models of the parts of corteza-server that keep shared state and run
concurrently, TLC runs on small instances, and TLAPS proofs for every value of
the constants. `PROJECT.json` lists the components, the runs, the source lines
every definition stands for, and the hazards the properties are aimed at.

## 1. Inventory

corteza-server is a Go server for low-code applications. Of its 1.4 million lines
about a million are vendored, and much of the rest is generated (store
adapters, REST handlers, access-control wrappers) or store-backed CRUD. The
logic of its own that is hard to get right is in the automation engine and in
the shared services under it.

| part | state it keeps | operations | what is hard |
|---|---|---|---|
| workflow execution engine, `pkg/wfexec` | one session: `State` structs, queue `qState`, crash channel `qErr`, maps of delayed and prompted states, result, error, join gateways, loop stacks | `NewSession`, `Exec`, `Resume`, `WaitUntil`, `Cancel`, `Stop`, the worker loop, one goroutine per executed step | blocking sends under the session lock, status read and used later, resumed states, shared slices, order of completion |
| session service, `automation/service/session.go`, `automation/types/session.go` | pool of running sessions, spawn queue, the stored session | `Start`, `Resume`, `spawn`, `Watch`, `gc`, `stateChangeHandler`, `WaitResults` | garbage collection races the handler that stores the outcome; two locks |
| workflow converter, `automation/service/workflow_converter.go` | none | definition to graph | which paths a step gets, error handlers, gateways |
| workflow and trigger services, `automation/service/workflow.go`, `trigger.go` | cache of workflows and graphs, triggers registered on the bus | `Create`, `Update`, `Delete`, `Undelete`, `Load`, `Exec` | store, cache and bus are three copies of the same fact |
| event bus, `pkg/eventbus` | handlers under a read-write lock | `Register`, `Unregister`, `Dispatch`, `WaitFor` | handlers run with the read lock held and may fire events or register |
| scheduler, `pkg/scheduler` | ticker, list of events | `Start`, `Stop`, `OnTick` | double start, ticks racing the stop |
| message bus, `pkg/messagebus` | queues, consumers | `Init`, `Listen`, `Watch`, `ReloadQueues`, `Push` | reload handshake, unsynchronised map |
| websocket server, `pkg/websocket` | connected sessions | `Open`, `Send`, read and write loops | close racing store and send |
| access control, `pkg/rbac` | rules in memory, dirty flags, roles | `Grant`, `Check`, `flush`, `Reload`, `CloneRulesByRoleID` | memory and store diverge on a failed flush; evaluation order of the rules |
| other services | corredor client, API gateway, data access layer, authentication, system, compose, federation, envoy, expressions | | mostly I/O, request handling or stateless; see `components` |

How they interact. A trigger registers a handler on the event bus; the bus calls
it under its read lock; the handler asks the session service to start a session;
the service's watcher creates the engine session, which starts its own worker;
the engine calls back into the service's state-change handler from every step
goroutine and from the worker; the handler stores the session and sends prompts
through the websocket server; a user's answer comes back through the service's
`Resume`. The scheduler and the message bus are event sources of the same bus.
Access control is consulted synchronously by all services.

### What makes each part correct

* **Engine**: a state is in one place at a time and is not lost; a join fires
  once, when all its paths are through; a session has one outcome, ends when its
  prompts are answered, fails only for a reason, and tells its handler; nobody
  waits for ever on its channels or lock, outside the cases of section 4; loops nest; towards its users it keeps
  to the life cycle of a session.
* **Session service**: the stored session ends up with the engine's outcome, a
  finished session leaves the pool, a waiting caller is answered.
* **Workflows and triggers**: the registrations know every handler there is on the
  bus; cache, bus and store agree once an operation is over; a deleted trigger does
  not fire.
* **Event bus**: a synchronous event sees one state of the registrations from its
  first handler to its last; it stops at the first error, in the order of the
  weights; every call ends.
* **Access control**: memory and store agree after a flush; what was granted
  stays granted, which the code keeps except after a failed flush (section 4); a check answers what the rules in the store mean; a clone
  makes the target's rules those of the source.
* **Message bus**: one listener or a reload that brings one, never two; no message
  of a queue that the last search found is dropped; a change of the queues arrives.
* **Websocket**: a session is closed once and leaves the server's map; a broken
  connection is noticed; `Send` is never held up for ever.

## 2. Plan

Everything below is written, checked and, where said so, proved.

1. `WorkflowSession`: the engine, with `MCWorkflowSession` for its graphs and
   `WorkflowSession_proofs`.
2. `SessionLifecycle`: what a session promises. `WorkflowSessionLife` maps the
   engine onto it; checked by a run and proved in `WorkflowSessionLife_proofs`.
3. `SessionService`: pool, watcher, gc, handler and store over the life cycle of 2,
   with `MCSessionService` and `SessionService_proofs`.
4. `EventBus`: the bus's lock with its writer preference, nested events, changes of
   the registrations, and the scheduler's ticks; with `MCEventBus` and `EventBus_proofs`.
5. `Triggers`: store, cache and bus through the calls of the workflow and the trigger
   service, with failures, overlaps and restarts; with `MCTriggers` and
   `Triggers_proofs`.
6. `RbacRules`: the evaluation of access rules as operators. `Rbac` extends it with
   the service: grants, flushes, reloads, clones and the store; with `MCRbac` and
   `Rbac_proofs`.
7. `MessageBus`: queues, the listener, the watcher and reloads; with `MCMessageBus`
   and `MessageBus_proofs`.
8. `Websocket`: the goroutines of a session, its closing, the server's map; with
   `MCWebsocket` and `Websocket_proofs`.

The composition: 3 is stated over 2, which 1 implements, so what is shown of the
service holds of the service with the engine. 4 and 5 meet in a set of handlers:
5 changes it by whole calls of `Register` and of the functions they return, and
4 shows that each such call is one change that no event sees half of.

What would come next: the filters of the API gateway and the dependency order of envoy's
import, the two parts left with some logic of their own.

## 3. The models

### The engine

`WorkflowSession.tla` models `pkg/wfexec` as the worker goroutine of one session,
the goroutines that execute steps, and its callers.

**State.** `st` and `nStates` are the `State` structs in order of allocation, each
with its step, parent, input, error flags, error handler and the length of its
loop stack. `qState` and `qErr` are the channels; `mux` is the writer that holds
`Session.mux` across a blocking operation; `delayed`, `due` and `prompted` are the
keys of the two maps; `delayedNil` says a termination has set the map of delayed
states to nil. `worker` and `run` are the program counters and locals of the
goroutines, `joined` the parents a join gateway has collected, `backing` the
array under every `loops` slice, `left` what an iterator object still has to
give, `handled` the statuses the event handler was called with, and `waiter`,
`waitDone`, `ctxDone`, `resumer` the callers and contexts.

**The loop stack.** `NewState` allocates one array of capacity 4, and `State.Next`
passes the slice on by value. All loop stacks of a session are therefore
prefixes of one array: the model keeps the array once and a length per state.

**Actions** follow the code's blocking points. The worker's `select` is
`WorkerDone`, `TickBegin` (the ticker's case, whatever there is to do), `TickLock`,
`TickEnqueue`, `TickEnd` (`queueScheduledSuspended`, which waits for the lock and then sends
one due state after the other), `Dequeue`, `TakeErr`; a final state
takes the two critical sections `FinalCheck` and `SetResult`. A step goroutine
goes through three parts: `step.Exec` (`CallLoop`, `CallStep`, `CallStartFails`,
`CallFails`, `CallPanics`, `Recover`), the resolution of the response
(`Resolve...`, one action for each case of the switch in `exec`, ending in
`Leave`), and the report (`ReadStatus`, `CheckError`, `PushError`, `Notify`,
`Enqueue`). Critical sections that cannot block inside are one step guarded by
`mux = Free`. `Rest` stands for a session in which nothing is pending, or one that hangs
in a way the code is known to have (`Keeps`: a goroutine keeps the lock for ever;
`SendsInVain`: a send to `qErr` that nobody reads). It makes the deadlocks TLC looks for
the other ones, a goroutine or a caller that is stuck in a way not named here.

**Abstractions.** Scopes, variables and expressions are left out: a gateway's or an
iterator's choice is nondeterministic, and `Faults` says which steps may fail. Of the
other sessions that run on the same cached graph only one thing is seen:
`ReachedElsewhere` adds to what a gateway in `Shared` has collected.
`Faults` covers errors and panics of `Exec` and the errors of an iterator's
`Start` and `Next`. Time is `BecomeDue`. The graph is the constants `Kind`,
`Children` and `Enclosing`. The lock is not split into readers and writers:
readers are single steps and no reader keeps it across a blocking operation
except `Exec`, whose send is one step of the model because the session's queue
is empty then.

**Bounds.** `MaxStates`, `MaxRuns`, `MaxResumes` and `Rounds` cap counters; the
runs choose them large enough that the graph's longest execution fits, so that no
execution is cut off (EndsIfAnswered would fail otherwise). `LoopCap` is
the capacity of the array, 4 in the code; nesting deeper than it makes Go
allocate a new array and is not modelled. `QStateCap` (512 in the code) is 1 or
2, `ConcurrentExec` (32) is 2: small enough that full queues and exhausted slots
happen.

**Fairness** (`FairSpec`): weak fairness of the worker, of "some step goroutine", of
a caller that is inside `WaitUntil` or `Resume`, and of time. The Go scheduler
runs every runnable goroutine and the ticker fires. Nothing obliges anybody to
call `Exec`, `Wait` or `Resume`, a user to answer, or a context to end.

### The life cycle and the session service

`SessionLifecycle.tla` is the engine as its users see it: for each session an
outcome, the pending prompts and delays, whether its lock is held across a
blocking operation, and for each of its goroutines the report it is about to make:
none, due, or the status it has read. `WorkflowSessionLife` instantiates it with
the engine's variables: the outcome from result and error, a goroutine's report
from its program counter and the status it read, the worker as reporter 0.
`ImplementsLife` says that every behaviour of the engine is one of the life cycle.

`SessionService.tla` models `automation/service/session.go` with
`automation/types/session.go` over several such sessions.

**State.** `pool` and `row` are the map of running sessions and the fields of
`types.Session` that say how one stands; `stored` is the store's copy. `mux` and
`resuming` are the writer and the reader of the service's `RWMutex`, `handling` and
`todo` how far the handler or the collector that holds it has got. `start` and
`waiter` are the callers in `Start` and `WaitResults`, `told` what the latter
returned, `watcher` the goroutine of `Watch`. `sent` is the mark on a prompt;
`times` counts how often it was written to the connections of its user and is only read
by a property.

**Actions.** `Start`, `WatchSpawn`, `StartPool`, `StartExec` (or `StartRefused`, when
the caller's context is done) are the two ends of the spawn queue and what `Start`
does after it. The handler is `HandleMissing`, `HandleActive`, or `HandleEnter`,
`HandleSend`, `HandleStore` with the lock held throughout. `HandleSend` marks every pending
prompt and then hands it to the websocket server; any of them may arrive or not, because
the error of `Send` is only logged, and a user without a connection and a failed write
(`pkg/websocket/server.go`) are not even an error. Nothing takes the mark back. The collector is
`GcBegin`, one `GcVisit` per session, `GcEnd`. `ResumeBegin`, `ResumePrompt`,
`ResumeEnd` hold the lock for reading across the engine's `Resume`. `WaitUntil` and
`WaitReturn` are the two readings of the status in `WaitResults`. `Engine` is any
step of the life cycle between two calls of the handler.

**Abstractions.** Calls of `Start` that are refused before the spawn queue change
nothing and are left out. An active session is stored every 1000th frame: here,
nondeterministically. The error message, the stack trace, the timestamps'
values and the types.Session lock `l` (always taken for reading once `Start` has
returned) are left out. There is one resuming caller at a time. The timeout of a
waiting caller is an engine matter and is in `WorkflowSession`.

**Bounds.** The tokens of a session are the states it can suspend; a token may be
suspended again after it was resumed, so no execution is cut off. One or two step
goroutines besides the worker are enough for reports that overtake each other.
The runs have one session: sessions meet only at the service's lock, whose holders
one session with its goroutines already supplies, and the safety properties are
proved for any number (section 5).

**Fairness** (`FairSpec`): strong fairness of whoever waits for one of the two locks,
which others take again and again: `sync.RWMutex` gives it to each of them in the
end, and the watcher's `select` picks a ready case at random. Of the engine only that
a goroutine goes on to read the status it reports. The liveness properties
assume `EnginesRelease`, that no engine keeps its own lock for ever: in the engine model
a step that fails after another path completed the session blocks in `PushError` for
ever with the lock held (nobody reads `qErr` any more), and every later `Status` blocks
with it.

### Access control

`RbacRules.tla` is the evaluation of a check (`ruleset_checks.go`, `roles.go`,
`resource.go`): `matchResource`, `level`, the roles of a session by kind, and
`evaluate`. Go's maps and a sort that is not stable leave the order of equally specific
rules open, so an evaluation is a set of possible answers. A resource is the
sequence of references behind its type.

`Rbac.tla` is the service. **State**: `heap` holds the rule objects by generation,
`rulesAt` and `indexedAt` say which generation `svc.rules` and `svc.indexed` point into
(they differ: `flush` replaces the rules by copies and leaves the index), `roles`,
`store`, `lock`, and the call each client is in. **Actions**: `Grant` (merge and
index), `Flush`, `DeleteRules`, `UpsertRules` or their failures after any number of
statements, `Reload`, `UpdateRoles`, the three parts of `CloneRulesByRoleID` (`find`,
the writes through pointers without the lock, the grant), and `Import`, which
stands for code that writes rules to the store itself and reloads later.

**Ghosts.** `promised` is what callers were told, of every key, `untracked` the keys whose
pending change the code itself loses track of, `foreign` those written behind the service.
The last two are exceptions that `CacheMirrorsStore`, `GrantDurable` and `CloneExact` name in
their formulas: a grant repeated after a failed flush returns no error, and is not in the
store (`ruleset_utils.go:28`). What was promised of such a key ends with the next reload, which
undoes the grant. A key that somebody else changes during the very grant is not promised to
either of the two.

**Abstractions.** The merge reads the new rules before it writes the base; that is the same as
the code's order while no pointer of the new rules is one of the base's that it writes before
reading, which holds for clones whose targets differ (`ClonesAssumption`). With a target named
twice the code would compare a copy with itself; that is left out. Into an empty base the code
puts the caller's own objects, the model new ones. The writes and copies of a clone for one
target are one step where the code makes one per rule; the properties speak of one key at a
time. An anonymous session's roles are in `RbacRules`; the run has none.

**Bounds.** Two roles, one operation, three patterns (one resource and two wildcards of
different level), two clients, three calls. Two calls are enough for every
overlap, the third meets the state that the first two left behind. Six generations are
more than are ever in use at once.

### The event bus and the scheduler

`EventBus.tla`. A goroutine is a **stack of calls**, because a handler may fire an event
of its own inside `WaitFor`, which holds the lock for reading while it runs its handlers.
`writer` is whoever waits for, or has, the lock for writing: a waiting writer keeps new
readers out, as Go's `RWMutex` does. **Actions**: `WaitFor`, `Handle`,
`WaitForReturns`; `Dispatch`, which starts a goroutine for each handler and lets go of
the lock; `Fire` and `Return` of a handler; `Announce` and `Apply` of a registration or
its removal; `Tick`, the scheduler's round, in goroutines that may overlap the previous
ones. Which handler wants which event is the relation `Matching`; what it does is
`Body`.

**Bounds.** Two callers, three goroutines, three calls and one tick, four handlers of three
events. The instance has no handler that fires a synchronous event inside `WaitFor`:
with one, and a registration between the two read locks, goroutines wait for each other
for ever (`eventbus.go:66`, the code does this). **Fairness** is weak fairness of
"some goroutine takes a step", which is less than Go gives.

### Workflows and triggers

`Triggers.tla` has one workflow and its triggers. **State**: `wf` and `triggers` in the
store, `cache`, `reg` and `bus`, the three copies in memory, and the call each client is
in. **Actions** are the pieces of a call that others can come between: `Read`,
`Validate` (or its failure), `updateCache`, `Search`, `Unregister`, `Register`,
`Write`, and `Fails` where a search, the run-as user or the store fails. `save` is
`Update`, `DeleteByID` and `UndeleteByID` of the workflow, `create` its `Create`,
`load` the `Load` of one workflow, `add` and `edit` the calls of the trigger service.
A server starts, at first and after every `Restart`, with nothing in memory and the call `boot`,
a `Load` through the same steps, before it takes others; it may be cut off again. `synced` is a ghost: it says that the
last calls neither failed nor overlapped. A handler has an address that is free, which
abstracts from addresses that are used again.

**Bounds.** Two clients, two triggers, three versions of which one does not convert and one
leaves a trigger without a run-as user, three calls from three states of the store.

### Message bus

`MessageBus.tla`. The three channels are unbuffered, so a send is one step with its
receive: `Quit` (reloader and listener), `Reload` (reloader and watcher), `Take` (pusher
and listener). The watcher's `Init`, `initQueues` and `Listen` are `Search` (or
`SearchFails`, whose error is dropped), `EmptyQueues`, `FillQueues`, `Listen`, because
the listener reads the map without the lock. `Change` is any call of the queue service
with the goroutine of `ReloadQueues` it starts. `Consume` and `ConsumerFails` are the
consumers. `CtxDone` is the shutdown. The search at boot may fail too and leaves no queues
(`Init`). `searched` is what the last search that succeeded found; `KnownQueuesServed` asks
that a dropped message's queue was not in it, and allows for a queue that has been created
since. So a search that fails, or a reload under way, excuses nothing that was known.

**Bounds.** Two queues of which one is created later, two messages, two changes, one failed
search, two names for listeners (there is never more than one); one implemented consumer,
the one that may fail, and one that is not implemented. **Fairness**: weak for the watcher and the
listener, strong for each branch of a `select`, which picks among those that are ready at
random.

### Websocket

`Websocket.tla` has for each session its reader, its writer and the timer that closes
unidentified sessions, the session's lock (readers, and a writer that keeps new readers out
while it waits), the server's map under `l`, and `Send`. Reading keeps the session's
lock until there is a message or the deadline passes; closing has to wait for it.
`Close` runs `disconnect` and `RemoveSession` inside a `sync.Once`; the others wait.
`late` is a ghost: sessions closed while the reader was processing credentials, which
the reader puts into the map after `Close` took them out (`session.go:222`).

**Bounds.** The run has one session with its three goroutines and a sender; sessions meet
only at `l`, and the safety properties are proved for any number of them. **Fairness** is
strong fairness of each goroutine: they run, and a Go mutex starves nobody.

## 4. Runs

Every run finishes without a bound being reached that cuts off a behaviour of its
instance, other than the bounds named in section 3.

| run | instance | checks |
|---|---|---|
| `session_paths` | four workflows in one graph, one is started: two delayed paths joined again; the join started by itself, which is refused; every way a path can end badly beside a prompt and a termination; nested iterators with break, continue and failing `Start` and `Next` | `OnePlace`, `NoStateLost`, `JoinSynchronises`, `LoopStackNests`, `NavigationSafe`, `EndsIfAnswered` |
| `session_callers` | a step that fails or panics under a handler that fails too, beside another path; a join one of whose paths is never taken; a fork with a prompt, or with a delay; more paths than the queue of two has room for; a join that another session has reached; a failing step beside one that fails or completes the session; a delay before, beside or after a termination; callers that wait, give up or cancel and contexts that end at any point, each from the starts its constant names | `TypeOK`, `FailureIsGenuine`, `LockDiscipline`, `OutcomeFinal`, `ImplementsLife`, `FailureReported`, `WaitAnswered`, `WorkerStops` |
| `service_one` | one session, two step goroutines, a state that can be prompted and delayed, a waiting caller, a store that may fail, a watcher that may stop | `TypeOK`, `CompletedIsGenuine`, `SentOnce`, `WaitedForOutcome` |
| `service_live` | one session that prompts, a store that may fail, fairness | `PromptOffered`, `PoolDrains` |
| `rbac` | two clients that grant, clone, reload and change roles, failing stores, foreign writes | `TypeOK`, `CacheMirrorsStore`, `GrantDurable`, `CheckMeansStore`, `CloneExact` |
| `eventbus` | synchronous, asynchronous and nested events, changes of the registrations, a tick | `WaitForSeesOneRegistry`, `FailsOnFirstError`, `CallsEnd` |
| `triggers` | a server that starts, calls of the workflow and trigger services that overlap, fail and are cut off by a restart | `TypeOK`, `RegTracksBus`, `BusMirrorsStore` |
| `messagebus` | two messages, two changes of the queues, a failed search at boot or later, a shutdown | `TypeOK`, `OneListener`, `KnownQueuesServed`, `QueuesFollowStore`, `PushesEnd` |
| `websocket` | a session whose peer may go at any point, and a sender | `TypeOK`, `ClosedAreRemoved`, `BrokenAreClosed`, `SendEnds` |

Three runs exhibit what comments in the code promise and the code does not do:

| run | what happens |
|---|---|
| `session_suspended` | a prompt is registered between the worker's check of the status and its setting of the result: the session completes with a pending prompt |
| `session_shared` | another session of the same workflow has reached the join gateway: in this one it goes on as soon as the first of its two paths arrives |
| `triggers_deleted` | a trigger that is deleted goes on starting its workflow until the workflow is saved or the server restarts |

The four constants `MayWait`, `MayCancel`, `MayAbandon` and `MayShutdown` are sets of
starts: which sessions of a run have a waiting caller, one that gives up, a resuming
caller that does, and a worker whose context ends. They keep the product of graphs and
callers small; the proofs hold for any sets.

Symmetry (of clients, of step goroutines) is used in the runs with safety properties
only. Deadlock checking is on for the engine, `rbac` and `triggers`. It is off for
`service_one`, `eventbus`, `messagebus` and `websocket`, which may come to rest: the
watcher stops, the calls are used up, the server is shut down, every session is closed.
There the liveness properties say that nobody is stuck.

In the delayed workflow of `session_paths` the queue has room for both delayed
states: with one slot the tick blocks on a send that only the worker, which runs the
tick, could make room for.

### Behaviours met on the way

These are in the models; a property that excludes them says so in its comment.

* Engine: the workflow service caches one graph per workflow and a join gateway keeps
  what it has collected, so that from the second session on it joins nothing
  (gateways.go 66; `JoinWaits`). A step that fails after the session has ended, or after another
  error, blocks with the session lock held (session.go 531), and with it every `Status`, so that a
  waiting caller hangs; a worker that takes its ticker's case then waits for that lock (592), and
  one that stops with an error left in `qErr` blocks in its own `Stop` (582). `session_callers`
  reaches all of them: `WaitAnswered` and `WorkerStops` name them as their exceptions, as
  temporal formulas (the third of `WaitAnswered` is the session of `session_suspended`, whose
  status stays "prompted"), and TLC shows that there is no other way to hang. A delay executed
  after a termination panics with the lock held, and it is not released (775). Iterators on parallel paths overwrite each other's entry in
  the shared array under their loop stacks (state.go 91, 112). An error handler armed before
  a loop and reached from inside it runs with that loop on its stack: when the handler's path ends, the
  session goes back to the iterator (session.go 686, 826). A caller whose context is
  done just as the session ends blocks for ever in `Cancel` (577). A termination step
  ends a session with a pending prompt only when the prompt is answered (762).
* Session service: a prompt that `Send` loses keeps its mark and is never sent again (457, 459):
  `PromptOffered` promises that every prompt is handed over, not that it arrives. A failed session can leave the pool before the failing goroutine has
  reported, and the failure is not stored (418, 426). A report read before the
  completion is stored after it (409, 444). `WaitResults` reads the status again and can return
  "prompted". A `Start` after the watcher has stopped never returns.
* Access control: a grant repeated after a failed flush finds the same access in memory
  and is taken for flushed (ruleset_utils.go 28): the caller is told that it is done, it holds in
  memory, and the next reload undoes it. A clone whose targets include its
  source wipes the source. A clone that fails can leave two rules of one key behind; a
  later clone of that role brings the key twice, the merge compares the two copies with
  each other, finds them equal, and the rule is granted in memory and never written
  (found when `CloneExact` was to be proved; it now leaves such keys out). The test `len(rolesByKind) > 1` is always true, the map having
  every kind (ruleset_checks.go 13). Contradicting rules of one level are decided by the
  order of a map.
* Event bus: a handler that fires a synchronous event inside `WaitFor` and a
  registration at that moment block each other (eventbus.go 66). Handlers of `Dispatch` may
  run after they were unregistered. The scheduler's loop does not end with its
  context (scheduler/service.go 150).
* Triggers: a workflow saved with issues keeps its former handlers. A trigger created while
  its workflow is saved can lose its registration. A write that fails leaves cache and
  bus ahead of the store.
* Message bus: with the bus disabled, `ReloadQueues` leaves a goroutine behind that waits
  for ever. The queue service accepts consumers that the bus does not implement.
* Websocket: a session closed while its credentials are processed is put back into the
  map and stays there (session.go 222).

## 5. Proofs

`WorkflowSession_proofs.tla` proves, for every graph, every set of users and
every bound (assumptions `GraphAssumption`, `CallerAssumption`,
`BoundAssumption`):

| theorem | property |
|---|---|
| `Invariant` | `[](Inv /\ Aux)`, the inductive invariant |
| `TypeCorrect` | `TypeOK` |
| `Navigation` | `NavigationSafe`: no nil step is followed, `loopEnd` never panics |
| `OnePlaceAlways` | `OnePlace` |
| `OneOutcome` | `OutcomeFinal` |
| `LockHeldByItsOwner` | `LockDiscipline` |

The argument. `Inv` is `TypeOK /\ NavigationSafe /\ Located`. `Located` says there
is a function `loc` that gives every state one place (queue, worker, delayed,
prompted, resumer, next-list of goroutine r, executed by goroutine r) and that
every container holds only states whose place it is. It is needed twice. It is
the induction-friendly form of `OnePlace`, which counts and is hard to carry
through a step. And it is what makes `NavigationSafe` inductive: a goroutine that
is about to pop the loop stack relies on no other goroutine executing the
same state and popping it first. Each action either leaves all places alone
(`QuietInv`, `WorkerInv`, `CallerInv`), moves one state (`Move`), or executes one
and creates others at unused numbers (`LeaveInv`). `Aux` adds that nothing exists before
`Exec`, that a goroutine that queues has something to queue, and that
goroutine numbers above `nRuns` are unused. `OnePlaceAlways` follows because the
sets `Places` counts are disjoint and each has at most one element
(`LocatedOnce`). `OutcomeFinal` and `LockDiscipline` have small invariants of
their own on top.

`WorkflowSessionLife_proofs.tla` proves, from the same assumptions, what becomes of
states, errors and gateways, and that the engine implements the life cycle:

| theorem | property |
|---|---|
| `NothingLost` | `NoStateLost` |
| `FailsForAReason` | `FailureIsGenuine` |
| `GatewaysJoin` | `JoinSynchronises` |
| `LoopsNestOnOnePath` | `LoopStackNests`, of a session on one path |
| `EngineImplementsLife` | `ImplementsLife` |

They go over five shapes instead of twenty actions: a step of a goroutine
executes its state, departs from it, settles its report, queues what follows, or drops it
(`Executes`, `Departs`, `Settles`, `Queues`, `Drops`); beside these there are what begins
(`Begins`), what is launched (`Launches`) and steps that leave the states alone. *No state is
lost*: `Kept` replaces "exactly one place", which counts, by `Somewhere`, and a state leaves
its place only for another one or to be `Finished`; that the place is one is `OnePlace`.
*Failures are genuine*: `Accounted` follows an error to the session. A state that can
still be executed is `Clean`; an error, in `qErr`, in the worker's hands or in the session,
blames a state that is executed for good (`Gone`), whose flags therefore stay what they
were when the error was sent. *Gateways join*: `Joining` says that every path into a
gateway is executed `Once`, that a state exists only after its parent was `Done`, that
whatever an unshared gateway has collected was `Brought` by a goroutine that executed
it, and that two goroutines find it complete only if it was reached `Twice` from one
step. The premise that the gateway is not `Shared` is where the proof fails for the code as it
is used; `JoinWaits` is what is left without it.

*Loop stacks nest*, on one path: of the loop stack nothing is true in general, because
forked paths share the array under it (state.go 91), and a handler reached from inside a loop it
is not in takes the stack of the step that failed with it. The theorem is about any part of
the graph, closed under successors, in which neither happens (`OnePath`), and about the sessions that
start in it; TLC evaluates `OnePath` of the loops in `session_paths` (`LoopsOnOnePath`). The
invariant, `Ruled`, says that one state at most is on its way, that every iterator on its
stack is in the body of the one below (`Nested`), that the step is where the stack `Fits`, and
what a goroutine knows between the answer of a step and its resolution (`Aims`). The
work is in `ToOne`: every way out of exec leads to no step or to one that fits.

The refinement has two parts. One says what a step must do to the engine's variables to be
one of the life cycle's actions; the other goes through the engine's actions and finds for
each the one it is, or that it is a stutter. It rests on `Inv`, on `LockDiscipline` (who releases the lock
had it) and on the invariant behind `OneOutcome` (whoever sets an outcome
finds none).

`SessionService_proofs.tla` proves, for any sets of sessions, goroutines and
states (assumptions `TokenAssumption`, `ServiceAssumption`), every safety
invariant of the service, and that its lock has one holder:

| theorem | property |
|---|---|
| `ServiceInvariant` | `[]Inv`, the inductive invariant |
| `TypeCorrect` | `TypeOK` |
| `LockExclusive` | `Exclusive` |
| `StoredCompletionsGenuine` | `CompletedIsGenuine` |
| `PromptsSentOnce` | `SentOnce` |
| `WaitersSeeOutcome` | `WaitedForOutcome` |

The runs of the service have one session; these theorems are what says that more
sessions do not change the picture. `Inv` adds to the properties what makes them
inductive. `ReportsGenuine`: a report of completion on its way implies the
completion, which is why a late one does no harm, unlike a late "prompted".
`UnsentFresh`: a pending prompt without the mark was not sent since it was
registered. `Waited`: a caller that has seen an outcome can rely on it, because
outcomes are final. `Collecting`: sessions are left to be looked at only while the
collector holds the lock. The steps of the life cycle are dealt with once
(`ProgressKeeps`, `DeliverKeeps`, `AnswerKeeps`): they keep types, genuine reports
and every outcome there is.

`Triggers_proofs.tla` proves, for any sets of clients, triggers, versions and handlers (assumptions `StoresAssumption`, `AbsentAssumption`,
`EditsAssumption`, `HandlerAssumption`, `CallsAssumption`):

| theorem | property |
|---|---|
| `Invariance` | `[]Inv`, the inductive invariant |
| `TypeCorrect` | `TypeOK` |
| `RegistrationsTracked` | `RegTracksBus` |
| `StoreMirrored` | `BusMirrorsStore` |

`Inv` adds to the properties that jobs have the shape their program counter asks for and that an
identifier is created once. `StoreMirrored` is the long one: while `synced` holds, at most one
call that changes the bus is under way, and its own copy of the workflow and the triggers,
with what it has done so far, says what cache and bus are; the last step makes the
store follow. A server that starts is the case of a call that finds memory empty.

`MessageBus_proofs.tla` proves, for any queues, consumers, pushers, reloaders and
listeners (assumption `QueueAssumption`): `Invariance`, `TypeCorrect`,
`OneListenerAlways` (`OneListener`) and `KnownServed` (`KnownQueuesServed`).
`OneListener` is a token that listener, reloader and watcher pass on and is nearly
inductive by itself; `KnownServed` needs in addition that queues and `searched` agree unless the queues are being
rewritten, when nobody takes a message, and that `searched` and the store differ only if a
reload is on its way or a search has failed since.

`Websocket_proofs.tla` proves, for any number of sessions (assumption
`NameAssumption`): `Invariance`, `TypeCorrect` and `ClosedRemoved`
(`ClosedAreRemoved`). The invariant ties `once`, `closed` and the place of the
goroutine that closes together, and says who can hold either lock.

`EventBus_proofs.tla` proves, for any events, callers and finite sets of handlers, of
goroutines to start and of scheduled events (assumptions `ProcAssumption`,
`HandlerAssumption`), however deep handlers fire events in turn: `Invariance`,
`OneRegistry` (`WaitForSeesOneRegistry`) and `StopsAtFirstError` (`FailsOnFirstError`). `Inv` types the stacks and
says that every `WaitFor` on any of them, not only an innermost one, has exactly the
handlers that match now before and behind it. What the sorted list of `find` holds is
the lemma `FindLists`; a handler passing from one side of the list to the other leaves
their concatenation alone (`Passes`); only `Apply` changes the registrations, and it
waits until no stack has a `WaitFor`.

`StopsAtFirstError` needs to know what an error on a stack belongs to (`Errors`): each call
was `Made` by the one below it, the innermost one `Knows` what the call it made returned,
handlers are in the order of their weights and none but the last that ran can have
failed (`Orderly`). That goroutines can be found for the handlers of a `Dispatch`, or for the
events of a tick, is why their sets are finite: an injection of one finite set into
another no smaller one (`Chosen`).

`Rbac_proofs.tla` proves, for any finite set of keys and any clients, generations, grants,
clones, role setups and imports (the assumptions of `Rbac`):

| theorem | property |
|---|---|
| `Invariance` | `[]Inv`, the inductive invariant of types, pointers and lock |
| `TypeCorrect` | `TypeOK` |
| `MirrorsStore` | `CacheMirrorsStore`, of keys neither untracked nor foreign |
| `PromisesKept` | `GrantDurable`, of the same keys |
| `ChecksMeanStore` | `CheckMeansStore` |
| `ClonesAreExact` | `CloneExact` |

Six invariants, each proved with the help of those before it. `Inv` is about who shares
rules: every pointer in somebody's hands points to a rule that is still there, and from
one step to the next a generation in use only grows at its end and its rules keep
their keys (`Steady`), which is what makes writing through old pointers harmless for other
keys. `Books` says that the table has what the rules say (`Mirrors`), that a key has two rules
only while a grant is under way (`Twice`), and, of a flush under way, that what it has
`Taken` and what is still `Waiting` to be deleted, or is `Gone`, bring that about: it
holds between any two statements, which is why the store may fail at any of them.
`Promises` says of every key that was promised that rules, index and table show it
(`Shown`) and that no flush under way is about to write or delete it (`Safe`).

`Current` says that the index, which goes on pointing to the objects it was built from,
says of every key what the rules say while nobody clones. With `Books`, when nothing is
pending, the index then is the table, and `Evaluated` shows that going through kinds of roles
and levels of patterns finds what the most specific rows say. That the decimal `level`
orders patterns as `MoreSpecific` does (`Levels`) would be an induction over the references; it is
proved at the last reference where two patterns differ, since a sum that is ahead there
stays ahead. For it every pattern must be a sequence (`ResourceAssumption`).

`Known` says that the table has no row of a key without a rule in memory, keys that
the service lost track of included, so a key that nothing was copied for ends up
without a row. `Cloned` follows a clone through its steps, for the keys nobody else
touched: of a target it has dealt with it has a pointer to every rule, each inherits, and any
that is dirty is so by inheriting (`Cleared`); of the target at hand it has found every rule, the
dirty ones by the very objects the service still has (`Caught`); once merged, every pending
change of the key makes it what was copied last (`Settled`), and so do the
lists of the flush (`Due`). What others may do meanwhile is one relation, `Spares`: rules of
the key are dropped, replaced by clean ones, or come to inherit. The step that carries the
weight is the merge (`Applied`): the rule that inherits, found through its pointer, makes
the copy differ from it, so that the copy is marked as changed and written.

The model has one bound that is a guard, `HasFresh`: a step that makes rules waits for a free generation.

Picking from a sequence by a set of indices would ask for an induction over its length.
It is avoided: `Picked` takes the indices by rank, and that the ranks of a finite set of
numbers are exactly the numbers up to its cardinality follows from facts about
bijections (`Ranks`). What `merge` and the three lists of a flush consist of
(`Merged`, `Merging`, `Flushing`) follows from that.

Model-checked only:

* the liveness properties (`EndsIfAnswered`, `WorkerStops`, `FailureReported`, `WaitAnswered`,
  `PromptOffered`, `PoolDrains`, `CallsEnd`, `QueuesFollowStore`, `PushesEnd`,
  `BrokenAreClosed`, `SendEnds`), which need fairness and ENABLED;
* `LoopStackNests` of a session that forks: in `session_paths` no iterator is started
  beside another path, and the property is not true of every graph.

## 6. Not modelled

* In the engine: scopes and variables, the stack trace, call-stack limits, the logger and
  the prompt's payload (its sent mark is in `SessionService`).
* The converter's expressions and issues; the kinds of steps it makes and their
  successors are the constants of `WorkflowSession`.
* The scheduler's `Start` and `Stop`, called once at boot and at shutdown, and the
  matching of times.
* `Trace` and `SignificantRoles` of access control, which only read, `Clear`, and a
  service without a store, which tests use.
* Compose, system and federation services: store-backed CRUD behind access checks.
* Store adapters, REST handlers, event types and access-control wrappers: generated
  from templates; the store is an external component of the models.
* The API gateway, authentication, the corredor client, the data access layer: request
  handling and I/O whose peers are outside the repository.
* Envoy, expressions, queries and reports: parsers and encoders without concurrent state.

Most of the implementation's lines are in the last four groups. The models cover the
parts with concurrent state of their own nearly completely, and these are a small part
of the code.
