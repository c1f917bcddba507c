# A TLA+ model of the Ars framework

Ars is a C# framework for ASP.NET Core services: units of work over Entity
Framework, SignalR presence, a Redis cache, access tokens for HTTP and gRPC
clients, services found through Consul, Ocelot gateways, CAP messaging,
IdentityServer4 and hosted services. Its SignalR sample carries the JavaScript
client that talks to the hub. This directory models the parts whose correctness
depends on the order in which things happen: async frames that share an
`AsyncLocal`, transactions that are committed one after another, connections and
sweeps that race for the same entry, callers that wait for one semaphore, timers
that fire into callbacks still running, and promises of the client that are
settled by whichever of several events comes first.

Paths of the framework are relative to `src/src/`; *the client* is `signalr.js` and
`signalr-protocol-msgpack.js` in
`src/sample/ArsSignalRClient/wwwroot/lib/signalr/`, *the page* that loads it
`src/sample/ArsSignalRClient/Pages/Index.cshtml`. `PROJECT.json` maps every
definition to the lines it stands for.

1. [Inventory](#1-inventory)
2. [Modules](#2-modules)
3. [Runs](#3-runs)
4. [Bounds, symmetry and deadlock](#4-bounds-symmetry-and-deadlock)
5. [Fairness](#5-fairness)
6. [Proofs](#6-proofs)
7. [What the code does differently from what it says](#7-what-the-code-does-differently-from-what-it-says)
8. [Not modelled](#8-not-modelled)
9. [Plan](#9-plan)

To check a run: `tlc -config MCUnitOfWork_sequential.cfg MCUnitOfWork.tla`. To
check the proofs: `tlapm UnitOfWorkProofs.tla`.

## 1. Inventory

### The modelled parts

| component | state it keeps | operations | what is hard | what makes it correct |
|---|---|---|---|---|
| **Ambient unit of work** (`Ars.Common.Core/Uow`) | a static `AsyncLocal` with a mutable wrapper around the current unit of work; per unit of work `Outer`, `Options`, `_isCompleteCalledBefore`, `_succeed`, `IsDisposed` | `Begin`, `CompleteAsync`, `Dispose`, `Current` | frames of one request share a wrapper, what an async callee assigns to the `AsyncLocal` is lost while what it writes in the wrapper stays; handlers and `Dispose` both pop | the current unit of work is the innermost open one; requests are isolated; every one is disposed |
| **Filters** (`UowActionFilter`, `GrpcUowActionFilter`, `ArsCapSubscribeFilter`) | none | open a unit of work around an action, a gRPC call, a CAP subscriber | exceptions at each step | as above: they are the root frames |
| **EF unit of work** (`Ars.Common.EFCore/EfCoreUnitOfWorks`) | `ActiveDbContexts` per key, `ActiveTransactionInfos` per connection, attended contexts | get or create a context, save, complete (save all, commit all), dispose | look up, await, then write; the third save or the second commit throws; the answer of a commit is lost | no change of a completed unit of work is lost, nothing is durable before all is saved, each connection commits atomically, nothing stays open |
| **Repositories** (`Ars.Common.EFCore/Repository`) | the context they were given | insert, update, delete, save | use the context of the ambient unit of work | as above: they are what a branch does |
| **SignalR presence** (`Ars.Common.SignalR`) | clients with their `HeartTime`, in memory or in a Redis hash per terminal; heartbeat and sweep timers | connect, heartbeat, disconnect, sweep | a sweep reads an old `HeartTime` that a heartbeat renews; a heartbeat writes back an entry just removed; sweeps overlap | connected clients are online, the others leave in bounded time, each departure is noticed and no other |
| **Redis string cache** (`Ars.Common.Redis`) | a semaphore per cache instance; the keys in Redis | `GetAsync` with a factory, `SetAsync`, `RemoveAsync`, `ClearAsync` | many calls miss together; Redis or the factory throws while the semaphore is held | no stampede; a call fails only if its factory does; the semaphore is released |
| **Access token, gRPC calls** (`Ars.Common.Consul`) | an `IMemoryCache` entry with a sliding expiration, a static semaphore | `GetToken`; unary call with one retry, streaming calls | two tasks of one call ask at once; the entry is committed after the lock is released; a rejected token is still cached | one token request at a time, a bounded burst, every call ends |
| **Scheduled services** (`Ars.Common.Core/AspNetCore/HostService`) | timer, cancellation source, semaphore | `StartAsync`, `StopAsync`, `Dispose`, timer callback | callbacks outlast the period, `StartAsync` called twice, stop during an execution | executions never overlap; a stopped timer falls quiet; a started one goes on |
| **Client: hub connection** (`HubConnection` of `signalr.js`) | the state it shows, the promises of start, stop and handshake, ping and timeout timers, the retry delay | `start`, `stop`, handshake, keep-alive, close message, reconnect loop | the connection ends while any of them is awaited; a handshake is resolved but its continuation has not run; a stop overtakes a retry | *Connected* only over a live connection it watches; *Disconnected* leaves nothing behind; `onclose` once per connection; every start, stop and reconnect ends |
| **Client: connection and transports** (`HttpConnection`) | state, transport, send queue, start and stop promises; per transport its socket, event source or poll | `start` with negotiation, redirects and fallback, `send`, `stop`, closing | `stop` arrives at each await of `start`; long polling stops in three steps; the owner starts again inside `onclose` | no transport is forgotten or mixed up with an earlier one; start, `onclose` and stop keep the order the hub relies on |
| **Client: calls and streams** (`HubConnection`, `TransportSendQueue`) | `_callbacks`, methods, the buffer of the queue with its promise | `send`, `invoke`, `stream`, uploads, cancel, the server's calls | a post is lost, or only its answer; a completion, an item, a cancellation and the end of the connection meet | a call settles once and only as the server ran it; streams keep their order |
| **Client: MessagePack** (`signalr-protocol-msgpack.js`) | the decoder's stack, cursor, head byte and cache of map keys | `writeMessage`, `parseMessages`, `decodeStream` | sizes at the boundaries of their forms, input cut short, a value that ends in the middle of a chunk, a stale cache entry | what is read is what was written |

### The other parts

| component | why it keeps no modelled state |
|---|---|
| Auditing, soft delete, tenants (`ArsDbContext`) | open, see section 9: what `SaveChanges` does to each entry, its change log, its query filters |
| HTTP client policies, Ocelot's circuit breaker | open, see section 9: the policies are Polly's; fallback, breaker, retry and a time limit that is built and discarded |
| ADO.NET executer | sequential commands on a connection it is given |
| SignalR senders, CAP publisher, RPC client | stateless forwarding |
| Consul registration and discovery | registers once, asks Consul on each call; Consul holds the state |
| Redis hash cache, memory cache provider | one command per method; the memory one throws `NotImplementedException` |
| Exception middleware | a mapping of exceptions to status codes |
| Excel import and export, tools, loggers, session | formatting, parsing, reading claims |
| Identity server, dependency injection, Swagger, localization, tracing, host | configuration at start-up |
| samples and tests | users of the libraries, read for how they are used |
| client: HTTP clients, text protocol, builder | wrappers of `fetch` and `XMLHttpRequest`, one conversion or request each |
| form validation, sign-out script | third-party and page glue, look-ups in the DOM |

### How the parts interact

A host (MVC, gRPC, CAP) starts a request; its filter opens a scope with
`IUnitOfWorkManager.Begin`. The body calls repositories, which read
`IUnitOfWorkManager.Current` and ask the EF unit of work for a context.
Completing the scope runs `CompleteUowAsync` of the EF unit of work; its outcome
comes back as `Completed` or `Failed`, whose handlers pop the ambient one.
`UnitOfWork` and `EfCoreUnitOfWork` meet at that call: the first takes its
outcome as one of three steps (`CompleteSucceeds`, `CompleteFails`,
`PublishFails`), the second models what happens inside it.

A SignalR hub calls one of two cache managers, and the listener of that cache
calls the hub's notice services. `BaseHub` is the shared part; `ArsSignalR`
composes it with either cache. The token, the string cache and the scheduled
services are shared only through their own semaphore.

The client is the other end of `BaseHub`: what the hub sees as a connection that
opens, is heard of every 15 s and closes is a `HubConnection` over an
`HttpConnection` over one of three transports. The page starts it, and starts it
again inside `onclose`. `HubConnection` asks `HttpConnection` for `start`, `send` and
`stop` and is told by `onclose`; the module `Connection` is that contract, which
`HttpConnection` is shown to keep. `HubMessages` is what goes over an established
connection, and `MessagePackHubProtocol` its bytes.

## 2. Modules

| module | models | extends / instances |
|---|---|---|
| `UnitOfWork` | the ambient unit of work over async frames | `Ambient == INSTANCE AmbientScopes` (refinement) |
| `AmbientScopes` | abstract: a stack of open units of work per request | |
| `UnitOfWorkProofs` | theorems about `UnitOfWork` | `UnitOfWork`, TLAPS |
| `EfCoreUnitOfWork` | one EF unit of work used by several branches | `Atomic(n) == INSTANCE AtomicCommit` (refinement, per connection) |
| `AtomicCommit` | abstract: changes become durable together or not at all | |
| `EfCoreUnitOfWorkProofs` | theorems about `EfCoreUnitOfWork` | `EfCoreUnitOfWork`, TLAPS |
| `BaseHub` | life of a connection, entries, timer | |
| `MemoryHubCache`, `RedisHubCache` | the two caches and their listeners | `BaseHub` |
| `ArsSignalR` | presence as configured by `CacheType` | `BaseHub`, instances of both caches |
| `ArsSignalRProofs` | theorems about `ArsSignalR` | `ArsSignalR`, TLAPS |
| `ArsCache` | `GetAsync` and the cache around it | |
| `ArsCacheProofs` | theorems about `ArsCache` | `ArsCache`, TLAPS |
| `Token` | `GetToken` and the gRPC interceptor | |
| `ExecutingService` | a scheduled service | |
| `BackendProofs` | theorems about `Token` and `ExecutingService` | `Token`, `ExecutingService`, TLAPS |
| `HubConnection` | the hub connection of the client | `Lifecycle == INSTANCE HubLifecycle` (refinement) |
| `HubLifecycle` | abstract: the state an application sees, `onclose` once per connection | |
| `HubConnectionProofs` | theorems about `HubConnection` | `HubConnection`, TLAPS |
| `HttpConnection` | the connection below it with its transports | `Contract == INSTANCE Connection` (refinement) |
| `Connection` | abstract: what the hub connection relies on | |
| `HttpConnectionProofs` | theorems about `HttpConnection` | `HttpConnection`, TLAPS |
| `HubMessages` | calls, streams, uploads, the server's calls, the send queue | `Remote == INSTANCE RemoteCalls` (refinement) |
| `RemoteCalls` | abstract: at most once on the server, settled at most once | |
| `BinaryMessageFormat` | the length prefix of a message | |
| `HubMessagesProofs` | theorems about `HubMessages` and `BinaryMessageFormat` | both, TLAPS |
| `MessagePack` | encoder and incremental decoder | |
| `MessagePackHubProtocol` | messages, `parseMessages`, `decodeStream` | `MessagePack`, `BinaryMessageFormat` |
| `MC*` | the instances for TLC | |

A definition marked *mutant* is a plausible bug in the definition below it. No
specification uses it: it documents, for each property, a change of the code
that the property notices.

### UnitOfWork

A *flow* is one async frame: the filter, the controller action, a helper it
awaits, a task of a `Task.WhenAll`. `local[f]` is its `AsyncLocal` value, a
wrapper named by the unit of work it was made for; `held[w]` is what the wrapper
holds. `Call` copies the caller's `AsyncLocal` value to the callee, and nothing
comes back: that is .NET's execution context. The code between two awaits is one
action: `Begin` and `Dispose` are synchronous, `CompleteAsync` has one await
inside and is split there (`CompleteStart`, then `CompleteSucceeds`,
`CompleteFails` or `PublishFails`).

* `PopHeld` and `PopLocal` are what `Current = null` does to wrapper and
  `AsyncLocal`. In the handlers of `CompleteAsync` only the first survives, since
  that method is async; in `Dispose` both do.
* `BeginJoin` and `BeginNew` are the branches of `Begin`. `RequiresNew` and
  `Suppress` take the same one, they differ in what a `Required` scope inside
  them becomes.
* The `Dispose` of a joined scope that was not completed throws and changes
  nothing, so it is the same step as one that was (`DisposeJoined`).
* Scopes are opened with `using`, so a frame closes its innermost first and
  completes each at most once before; a frame that ends has closed its own.
  `ImplementsAmbientScopes` says that frames that run
  one at a time see a plain stack. For frames that overlap the code promises no
  order, and only `RequestsIsolated` is asked of them.
* A second `CompleteAsync` of one unit of work throws in `PreventMultipleComplete`,
  which is called before the `try`, so no handler runs and nothing changes: it is
  no step of the model.

### EfCoreUnitOfWork

A *branch* is a frame that uses the unit of work. `CreateStart` runs up to the
await of `BeginTransactionAsync` or `UseTransactionAsync`; `CreateBegun` and
`CreateShared` are what follows it, with the lookup done *before* the await. A
transaction is named by the context that began it. Changes move from `tracked`
to `flushed` (saved inside a transaction) to `durable`; without a transaction
straight to `durable`. The frame that opened the unit of work awaits its
branches before it completes or disposes it. The databases are relational: for
one that is not, `GetDbTransaction` would throw before the branch meant for it.
A `SaveChangesAsync` that throws inside the body changes nothing and is left
out; one inside `CompleteUowAsync` is `CompleteFails`. The dictionaries of the
code are not thread-safe; a segment between awaits is nevertheless one action,
as it is under a synchronization of the caller's own.

`AtomicCommit` is implemented per connection: `made` are the changes tracked or
saved by the contexts of that connection. It would be false of all connections
together, since commits follow one another; `DurableAfterAllSaved` says how
far the code does go: no connection is committed before every context is saved.

### BaseHub, MemoryHubCache, RedisHubCache, ArsSignalR

A connection goes through `new`, `connecting` (inside `ClientOnConnection`),
`joining` (awaits `AddToGroupAsync`), `open`, `leaving` (awaits the notices),
`closed`; or `vanished` when `OnConnectedAsync` throws, for then SignalR does not
call `OnDisconnectedAsync`. Time is counted in steps of five seconds, as ages:
the heartbeat of 15 s is 3, the limit of 30 s is 6, the timer of 10 s is 2.
`Slack` is how late the server may run a heartbeat or the timer, `MaxPass` how
long a sweep may last, notices included; `Tick` stops at those limits.

The memory cache changes its dictionaries without an await, but two threads can
be in it, so `ConnectFirst`/`ConnectAddDictionary` and `Pick`/`Remove` are two
steps each. Every Redis command is an await, so each is a step. `LoopThrows` is
the enumeration of `_keys` that meets a key added meanwhile: the exception
leaves an `async void` method and the process ends (`up`).

### ArsCache

Each process has its own semaphore, Redis is shared. A value is the *version* of
the source it was made from, 0 the default value of its type. A failing read
counts as a miss, a failing write is logged, as in the code; the factory's
exception reaches the caller. `Update` and `Drop` are the application that
changes the source and removes keys, and Redis expiring them.

### Token

Tokens are numbered. A unary call runs two tasks, `execute` and `headers`, which
both ask for a token; a caller starts its next call when all tasks of the last
have ended. `LookAgain` takes the semaphore, `Requested` releases it and
`Commit` replaces the cache entry afterwards: that gap is why a burst may fetch
more than one token. `Tick` is a minute, the margin `GetToken` takes off the
lifetime; it waits for code that does not await. Callers have no token of their
own in the request (`Token.cs:45-50` is left out).

### ExecutingService

Calls of `StartAsync` are numbered, and a number also names the source and the
timer it makes. `StartTimer` is a step of its own since it reads the field
`_cancellationTokenSource` again. `Collect` is a replaced timer's finalizer.
The token that the caller passes, which line 32 links in too, is left out.
`Release` hands the semaphore to any waiting callback, which then executes even
if it was cancelled before it ran. `FailedThrows` ends the process.

### HubConnection

One thread runs the script, so an action is everything that runs without a pause: the
event, and the functions it calls, which are operators from a state of the client to
the next (`CompleteClose`, `ConnectionClosed`, `LinkOff`). A call of `start()` and a
reconnect loop are *tasks*; `task[t].pc` says which `await` they wait behind. What may
go on (a microtask) does so before the next event: `Idle` guards the events. `link` is
the connection below as `Connection` describes it; `call` are the calls of `stop()`.
The page is `app = "page"`: it starts again inside `onclose` and never stops;
`"caller"` stops, also while starting and reconnecting, and starts again later. The
timers are flags that may fire at any time.

### HttpConnection

`conn` are the fields of `HttpConnection`, `start` the two async functions `start` and
`_startInternal` together, `transport` the transports constructed so far, `stop` the
calls of `stop()`. A set-up is what the page, the browser and the server bring along:
the endpoints the negotiation offers, the transports allowed and the transfer format,
whether negotiation is skipped, whether the owner starts again inside `onclose`, and
which faults occur. `StopConnection` is `_stopConnection`, with the restart inside it;
`TryNext` is the loop of `_createTransport`; `AbortPoll` and `Deleted` are the two
halves of stopping long polling, and a call of `stop()` remembers the transport it waits
for. An event source whose `connect()` was rejected (`OpenFails`) is not closed, and the
browser may connect it again: `late` says which did (`LateOpens`) and which of these have
ended (`LateCloses`, which is `StopConnection` for a transport that is not the one of the
moment). `Undisturbed`: none has ended yet. The data such a source delivers is left out.
`ends` counts how often the connection went off, so that `Connection` can say which end
a `stop()` waits for.

### HubMessages, RemoteCalls

`call` are the calls of the page with what their promise or observer saw, `queue` one
`TransportSendQueue` per connection (its buffer, what is being sent, the promise each
message hangs on), `net` the messages in transit, `server` what the server knows of the
calls, `ask` the server's calls of the client method with its handlers. `Connects` and
`Off` begin and end a connection; ids go on across connections, as in the code. A post
may reach the server although its answer is lost. `RemoteCalls` is what an application
may rely on: a call runs at most once, settles at most once, and succeeds only if the
server ran it to its end.

### MessagePack, BinaryMessageFormat, MessagePackHubProtocol

A value is a pair of its type and content, a string its bytes. `Encode` is the
encoder; `ReadItem` and `DeliverToStack` are one turn of each loop of the decoder,
which keeps its stack, its position, the head byte and the cache of map keys; the key
that a full cache loses is any of them. `Frame` is one turn of the loop of `parse`.
A batch is a sequence of values, written with a length prefix or as a raw stream, and
cut short by some bytes or received in chunks.

## 3. Runs

| run | question | distinct states |
|---|---|---|
| `uow_sequential` | with frames that run one at a time, nested and joined scopes, and saves and subscribers that throw: is what is current active, is every unit of work disposed, is it a plain stack (refinement of `AmbientScopes`)? | 1,591,711 |
| `uow_concurrent` | do two requests, one with a concurrent frame, stay isolated, whatever fails? | 1,856,937 |
| `uow_pops_twice` | *violation*: does closing a scope return to the outer one? | 981 |
| `ef_branches` | two branches on different databases, both modes, every call may throw: is a change lost, something durable early, something left open, is each connection atomic? | 89,766 |
| `ef_same_database` | *violation*: and two branches on the same database? | 658 |
| `signalr_presence` | two terminals, overlapping sweeps, late heartbeats, either cache: are the right clients online, are the others forgotten in time, is every departure noticed and no other? | 1,364,695 |
| `cache_calls` | three calls in two processes, with removals and failures: does a process load a key once per removal, is a value found or made, does every call return, with the factory's exceptions and no other? | 42,041 |
| `backend_calls` | token: a unary and a streaming caller while tokens expire and the server fails: one request, bounded bursts, every call ends? Service: started twice and stopped by overlapping requests: overlap, quiet after stop, progress? | 73,681 |
| `token_rejected` | *violation*: does the retry use another token? | 340 |
| `hub_lifecycle` | the page over WebSockets and over server-sent events, a caller over WebSockets and long polling: is a hub that shows Connected watched, is nothing left behind, does stop disconnect, does everything end (refinement of `HubLifecycle`)? | 73,494 |
| `http_fallback` | negotiation, fallback and stop at any moment: until an event source that opened late ends, is a transport forgotten or mixed up, does the hub get what it relies on (refinement of `Connection`), does every call end? | 172,555 |
| `hub_messages` | calls, uploads and asks over a connection that loses posts, closes and comes back, and bytes in chunks: are calls settled once and as the server ran them (refinement of `RemoteCalls`), streams in order, bytes read as written? | 72,636 |

A run that ends in a violation stops there; its number of states varies a little with
the number of workers. The exact properties are in the `.cfg` files; each is stated in
words where it is defined. `backend_calls` holds two components that share nothing but
the process: a behaviour is one of either while the other rests. In the same way a
behaviour of `hub_messages` parses a batch of bytes or, if that is empty, makes calls.

## 4. Bounds, symmetry and deadlock

* *uow*: one request with three frames (filter, action, helper), up to two
  scopes per frame and three units of work: enough for a nested scope inside a
  joined one inside another frame's, and for a pop that goes two levels down.
  `Required` and `Suppress` cover both branches of `Begin` and both handles of a
  joined scope. `uow_concurrent` has two requests, one concurrent callee, and one
  scope per frame, so that wrappers are shared across frames rather than within.
* *ef*: three keys on two connections, the first with two context types that
  share a transaction; four contexts let a failed begin be tried again; two
  changes let one connection hold a change that the other does not. The branches
  use disjoint connections in `ef_branches`: on one connection the property
  fails, which is `ef_same_database`.
* *signalr*: two clients, one on each terminal, so that the listener's loop visits
  both. `Slack = 1` and `MaxPass = 2` make timers late and sweeps outlast the period.
  `GoneAreForgotten` is checked at the exact bound `OldestEntry` and ages are counted
  one past it. `Serial = TRUE` takes from the first clients of a terminal the race for
  the dictionary (`MemoryHubCacheManager.cs:184`), with which a client is lost
  at once. The sweeps are symmetric.
* *cache*: two calls of one process compete for its semaphore, so that the second
  one's second read matters; the third comes
  from another process; one removal per key makes a second load legitimate; the
  second key may have no value at first. What fails is chosen at the start, so
  that `LoadsBounded` can speak of behaviours in which Redis answers.
* *token*: with a lifetime of two and four tokens each of the three tasks can fetch
  one and one be refreshed; `token_rejected` has a lifetime of three, the least at
  which an entry that slides (two) can be kept alive past the token's end.
* *service*: two starts may overlap, follow or replace one another; three
  callbacks: one executes, one waits, one enters.
* *hub lifecycle*: three tasks are a start, a reconnect and a start after a stop, or
  two starts with a reconnect of the first; two stops may overlap; two delays let a
  retry fail, wait again and give up. `slowPosts = FALSE`: over server-sent events the
  first ping is sent before the connection ends and before its timer fires (section 7).
* *http*: two starts with three endpoints each need six transports; two stops overlap;
  `MAX_REDIRECTS` is 2 instead of 100, so that both sides of it are reached. The
  set-ups: all transports with text, the same with server-sent events first (so that two
  endpoints follow an event source that may open late), the page (MessagePack, which rules
  out server-sent events; restart inside `onclose`), and skipped negotiation, allowed or
  not.
* *messages*: two connections, so that an answer or a buffered message may belong to
  the one before; two calls, one item per stream; asks of a client method with up to
  two handlers; six set-ups, one for each meeting that matters (a stream beside an
  invocation, uploads, a send behind an invocation, a socket, asks with and without a
  result). The batches have every kind of message, numbers and sizes at both sides of
  each boundary of MessagePack, and two streams whose keys meet in a cache of one entry
  per length (the code keeps 16); they are cut at up to four places. `MaxEncodeDepth`
  is the code's 100.

`CHECK_DEADLOCK FALSE` is set where the modelled system does end: requests
return, calls are made a bounded number of times, connections close for good, a
process ends.

## 5. Fairness

`UnitOfWork`, `EfCoreUnitOfWork` and `ArsSignalR` have safety properties only and
assume none.

* *ArsCache*, *Token*: Redis, the factory and the identity server answer
  (with a value or an exception); `SemaphoreSlim.WaitAsync` grants its waiters in
  turn, so a call that waits is served: strong fairness of taking the lock.
* *ExecutingService*: timers fire; the service's own code returns. Nothing is
  assumed of who gets the semaphore, nor that anyone starts or stops.
* *HubConnection*: the browser runs what is ready and the timers that no message
  resets; a request of the connection ends, one way or the other; a connection that was
  stopped closes. The handshake is guarded by the server timeout, except over long
  polling, where the timers do not run (`inherentKeepAlive`): there the poll ends or
  the server answers.
* *HttpConnection*: what is ready runs, and requests end, since they have timeouts; a
  socket that connects opens or fails. Nobody is assumed to start, send or stop, nor
  the server to close, nor a late event source to open or to end.
* *HubMessages*: what is ready runs, posts end, messages in transit arrive unless the
  connection closes, and the server completes each call it runs.
* *MessagePackHubProtocol*: parsing goes on.

## 6. Proofs

The theorems hold for every value of the constants (any set of frames, any
number of units of work, starts, callbacks, calls, processes or keys, any offer of a
server); the assumptions are the named `ASSUME`s of the modules.

**`UnitOfWorkProofs`**. Three theorems without any condition: `TypeCorrect`,
`IsolationHolds` (`RequestsIsolated`) and `NothingStaysOpen` (`NothingLeftUndisposed`).
Isolation is not inductive: it speaks of `Current(f)`, and a pop replaces that by
whatever the `Outer` chain holds. The invariant `IInv` says why this is harmless:

* `CreatedInv`: nothing refers to a unit of work that is not yet created, and
  `Outer` goes back in creation order;
* `OwnedInv`: every reference (frame to wrapper, scope to unit of work, wrapper to
  its content, unit of work to `Outer`) stays inside one request;
* `IdleInv`: a frame that was not started holds nothing, so a root frame starts
  with an empty `AsyncLocal`.

There is one lemma per action; `PopKeepsHeld` does the pop once for its five
uses, `PushFacts` the push, `OpenScopes`, `CloseScopes` and `MarkScopes` the
sequences. `NothingStaysOpen` rests on `ScopeInv`: a unit of work that is not disposed has an
open scope, in a frame that has not ended.

Three theorems for frames that run one at a time (`Concurrent = FALSE`). There the
active frames of a request are a stack; `d` gives the depth of each, and is found anew
for a frame that is called (`SomeDepths`).

* `CurrentStaysActive` (`CurrentIsActive`), whatever throws. `StackInv` and `OrderInv`:
  scopes deeper in the stack, and further in a frame, are on younger units of work.
  `PhaseInv` and `OuterInv`: what is outside an open one is open. A pop writes into
  wrappers that frames further down share, at a time when they do not execute:
  `WrapperInv` says what such a `Frozen` frame will find when its callee returns.
* `ScopesAreAStack` (`ImplementsAmbientScopes`): every step is one of `AmbientScopes`, or
  a stutter, as long as no call of the request has failed. `NestInv` says that the open
  units of work of a request, in the order of their creation, are the stack: the youngest
  is current in the executing frame (`CurrentInv`), the `Outer` of each is the next below
  it (`NestedInv`), and where a callee has another wrapper than its caller nothing begun
  further out is open (`ApartInv`). The stack of the refinement mapping is the recursive function
  `Chain`; that its defining equation holds follows from the smallest argument at which
  it would not.
* `ClosingReturnsToOuter` (`CloseReturnsToOuter`) if in addition no call throws. This is
  the property that `uow_pops_twice` violates, so the violation needs a failure.

**`EfCoreUnitOfWorkProofs`**: `EfTypeCorrect` without any condition; `ChangesAreSaved`
(`NoChangeLost`), `SavedBeforeDurable` (`DurableAfterAllSaved`) and
`DisposedLeavesNothing` (`NothingLeftOpen`) under `OwnConnections`: branches that work at
once ask for contexts of different connections. `ef_same_database` shows that the
condition is needed. None of the three is inductive; the invariant says how a change, a
context and a transaction can be found again:

* `MakingApart` and `BusyInv`: a branch that awaits a new context finds its key and its
  connection, when it resumes, as they were before the await;
* `CachedInv`: what a branch works with is in `ActiveDbContexts`, and a cached context
  takes part in an open transaction, or has none if the unit of work has none;
* `ReachInv`: an open transaction is the one of its connection, and a context in one is
  its owner or attends it;
* `TrackedInv` and `ChangesInv`: a change that is not durable is tracked by a context
  still to be saved, or was saved into a transaction still to be committed.

There is one lemma per action; `HandOutLinked` does the end of the await once for
its two uses and `FlushKeeps` a save.

`CommitsAtomically` (`ImplementsAtomicCommit`), under the same condition, is the
step-wise refinement: for each connection, every step makes a change, commits all that
was made on it, gives it up, or changes nothing that `AtomicCommit` sees. `PlaceInv` says
that a connection has one transaction, which its contexts share, `OnceInv` that a change
was made on one connection, and `DecidedInv` when a transaction is committed or rolled
back, and that a change is durable exactly if the transaction of its connection is
committed.

**`ArsCacheProofs`**: `CacheTypeCorrect`, `NoStampede` (`LoadsBounded`),
`CallsFindOrMake` (`FindsOrMakes`, for types that have null). The invariant:

* `LockInv`: a call is inside the lock exactly while it holds the semaphore of
  its process; `KeyInv`: a call that started has a key;
* `LoadInv`: a process that is about to load a key, or would find neither a value
  in Redis nor one of its own calls about to store one, has loaded it no more
  often than it was removed. This is what the second read under the lock buys,
  and what the bound `loads <= removals + 1` alone does not say: a load is counted
  when it begins to store, and another process may store, or a removal intervene,
  before that;
* `ValueInv`: no default value is stored, about to be stored, or found.

**`BackendProofs`**. Of `Token`: `TokenTypeCorrect` and `OneRequestAtATime`
(`OneRequest`): a task requests a token exactly while it holds the semaphore, which is
inductive with the types. `BurstFetchesOncePerTask` (`BurstBounded`): callers fetch no
more tokens at one time than they have tasks. The entry is committed after the semaphore
is released, so what bounds the burst is not the lock but `BurstInv`:

* `ColdInv`: a token issued now is in an entry just committed, or a task is about to
  commit it; `HeldInv`: a task about to commit has a token;
* `CountInv`: tokens issued now and tasks that request one are together no more than the
  tasks. A task goes on to request only when the cache is cold, and then, by `ColdInv`,
  every token issued now is in the hands of a different task that has yet to commit.

Of `ExecutingService`: `ServiceTypeCorrect` and `ExecutionsNeverOverlap` (`NoOverlap`).
`NoOverlap` alone is not inductive: a callback that finds the semaphore free must know
that nobody executes. `HolderExecutes` says that a callback executes exactly while it
holds the semaphore; `ReleaseKeeps` shows that handing it over keeps that.

**`ArsSignalRProofs`**, for either cache: `PresenceTypeCorrect` and `EntriesAreDropped`
(`GoneAreForgotten`) without any condition; `ConnectedStayOnline` (`ConnectedAreOnline`)
and `ApplicationIsTold` (`GoneAreNoticed`) under `HeartbeatsInTime` (the heartbeat with
its delay is within the limit of the listener, as 15 s and 30 s are) and
`FirstClientsApart` (section 7).

* `Expiring` makes the bound of `GoneAreForgotten` inductive: an entry that is overdue by
  more than the time since the timer last fired is covered by a callback that was fired
  while it was not, and has still to look at it (`Covers`, `InReach`).
* `Fresh`: the entry of a connected client is as young as its last heartbeat, or that
  heartbeat is about to be written; so what a sweep has picked went away (`Victims`), also
  where the sweep acts on what it read earlier.
* `Told`: who left has been noticed, who vanished has been noticed or is still listed.
* `OneFirst`: the client that prepares the dictionary of a terminal is alone in it.

**`HubConnectionProofs`**: `HubTypeCorrect`, `ConnectedHubIsWatched`
(`ConnectedIsWatched`), `NothingIsLeftOver` (`NothingLeftOver`), `StopsDisconnect`
(`StopDisconnects`) and `FollowsLifecycle` (`ImplementsLifecycle`), all under
`OrdinarySetups`: `start()` is not called again while it runs, and a post ends with its
connection (section 7 says what happens otherwise). All follow from `HubInv`; not even
the types are inductive, since the number of tasks is bounded only because at most one
is alive that was not `Left` behind by a later one.

* `TaskInv`: at most one task is current, and at most one is left behind, which only has
  to throw;
* `StateInv`: which state the hub shows with which task and which connection; in
  particular *Connected* only over a connection that is up and `Watched`: it is being
  stopped, its timers run, or the transport keeps itself alive;
* `WaitInv`: a task that waits has something to wait for, and what it will find when it
  goes on;
* `TimerInv`: no timer without a connection; `CallInv`: a hub that is `Stuck` in
  *Disconnecting* has a `stop()` inside `onreconnecting`, and what a call of `stop()`
  returns is true of the hub.

The functions of the client are operators from a client to a client, so most lemmas are
about two clients and no step: `...Facts` for what a function returns, `...Good` that it
takes a client of the invariant to one that follows it in `HubLifecycle`. `ClientStep`
carries them over to the actions.

**`HttpConnectionProofs`**: `ConnectionTypeCorrect` without any condition;
`NothingForgotten` (`NoTransportForgotten`) and `ConnectedHasTransport`
(`TransportWhenConnected`) under `OrdinarySetups`, which leaves out the two set-ups that
break them, and `ConnectionImplemented` (`ImplementsConnection`) under `PollsGoOn`, which
leaves out one of these (section 7). The three hold until an event source that opened
late has ended (`Undisturbed`): one that is open changes nothing of the connection, its end
breaks what follows. So the invariant is `IInvUntil`, the types together with `Inductive` as
long as nothing was disturbed, and `RefinesUntil` for the refinement; `LateSteps` says that
only `LateCloses` ends that time. The types are not inductive: that a redirect stays within
`MAX_REDIRECTS` and a new transport has a place rests on `Bounded`: start() is at one
endpoint at a time, has room for those left, and is over when the connection is up.
The three parts of `Inductive`:

* `Sound` relates where `start` waits, the state shown, the transport in use and the
  queue: a transport that is open, opening or being deleted is the one in use, there is
  none while start negotiates, and a deletion only while stopping;
* `Tokens`: a token is used once, since the one of the last negotiation is fresh until
  a transport takes it, and is not kept from one endpoint to the next;
* `StopsApart`: two calls of `stop()` are never busy with a transport at once, so the
  second does not drop what a restart has begun.

Each function of the client has a lemma (`StartCallSound`, `TryNextSound`,
`StopConnectionSound`, ...), each action one that carries it over to the variables
(`BecomesSound`).

The refinement needs three more parts (`RefinesInv`):

* `Lives`: `_stopPromise` is pending exactly while the state is *Disconnecting*, which is
  only where a connection is up or a start is under way; so `stop()` always has an end to
  wait for;
* `AwaitsWell`: a call of `stop()` waits for an end that came, or for the next one, and
  then the connection is being stopped (`Stopping`);
* `Lean`, in place of `Inductive`, where negotiation is skipped: there a restart inside
  `onclose` may make `stop()` forget the socket, but there is still one socket at a time,
  and it is open only when `start()` no longer waits for it. `Plain` is what `Sound` and
  `Lean` have in common.

`Moves` lists what a step may be to `Connection`: it keeps its variables, or begins, opens,
fails or ends a connection. Each function of the client has a lemma that it does one of
them (`StartDoneMoves`, `TryNextMoves`, `StopConnectionMoves`, ...), `StopsMove` that each
action does unless a `stop()` is called or returns, which are `StopRefines` and
`StopReturnsRefines`, and `MovedRefines` takes them to steps of `Connection`. The theorem
is false without `PollsGoOn`: a first poll with a status like 204 while `stop()` waits makes
the state *Disconnected* although `start()` goes on to connect.

**`HubMessagesProofs`**, for any number of calls, asks, connections, items and handlers
and any set of set-ups. What a call waits for is known to its callback, to the promise
of a batch and to the messages in transit, so the inductive invariant says what each
message means for the two sides it goes between. `MessagesInvariant` has it:

* `ClientInv`: an id belongs to one call, and the callbacks are those of the calls that
  wait, those whose send is still queued included (`Pending`);
* `ServerInv`, `MessagesInv`: a message in a queue or on the wire is of a call that was
  made, and says no more than its sender did; an answer is of a call that the server ran;
* `QueueInv`, `OnceInv`: only the queue of the present connection sends, and of what it
  holds and has sent (`Wire`) an invocation or a reply is there once, and not once the
  server has it; hence a failed post and its late arrival do not run a call twice;
* `AsksInv`, `RepliesInv`, `PageInv`: an ask has a reply only from its handlers, which run
  one after the other.

`MessagesTypeCorrect` and `CallbacksStayPending` (`CallbacksArePending`) follow.
`SeenIndInv` adds what an observer saw (`SeenInv`: the items without a gap, then one end,
then errors only) and what is still on its way to it (`DownInv`: `Coming`, the rest of
the items in their order and the end last). With it `CallsAreRemoteCalls` proves the
refinement `ImplementsRemoteCalls`: `StepRemote` takes each step to one of `RemoteCalls`
or none, by what it does to the status of a call (`Moves`), to the server (`Begins`,
`Stops`) and to the replies (`Replied`).

`StreamsStayInOrder` (`StreamsInOrder`) takes its half about observers from `SeenInv`. The
half about uploads needs three more parts, since a batch that is posted may be lost while
it is already followed by others:

* `SpeechInv`: of each call at most one message waits to be sent, the last it said
  (`OutWell`, which is what `promiseQueue` is for); what is on its way continues what the
  server heard last, without a gap (`WireWell`); and unless the chain of the call is
  broken, nothing was lost: the last it said is on its way or was heard (`Reached`), or it
  said nothing on this connection (`Blank`);
* `FlightInv`, part of it: the batch in flight came last on the network, so that what its
  loss takes back is a tail (`Cuts`), of which the call says nothing later (`CutKeeps`);
* `HeardInv`: what the server heard has no gap within a connection, and is of no later one.

A chain goes on after a failed post only where the post held nothing but the invocation of
an `invoke()` or `stream()`, whose rejection is caught; then nothing was said before it
(`ZeroGoes`), and the upload goes on with its first item.

In the same module `ReadsBackWhatWasWritten`, for every message of at most 2 GB between any other bytes; the sizes of one to five bytes are cases, and in each
the groups of seven bits add up to the size again.

Only model-checked:

* every liveness property: TLAPS proves nothing under fairness;
* `ReadsWhatWasSent`: the decoder is a loop over data of any depth, which needs
  induction over data.

## 7. What the code does differently from what it says

* `uow_pops_twice`: a nested unit of work whose save throws pops in
  `FailedHandler` (`UnitOfWorkBase.cs:71`) and again in `Dispose`, and so
  discards its outer one although that is active. The setter's doc says that
  setting null "returns back to outer unit of work where possible".
  `CurrentIsActive` shows the limit of the damage: what is left current is never
  an ended unit of work; `ClosingReturnsToOuter` that it takes a call that throws.
* `ef_same_database`: two branches that ask for contexts of one connection both
  find no transaction, both begin one, and the second replaces the first in
  `ActiveTransactionInfos` (`EfCoreTransactionStrategy.cs:49`). The unit of work
  succeeds without the changes of the first.
* `token_rejected`: the retry after `Unauthenticated` logs "refreshing" and gets
  the rejected token from the cache again (`GrpcClientTokenInterceptor.cs:136`).
  The expiration of the entry is sliding, so calls that come often enough keep an
  expired token.

Met while modelling and stated as preconditions of the properties. In the framework:

* the Redis cache lists a closed client again when a late heartbeat writes its entry
  back, until a sweep removes it (`GoneAreForgotten` allows it that long); a first
  client of a second terminal can end the process (`up`); two first clients of a
  terminal can lose one (`Serial`);
* for a value type a miss counts as found (`IsReference`).

In the client, with the lines of `signalr.js`:

* `stop()` inside `onreconnecting` (1608) finds no connection whose end would complete
  it: the hub stays *Disconnecting*. `StopDisconnects` excludes it.
* Over server-sent events the first ping's post may outlive its connection and be taken
  for one of the next: *Connected* over a dead connection. If it takes longer than 15 s,
  the ping timer fires in vain and no ping follows before the next send (1449-1470).
  `slowPosts` allows both; no run does.
* A second `start()` while the first runs is refused, but replaces `_startPromise`
  (`app = "both"`, in no run).
* A first poll that returns 2xx but not 200 (2517) leaves *Connected* without a transport
  (`firstPolls`), and a restart inside `onclose` that skips negotiation loses its
  transport to the rest of the close: `OrdinarySetups` excludes both.
* If the DELETE of long polling fails and the owner restarts inside `onclose`, `stop()`
  rejects, against its comment (2502); in the runs one or the other happens.
* `inherentKeepAlive` is never reset (2587), so a connection that falls from long polling
  to a socket later has no timers.
* An event source that fails to connect is not closed (2187-2196). If the browser connects
  it again, `onopen` (2198) gives it to a transport that `start()` has given up: no `stop()`
  reaches it, and it goes on to deliver. When it ends, its `onclose` is taken for the end of
  the connection of the moment (2764): while that connects, `this.transport` is dropped, so
  that it may show *Connected* without one, against the comment "The transport should always
  be set if currently connected"; when it is up, it is told closed and its own transport is
  forgotten, open. A `stop()` may then wait for ever, or a second one return before the start
  has ended. `Undisturbed` ends the properties there.
* A batch with one unreadable message throws away the readable ones before it; an upload
  argument beside another is skipped (1779).
* Line 29 of the page reads `connection.sta rt()`, so its script does not parse as
  committed; it is modelled as the `start()` it means.

## 8. Not modelled

Inside the modelled components: the action attributes that switch a unit of work
off; queries; the user names and groups of presence, and a process that restarts
with its entries still in Redis; failures of Redis under the hub; cache values of
a type without null; a short-lived token (`expires_in` of a minute or less) and
requests that carry a token of their user; the thread pool; the loops that start
and stop all services in turn, and the token a caller passes to `StartAsync`, which is
linked into the timer's source (`ArsBaseExecutingService.cs:32`). Of the client: headers, URLs and the token factory's
retry after 401, which the default HTTP clients never reach; what an event source that
opened late delivers; the contents of 64-bit numbers, floats and timestamps, and UTF-8 itself;
`decodeArrayStream`, which nothing calls. The other components are listed in section 1
with the reason.

## 9. Plan

In this order, the most important behaviour first:

| step | modules | what it is for | state |
|---|---|---|---|
| 1 | `UnitOfWork`, `AmbientScopes` | every request goes through it | done |
| 2 | `EfCoreUnitOfWork`, `AtomicCommit` | what a completed unit of work kept | done |
| 3 | `BaseHub`, both caches, `ArsSignalR` | presence, races of sweep and heartbeat | done |
| 4 | `ArsCache`, `Token`, `ExecutingService` | semaphores, failures while they are held | done |
| 5 | `HubConnection`, `HttpConnection` and their contracts | the other end of the hub | done |
| 6 | `HubMessages`, `RemoteCalls`, `MessagePack`, `BinaryMessageFormat`, `MessagePackHubProtocol` | what goes over it | done |
| 7 | the `*Proofs` modules | isolation, the stack of scopes, no change lost, atomic commits, presence, mutual exclusion, no stampede, bounded bursts, the life of a hub connection, no transport forgotten, the contract of a connection, calls that run and settle once, streams in order, sizes read back | done |
| 8 | `HttpPolicy` | fallback around breaker (thirty failures, five seconds) around retry (1 s, 2 s), one breaker per named client, several calls at once, the discarded time limit; Ocelot's breaker | open |
| 9 | `ArsDbContext` | what saving does to added, modified and soft-deleted entries; the change log over several saves; the tenant filter of the first request | open |
| 10 | restart in `RedisHubCache`, `SetAsync` and its expiration as two commands in `ArsCache`, joined scopes and failures in one run of `UnitOfWork` | crashes between two steps | open |
| 11 | composition of `UnitOfWork` with `EfCoreUnitOfWork` | a nested `RequiresNew` that commits while its outer one rolls back | open |
