# A TLA+ model of rtt_http

`rtt_http` is an HTTP/REST interface for Orocos RTT components. This directory
models the parts of it whose correctness depends on the order in which threads
run (the bounded executor of RTT operations, the server's life cycle, its network
pool and request pipeline, the process-wide registry of type codecs, the memory
budget) and the algorithms that its answers rest on (value codecs, JSON, UTF-8,
URL paths, the schema of an operation). Each module is translated from the code
under `src/src` and `src/include`; `PROJECT.json` maps every definition to its
lines.

## The system

| Component | State | Operations | Interacts with |
|---|---|---|---|
| Operation executor (`operation_executor.*`) | `queue_`, `pending_`, `shutdown_`, one condition variable, worker threads, a reaper thread; per call an `Invocation` (`sent`, `complete`, `status`) | `admit`, `worker`, `reap`, `finish`, `drain`, `shutdown` | HTTP workers admit and wait; RTT engines run OwnThread calls |
| Server life cycle (`server.cpp`) | `Impl`: `state`, `finalShutdown`, `networkDone`, `graceExpired`, `options`, `model`, `executor`, `listener`; the mutexes `control` and `mutex` | `start`, `stop`, `requestStop`, `publishComponent`, `beginShutdown`, `finishShutdown`, `run`, `watchGrace` | owns the executor, the object model and cpp-httplib's server |
| Network pool and connections (`server.cpp`) | bounded task queue, threads, the list of connections | `enqueue`, `shutdown`, `work`, the connection handler | called by cpp-httplib; its shutdown requests the server's stop |
| Request pipeline (`server.cpp`) | none of its own | `preflight`, `handle` | reads `Impl`, resolves in the object model, admits operations |
| Type registry (`type_protocol.cpp`) | `registrations`, `frozen`, `freezeError`, `catalog`, process-wide | `registerTypeProtocol`, `registeredTypeCodec`, `freezeTypeCatalog` | filled by plugins and by every starting server |
| Canonical and reflected types (`canonical_types.cpp`, `reflected_codec.cpp`, `type_transport_plugin.cpp`) | local to the registering call | `registerCanonicalTypeProtocols`, `registerReflectedTypeProtocols` | write the registry |
| Object model (`object_model.*`) | published components, routes | `stage`, `commit`, `resolve`, `contains` | owned by the server, read by every request |
| Operation schema (`object_model.cpp`, `operation_executor.cpp`, `server.cpp`) | the recorded `Operation`, the wired data sources of an `Invocation` | `describeService`, `prepareInvocation`, the encoding of the reply | three pieces of code that index the same results and outputs |
| URL paths (`object_model.cpp`) | none | `childPath`, `encodeSegment`, `canonicalRequestPath` | routes of the object model, targets of requests |
| Codec budgets (`codec_context.*`) | `used_` (atomic), `depth_`, `remaining_` | `do_allocate`, `do_deallocate`, `enter`, `leave`, `account` | every conversion; blocks move to executor threads with their invocation |
| JSON and UTF-8 (`codec_context.cpp`) | frames of the handler, the walk's stack, the staged text | `parseJson`, `serializeJson`, `validUtf8` | Boost.JSON; the pipeline |
| Value codecs (`typed_codec.hpp`, `reflected_codec.cpp`, `canonical_types.cpp`) | staging values | `toJson`, `makeDataSource`, `assign` | properties, attributes, ports, arguments and results |

What is hard here, and what each part owes its callers:

- A call outlives the request that made it. After a 504, a closed connection, an
  exception or a stop of HTTP, RTT may still write into the call's storage. The
  executor must keep it, count it, run it once, and complete it once, whether a
  worker or the reaper does.
- Everybody waits on somebody: workers, reaper and `drain()` share one condition
  variable; `stop()` must interrupt a `start()` that holds `control`; a stop that
  comes before the accept loop runs must not be lost; the watchdog and the pool
  must be joined before the state says `stopped`.
- HTTP workers read `model`, `executor` and `options` without a lock.
- The catalog is frozen once per process, by whichever server is first, while
  plugins and other servers still register.
- A connection is owned in turn by the accept loop, the queue and a worker while
  a stop may cancel it; one that is in nobody's list would outlive the stop.
- Preflight runs up to three times for a request, before and after its body is
  read, and the server may stop or publish between; no resource may be read or
  written on the strength of an older check.
- Conversions charge a byte and a depth budget on every path, fail half way, and
  must then leave the resource, the caller's value and the budgets consistent.
- Several texts may mean the same integer, key or path; the code accepts one form
  of some and every form of others, and must not confuse two.

The complete list, each entry at its line, is `hazards` in `PROJECT.json`.

## Modules

| Module | Models | State and actions |
|---|---|---|
| `CallContract` | what the README promises of an operation call | `phase`, `held`, `answer`, `final`; `Refuse`, `Accept`, `Start`, `End`, `Release`, `Answer`, `Drain` |
| `OperationExecutor` | the executor, the POST branch of `Impl::handle`, RTT's engine | one variable per C++ member or live local; one action per critical section, or per call into RTT made outside every lock |
| `OperationExecutorProofs` | | theorems about `OperationExecutor` |
| `MCExecutor` | | its small instances |
| `ServerLifecycle` | `Server`'s public API, `run`, `watchGrace`, the HTTP workers' use of the shared state | the members of `Impl`, one program counter per API call, one for the network thread, the watchdog and each HTTP worker |
| `ServerLifecycleProofs` | | theorems about `ServerLifecycle` |
| `MCLifecycle` | | its small instances |
| `TypeRegistry` | the registry, canonical and reflected registration, the freezing part of `start` | `registrations`, `frozen`, `freezeError`, `catalog`, the types whose slot does not hold our registration, and per starting server the locals of the discovery loop; `skipped` is history |
| `TypeRegistryProofs` | | theorems about `TypeRegistry` |
| `MCTypeRegistry` | | its small instances |
| `CatalogFreeze` | the depth-first search in `freezeTypeCatalog` | `stack`, `marks`, the loop's position; one action per loop iteration |
| `CatalogFreezeProofs` | | theorems about `CatalogFreeze` |
| `ObjectModel` | `stage`, `commit`, `contains`, `publishComponent` around them, the end of the model | `publications_`, the recursion of `describeService` as a stack, RTT's port connections; one action per service entered, port connected, service finished |
| `ObjectModelProofs` | | theorems about `ObjectModel` |
| `MCObjectModel` | | its small instance |
| `NetworkPool` | class `NetworkPool`, the connection handler, the pool factory, `requestStopLocked`, `watchGrace` and the end of `run` | the queue, the list `connections`, where each socket is; one action per critical section |
| `NetworkPoolProofs` | | theorems about `NetworkPool` |
| `MCNetworkPool` | | its small instances |
| `RequestPipeline` | `preflight` and `handle` on concurrent connections | what each connection's request has passed, ports and values being accessed, what was answered; one action per critical section or live access |
| `RequestPipelineProofs` | | theorems about `RequestPipeline` |
| `MCRequestPipeline` | | its requests and resources |
| `MemoryBudget` | what a memory budget promises | `total`, `ask`, `refused`; `Ask`, `Grant`, `Refuse`, `GiveBack` |
| `BudgetResource` | `do_allocate` and `do_deallocate`, one access to the atomic per step | `used`, each thread's locals, the live blocks; `used` is compared with the number of bytes held |
| `MCBudgetResource` | | its small instance |
| `Utf8` | `validUtf8` | operators, with the Unicode table to compare with |
| `UrlPath` | `validName`, `encodeSegment`, `childPath`, `canonicalRequestPath` | operators over bytes |
| `CodecContext` | `CodecContext` and `CodecScope` | operators: a conversion takes a context and yields an outcome and the context it leaves |
| `ValueCodec` | the conversions of every canonical type, vectors, arrays, enumerations, reflected sequences and structures | operators `Encode` and `Decode`, one per conversion |
| `JsonParse` | `DuplicateHandler`, `parseJson`; the events in which Boost's parser reads a text | operators: a fold over parser events, the nesting at each of them |
| `JsonOutput` | `validateOutput`, `serializeJson` | operators: a walk with its stack, the loop that stages the text |
| `Increasing` | | the elements of a set of numbers in their order: what a loop over indices collects |
| `OperationSchema` | `describeService`'s record of an operation, `prepareInvocation`'s data sources, the reply | operators over a reported signature |
| `ResourceFormat` | calls of `validUtf8`, `childPath`, `canonicalRequestPath`, `describeService` and `parseJson` | `call`: the function, its argument, its outcome; one action per function |
| `WireFormat` | `ResourceFormat`, and calls of `makeDataSource`, `toJson` and `serializeJson` | the same `call`; one more action per function |
| `WireProofs` | | theorems about `BudgetResource` and `ResourceFormat` |
| `MCWireFormat` | | its bytes, names, targets, types, values, documents and signatures |

`OperationExecutor` and `ServerLifecycle` describe the same server at two levels.
In `OperationExecutor` the server around the executor is the flag `open`
(`state == running && !finalShutdown`), closed by any stop, opened again by a
restart with the same width, and the thread that shuts the executor down. In
`ServerLifecycle` the executor is its width and the number of its unfinished
calls; a restart with another width or capacity is there. `TypeRegistry` uses the
verdict of `CatalogFreeze`'s search (a missing dependency, an enum of something
that is not an integer, a cycle) as the predicate `Sound`, after the comparison of
the protocol slots that precedes the search (`Verdict`). `ObjectModel` opens
up what `ServerLifecycle` has as the two steps of `publishComponent`; there the
server may turn out not to be running at either test. `NetworkPool` opens up one
run of the listener, which `ServerLifecycle` has as a few steps of the network
thread and the watchdog; it has the same `requestStop`, watchdog and end of `run`,
with the sockets. `RequestPipeline` follows a request on one of those connections
up to the point where `OperationExecutor` admits its call; its admission is a
choice between the outcomes that module shows. `UrlPath` EXTENDS `Utf8`; the
other modules over texts have "not UTF-8" as a kind of string. `BudgetResource`
implements `MemoryBudget` (`ImplementsBudget`): each thread's charge, tentative
between the exchange and the underlying allocation, counts as live.

Operators named for what they do wrong (`FullOffByOne`, `WorkerTakeKeeps`,
`StartLaunchForgets`, ...) stand before the definition they vary and are used by no
specification. They are plausible slips in that code: every property is known to
fail when one of them replaces the definition (`mutants` in `PROJECT.json`).

### How the code is abstracted

- Time. A deadline, a closed client connection and an expired grace period end a
  wait at any moment; the 2 ms, 10 ms and 100 ms polls are retries.
- Condition variables. The workers' untimed wait on `wake_` is explicit
  (`asleep`), since a lost notification would block them for good. All other
  waits are timed or on a predicate whose every change is notified, and are
  guards.
- HTTP statuses are names (`ok` 200, `error` 500, `unavailable` 503, `timeout`
  504, `mismatch` 422; `capacity` and `closed` are the two 503s of admission).
- `Send` joins the evaluation of a send that throws with the store of status 500:
  nobody reads `status` before `sent` is set.
- Registrations are a provider, a kind (an integer, an enum, any other) and
  dependencies; the rest of the fingerprint agrees when these do. A server that
  failed and starts again is another element of `Servers`. `freezeError` is the
  kind of the stored message: `unfrozen` the provisional one, `changed` that of a
  changed slot, `unsound` those of the search, `none` the empty string. An
  exception may come at any step of a start (`Throw`), in the freeze after `frozen`
  was set, where it leaves no catalog for good; one inside
  `makeReflectedTypeProtocol` leaves its type out of the pass (`ReflectThrows`). In `CatalogFreeze` an array is an object with one field,
  and dependencies are the increasing sequence that `TypeProtocol` keeps (`Sorted`).
- Numbers. 64-bit integers have five bits and shorter ones three, so that every
  value and every neighbour of a bound is tried. Numbers are counted in halves; a
  Float64 has three significant bits and a Float32 two (53 and 24 in the code), so
  that, as there, an integer may need more than a Float64 has and a Float64 more
  than a Float32. The casts round to the nearest, ties to the even one
  (`Rounded`), an integer on its way to a Float32 twice. `std::size_t` has three
  bits in the memory budget, where wrapping matters.
- Texts. JSON text is the events or the values that Boost.JSON makes of it. The
  limits 1024, 4096 and 8192 of names, routes and targets are 2, 9 and 10, in the
  same order; `/api/v1/components` is `/r`.
- Budgets. A conversion charges what the code charges: six bytes for each control
  character, although the text may have had `\n` in two, and one byte more than
  the text for a non-empty reflected sequence or structure that is encoded. In the
  text of a document a control character is `short` or `control` by its escape, and
  the parser makes the same character of both (`Unescaped`), so `accountJsonString`
  cannot tell them apart. `PutExact` measures the text as it was sent: a document
  within the limit is refused for its length only if its short escapes, each
  charged four bytes more than it has, make the difference.

External code, modelled from how it is used: RTT's engine (accepts a sent call or
not, runs it once, lets it return or throw), RTT's protocol slots (an occupied
one is not overwritten), cpp-httplib (`stop()` ends an accept loop that runs and
has no effect on one that does not yet; its pool is shut down when the loop ends;
it hands a new connection to the handler, then to `enqueue`, and closes the socket
of one that `enqueue` refuses; it calls the expect handler when a client asks for
it, the pre-routing handler, reads the body, calls `handle`, and ends the
connection after `Connection: close`, a refused expectation or an unreadable
body), Boost.JSON (its grammar, one event per token, keys in parts of any size,
the depth limit, text written in parts of any size up to the buffer), and
`std::to_chars` and `std::from_chars`.

## Runs

| Run | Instance | Shows |
|---|---|---|
| `executor_safety` | one OwnThread and one ClientThread call, one worker, room for both, fair | `Retention`, `AtMostOnce`, `HonestAnswer`, `DrainSafe`, `CompletionFinal`; every admitted call gives up its place (`EveryCallReleased`); `shutdown()` returns (`ShutdownTerminates`) |
| `executor_contract` | two workers and room for one call, so that admission is contended | `CapacityBound`, and that the executor implements `CallContract` |
| `executor_capacity` | room for one call | a counterexample, see below |
| `lifecycle_safety` | four API calls of any kind, two HTTP workers, two widths, capacities 1 and 2 | the state says what is so (`StateHonest`), workers read only what is theirs to read (`HandlersCovered`), no call is lost in a restart and none is waited for (`CallsRetained`), a shutdown is final (`ShutdownFinal`), no stop is lost (`StopEffective`), what a publication stages into is not replaced before it commits (`PublicationCovered`) |
| `lifecycle_liveness` | three API calls, one HTTP worker, capacity 1, fair | every API call returns (`EveryCallReturns`) |
| `freeze_search` | every catalog of three types, one unregistered name, fair | the search accepts exactly the closed, acyclic catalogs (`FreezeCorrect`) and ends (`Terminates`) |
| `type_registry` | five types, two servers, competing plugins, slots taken or changed by others, exceptions, fair | a frozen catalog never changes (`RegistrySound`), a start is refused only for a cause that still holds and is the one reported (`FailsOnlyForCause`), reflection reaches its fixpoint (`ReflectionComplete`), discovery ends (`DiscoveryEnds`) |
| `object_model` | 512 graphs of four services, three components of two names, three publications, nesting limit 2 | a failed publication leaves no connection (`NoLeakedLink`), a committed one is whole and only the cyclic and too deep graphs are refused (`PublishedExactly`), what is published stays as it is (`PublicationStable`) |
| `network_pool` | five connections, two workers, a queue of one, a stop at any moment, an accept loop that fails, fair | every open socket has one owner and the list of connections has room for all the pool can take (`ConnectionsOwned`), a stop finds every connection listed or cancelled, cancels the queued ones, and none is open once stopped (`StopComplete`), a stop ends although clients keep requests open for ever (`StopEnds`) |
| `request_pipeline` | two connections; one sends every method on every kind of resource, wrong in up to two respects, the other writes samples; components appear and the server stops; fair | what is read, written or called is justified by checks on the same request, what was accepted on its headers is not refused for them later, a port has one writer (`AccessJustified`); an unread body is never taken for a request (`NoSmuggling`); every request is answered (`EveryRequestAnswered`) |
| `memory_budget` | three threads, three blocks, sizes up to 7 of 8 words, limit 5 | the counter is the sum of live and tentative charges and never wraps (`BudgetExact`); the exchange loop implements `MemoryBudget` (`ImplementsBudget`) |
| `wire_format` | one call of any of the functions, 935 000 of them | `validUtf8` is the Unicode table (`Utf8Exact`); a request is looked up under a route exactly if it spells the route's names (`PathExact`); a document is accepted only for the value it says, or the nearest the type has, refused for its type only if it says none, and for its length only if it is too long when every control character has its long escape (`PutExact`); what is got can be put, and what is written is whole and clean (`WriteExact`); repeated keys are found exactly, malformed text is reported first, the handler has a frame for every open object and array (`ParseExact`); no index leaves its vector and the reply is what the call produced (`OperationExact`) |

Bounds. Two calls suffice for what two calls can do to each other: one erased
from `pending_` while the reaper's index is past it (room for two), one refused
while the other holds the place, with two workers to take it (room for one). The
theorems remove these bounds, and those of the following instances, for every
safety property but `PutExact` and `WriteExact`; what they are for is liveness and
to find a wrong property before it is proved. Four API calls give a start, a stop
that interrupts it, a second start and a final shutdown, and let the unbounded
`requestStop` and `beginShutdown` fall anywhere between. Three types give every shape of cycle,
shared dependency and missing name up to length three. In the registry, a
sequence is resolved in the same pass as its structure or in the next, by the order
in which they are tried, one structure contains itself, and plugins give the structure a codec
that makes the catalog cyclic, an enum of an integer, or an enum of an array; the
slots of a canonical and of a reflected type may be taken or changed at any time. A nesting limit of 2 (64 in the code) and four
services give graphs that are refused for their depth, for a cycle, and legal
ones that reach a service on two ways; two components share a name and two a
service. Five connections fill two workers and a queue of one, with one being
accepted and one being refused. In the pipeline, being wrong in two respects
decides which check comes first, and a second client that writes samples meets
the first one's access to the same port. Three threads and sizes past the limit
and past half of a word reach every way a test by subtraction could wrap.

The functions of `wire_format` keep nothing from one call to the next, so one
call is every history. A text of four bytes holds every sequence of UTF-8, and
two of two; the 24 bytes are those at which a test of `validUtf8` changes its
outcome. Names have up to two bytes and requests up to four after the root, or
two alone. Eighteen types cover every kind of codec; 16 bytes and depth 2 let
each budget run out on every kind. Nine events hold an object in a member of an
object whose key comes again, in parts. Values to write have up to three levels
and are staged in a buffer of three bytes, so that the text comes in several
parts and may fill the last one exactly. Two arguments give a result before,
between and after outputs.

API calls, HTTP workers, executor workers, widths, publications and threads are
interchangeable; symmetry is used where only safety is checked, in
`executor_contract`, `executor_capacity`, `lifecycle_safety`, `object_model` and
`memory_budget`. `CHECK_DEADLOCK FALSE` is set where the system may end: after
the final shutdown of the executor, when the search has its verdict, when all
servers are done, when no publication is left to make, when the server has
stopped and every connection is closed, and when a function has returned.

Fairness. Threads are scheduled (weak fairness of each worker, the reaper, the
closing thread, the network thread, the watchdog, each API call already inside).
Application functions return: the repository's README says that one that never
returns can prevent clean shutdown. A wait has a finite deadline, so a waiting
HTTP worker answers. Clients, plugins and administrators owe nothing: arrivals,
stops and registrations have no fairness. In the network pool the threads are
scheduled and the grace period ends, while a client may leave its request
unfinished for ever. In the pipeline a worker runs, and reading a body or waiting
for a call ends by its timeout; no answer relies on an exception. Reading the
`control` mutex as weakly fair is enough because a finite number of calls
contends for it.

### What the counterexample says

`finish()` publishes `complete` in one critical section and erases the call from
`pending_` in another. Between them the client may read its 200 and post again;
with `maxPendingOperations` 1 that request is refused with
`operation-capacity-exhausted` though nothing is left to do.
`src/README.md:47` says that admitted calls keep capacity "until completion", and
`src/tests/server_contract_test.cpp` posts operations one after the other with
room for one and expects each to succeed. The client's network round trip makes
the schedule rare.

## Proofs

Every safety invariant and action property of the runs except `PutExact` and
`WriteExact`, and both refinements, is also a theorem, for every value of the
constants. A proof
module EXTENDS its component's module and has the same shape as the others:
definitions of the inductive invariant `IInv`, lemmas about the operators, one
lemma or step per action with a step for each conjunct that the action can disturb,
`InvariantHolds` (`Spec => []IInv`), and the theorems that follow from it. For
`OperationExecutor` `IInv` is in the component's module.

| Module | Holds for any | From the assumption | Theorems (property) |
|---|---|---|---|
| `OperationExecutorProofs` | calls, workers, positive capacity | `ExecutorAssumption` (`validateOptions`) | `TypeCorrect`, `CapacityBounded` (`CapacityBound`), `StorageRetained` (`Retention`), `NoReplay` (`AtMostOnce`), `AnswersHonest` (`HonestAnswer`), `ShutdownSafe` (`DrainSafe`), `CompletedOnce` (`CompletionFinal`), `ContractImplemented` (`ImplementsContract`) |
| `ServerLifecycleProofs` | API calls, HTTP workers, widths, positive capacities | `LifecycleAssumption` | `StateIsHonest` (`StateHonest`), `HandlersAreCovered` (`HandlersCovered`), `CallsAreRetained` (`CallsRetained`), `ShutdownIsFinal` (`ShutdownFinal`), `StopIsEffective` (`StopEffective`), `PublicationIsCovered` (`PublicationCovered`) |
| `CatalogFreezeProofs` | number of types, definitions | `FreezeAssumption` (there is a type) | `FreezeIsCorrect` (`FreezeCorrect`) |
| `TypeRegistryProofs` | types, members, plugins, foreign protocols, servers | `RegistryAssumption`, `NoneAssumption` | `RegistryIsSound` (`RegistrySound`), `FailuresHaveCause` (`FailsOnlyForCause`), `ReflectionIsComplete` (`ReflectionComplete`) |
| `ObjectModelProofs` | components, service graphs, nesting limit, publications | `ModelAssumption` | `LinksAreOwned` (`NoLeakedLink`), `PublishesExactly` (`PublishedExactly`), `PublicationIsStable` (`PublicationStable`) |
| `NetworkPoolProofs` | connections, finite set of workers, positive queue bound | `PoolAssumption` (`validateOptions`) | `OwnedConnections` (`ConnectionsOwned`), `StopsCompletely` (`StopComplete`) |
| `RequestPipelineProofs` | connections, requests, routes, components | `PipelineAssumption`, `RouteAssumption`, `RequestAssumption` | `AccessIsJustified` (`AccessJustified`), `NothingSmuggled` (`NoSmuggling`) |
| `WireProofs`, about `BudgetResource` | threads, blocks, word, limit below it | `BudgetAssumption` | `CounterExact` (`BudgetExact`), `BudgetImplemented` (`ImplementsBudget`) |
| `WireProofs`, about `ResourceFormat` | texts, names, targets, limits, signatures, documents of any length and nesting | `LimitAssumption`, `TextAssumption`, `SignatureAssumption`, `KeyAssumption` | `Utf8IsExact` (`Utf8Exact`), `PathsAreExact` (`PathExact`), `OperationsAreExact` (`OperationExact`), `ParsesExactly` (`ParseExact`) |

The assumptions say which sets the constants are taken from and that a null value
is none of the others. Those that say more are justified by the code:
`RouteAssumption` is what `describeService` gives a route (its methods by its
kind, `writable` exactly if there is a method other than GET), `RequestAssumption`
lists what the code tells apart of a request, and a budget's limit fits its
`std::size_t`. `LimitAssumption` says that every route fits a request, as 4096 is
less than 8192, and that a name may have a byte; the others of `ResourceFormat` say
that texts are bytes, what a reported signature consists of, and that parts of keys
are texts. TLC evaluates all of them on the instances of the runs.

The theorems about `ResourceFormat` are of `ResourceSpec`, whose steps are the steps
of `WireFormat` on these functions: no function's outcome depends on a call of
another, but for a request, which follows the route it asks for. `WireFormat` itself
reaches recursive operators.

What these functions compute takes induction over their input. The library's
induction theorems cannot be used, but two first-order consequences of the order on
numbers can: a set of numbers that has 0 and with each its successor has them all
(`Induction`), and a function given by a first value and a step has, at each index,
the value that follows (`Iteration`). A fold or a recursive function is a function
of the index that a lemma characterises by these, and what is shown of it is shown
of the set of indices where it holds.

Why each invariant is needed, and what carries the argument:

- Executor. None of the properties is inductive by itself. That a call is not
  replayed depends on the queue holding only calls for which nothing was done;
  that it is completed once depends on a worker owning what it took until `finish`
  or until it sets `sent`, and on the reaper touching nothing that is not `sent`;
  that storage is retained depends on both. `IInv` states this ownership:
  `QueueInv` (queued calls are fresh, pending and unique), `RequestInv` (what a
  request's stage says of its call), `WorkerInv` (a busy worker owns its call
  alone), `ReaperInv` (the reaper's candidate from `collect` on is `sent`),
  `AppInv` (RTT's progress against `sent`, `complete` and `runs`), `CloserInv`
  (nothing is admitted once the final shutdown began). One lemma per actor.
- Executor implements `CallContract`. The phase of a call is a function of what
  RTT has done, of membership in `pending_` and of the request's stage
  (`PhaseOf`); the lemmas `AppStep` and `RequestStep` say whose phase a step can
  change, and one lemma per actor finds the contract's step. Two facts are there
  for the refinement alone: a waiting request's call is pending or has an outcome,
  and a call that is answered `unavailable` has not returned.
- Life cycle. What an HTTP worker reads is there because every step that replaces
  it happens inside `control` with no network thread. `OwnerInv` ties program
  counters to the mutex, `NetInv` and `DogInv` say what exists and what the state
  is at each step of `run` and of the watchdog, `StartInv` how far a `start` has
  come, `IdleInv` that only a `start` explains a state other than `stopped`
  without a network thread, and `FinalInv` that no `start` passes its first check
  once the final shutdown has joined. `PublicationCovered` is inductive on top of
  these: what the check of `publishComponent` finds follows from `NetInv`, and
  every step that could undo it belongs to an owner of `control`.
- Search. Each node on the stack has tested the dependencies before its index, and
  all but the one above it are finished (`StackInv`); finished nodes are closed
  (`FinishedInv`) and no set of them depends on itself (`AcyclicInv`). An accepted
  catalog is acyclic since everything is finished; a dependency marked 1 is on the
  stack, and the stack from there on is the cycle that is reported.
- Registry. Reflected types are registered one after the other, so no set of them
  supports itself (`OrderInv`): that is one half of `ReflectionComplete`. The other
  half is that a pass without progress is a fixpoint, which `TriedInv` says of a
  pass half way through (every type tried lacks a member that had a codec when the
  pass began) and `CompleteInv` of its end; another server that registers meanwhile
  does it for a type of which this holds too. It is claimed only while nothing
  disturbs it: no codec of a plugin, no reflection that threw, and no registered
  type that lost its slot, which would hide its codec from the reflection of
  others; the last spoils the freeze itself, so a catalog shows that it did not
  happen before it. `CatalogInv` is what `FailsOnlyForCause` rests on: a frozen
  registry without a catalog has a stored error whose cause still holds, since
  registrations stay as they are after the freeze, a changed slot is not restored,
  and an exception that ended the freeze ended a server's `start`. `CanonicalInv`
  says that nobody reflects or freezes before the canonical types are registered.
- Object model. The recursion of `describeService` is a stack; `WalkInv` says that
  each activation has explored all chains of sub-services through those it has left
  behind, but for the one it is in (`Explored`, `Activation`). At the end the root
  is explored, so there is no chain beyond the limit and a route for every other
  one. A cycle is refused although the chain that shows it may be short: from a
  cycle chains of any length follow (`ChainsInCycle`, by the least length that has
  none).
- Network pool. A socket is open exactly while it is in hand, queued or served, and
  by one only (`OwnerInv`); `ListInv` keeps all of them in the list or cancelled,
  which with the cardinalities of queue and workers bounds the list; `StopInv` says
  that a stop cancelled what is queued; `EndInv` what each step of the end left.
- Pipeline. `Accepted`, `Vetted` and `Lawful` are what a request has passed at a
  stage; publishing takes none of them away (`PublishingKeeps`). `SiteInv`,
  `StageInv` and `EffectInv` attach them to the stages, and `BodyInv` ties a kept
  connection to a body that was read.
- Budget. `Accounted` needs that what a thread is about to add still fits on what
  it has seen (`Fits`); the sum of the charges is the number of bytes held, a set
  of pairs, so that one holder's change is a disjoint union (`BytesDiffer`). The
  exchange is the step `Grant` or `Refuse` of `MemoryBudget`.
- UTF-8. `validUtf8` computes with the bits of a lead byte and its continuations;
  the Unicode table has rows of ranges. `LeadExact` and `EndExact` show for one
  sequence that the arithmetic accepts what some row has, with the same length. The
  first byte tells the length, so a text that splits into sequences splits in one
  way, the one that the loop takes.
- Paths. A path is a sequence of bytes cut into segments; `Spans` says that it is
  the concatenation of given parts, and `Pieces` that the cuts are where the slashes
  are. A segment decodes to a name exactly if it spells it byte by byte, plain or
  escaped (`Scans`, along the loop with its `skip`); what `encodeSegment` writes is
  one of the spellings, and two names never have the same. `Routed` says that what
  is published is the route of valid names.
- Operations. `outputs` lists the mutable arguments that are documented, in order
  (`Rising`, `Enumerates`). An operation is supported only if RTT collects as many
  values; when it collects what it produces, every mutable argument is therefore
  documented, both lists are the same, and the k-th value collected is the one
  `Value` says.
- Parser. `Tracks` ties the handler to the events so far: one frame for each open
  level; in it the keys of that object, which are those `InScope`, and the parts of
  a key whose end has not come; `duplicate` exactly if the events repeat a key.
  Inner objects come and go between the two occurrences of a key, which is why each
  level's keys are those of an interval of the text and not of its end.

Only model-checked:

- Liveness: `EveryCallReleased`, `ShutdownTerminates`, `EveryCallReturns`,
  `Terminates`, `DiscoveryEnds`, `StopEnds`, `EveryRequestAnswered`. The prover has
  no rule for fairness.
- `PutExact` and `WriteExact`. `ValueCodec` and `JsonOutput` define conversions, the
  walk and sizes by recursion over the value; the prover cannot be used in a module
  that reaches a recursive operator.

## Not modelled

- The characters of JSON text, formatting of numbers and escapes: Boost.JSON's. A
  text is the events in which its parser reports it.
- `portValue`: reads the last sample of a port and encodes it as `toJson` does.
  Type descriptors, and documents that list resources, are data.
- `validateOptions`, status lines, problem documents, logging, TLS and socket
  options: independent checks, formatting and configuration.
- The descriptions in a publication. A service's resources are one route and it
  has at most one port; a component's services do not change while the server
  runs, and their names are distinct, so that routes never coincide (two that did
  would be one more cause for `Throw`).
- `pendingOperationCount`, `isRunning`, `state`, `isPublished` and the other
  queries change nothing. `pendingOperationCount` is 0 during the final drain,
  since `finishShutdown` moves the executor out of `Impl` first.
- An RTT type whose members contradict its own reflection: the
  `invalid_data_source` answers of `ReflectedCodec` (`reflected_codec.cpp:46-49`,
  `113-123`), when a sequence has no size or one
  that is negative or not the array's, or storage cannot be built or resized. `EncodeSequence`, `DecodeSequence` and
  `DecodeStructure` have the other outcomes. Likewise `CollectDone` has no
  `collectIfDone` that throws for a call that has returned; the reaper would store
  500 for it.
- A protocol slot that is changed and then given back its registration, and an
  exception of `make_shared<ObjectModel>` after the catalog was obtained, which
  leaves the registry as it is.
- An executor whose constructor fails half way: `StartReplace` has the exception,
  not the unwinding of the threads already started.

## Plan

Every component whose code keeps state or decides something is modelled, and its
safety is proved but for the conversions of values. What is left is to state
`Encode`, `Decode` and the output walk without recursion, by the depth of the value,
so that `PutExact` and `WriteExact` come within the prover's reach too.
