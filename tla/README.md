# A TLA+ model of dynamo-cpp

dynamo-cpp is a C++20 runtime for distributed inference: workers register
endpoints in a discovery service, callers find them there, send requests over a
control connection and receive the answers as streams over a second one; on top
of it sits an LLM serving layer with a KV-cache block manager, a KV-aware router
and an HTTP front end.  This directory holds TLA+ models of its concurrent core,
TLC configurations for small instances, and proofs checked by TLAPS.  Paths below
are relative to `src/src/`.

## Inventory

| part | state | operations | who interacts | hard behaviours |
|---|---|---|---|---|
| discoveryd, `discovery/server.cpp` | keys, leases, revision, bounded event log, watchers, subscribers, connections | create, put, get, lease grant / heartbeat / revoke, sweep, watch, unwatch, pub/sub | every client, the sweeper thread | events written under the mutex, log trimmed at its capacity, restart loses everything, foreign unwatch |
| TCP discovery client, `discovery/tcp.cpp` | connection, pending replies, watch records (last revision, live keys, syncing), lease tokens | request, watch, drop, reconnect, resubscribe, route frame, keep alive | manager thread, callers, keep-alive coroutines | link lost anywhere, replay or snapshot, torn snapshot, hung daemon |
| in-process discovery, `discovery/in_process.cpp` | keys, leases, watch channels | the same, without a wire | callers, cancellation callbacks | two-step lease creation, check-then-create |
| control plane, `transports/control_plane.cpp` | connection pool, handlers, queries, connection threads | dispatch, query, accept, register, unregister, stop | callers, connection threads, serving | retry after a pooled connection failed, late answers, stop |
| data plane, `transports/data_plane.cpp` | pending streams, connection threads, arrival channel, receive channel | register, call home, prologue, item, sentinel, stop/kill, timeout, stop | caller, worker, timer, signals | call-home racing the timeout, two executions of a request, backpressure, abandonment |
| serving and calling, `component/serve.h`, `component/client.h` | registration of an endpoint; a call | serve, deregister; call, await arrival | discovery, both planes | order of registration and removal |
| request context, `pipeline/engine.h` | stop/kill flags, hooks | stop, kill, on_stop, on_kill | caller, connection threads | hook registered while a signal runs |
| instance source, `component/distributed_runtime.cpp` | instances, change event | fold watch, snapshot, wait | watch loop, callers | missed change |
| runtime: executor, timer, cancellation, channel, events | queues, waiters, callbacks | post, schedule, cancel, send, recv, close | all threads | work dropped at stop, cancel racing registration |
| KV pool, registry, manager, `llm/kv/` | parked blocks in two indexes and a queue, counter; blocks in flight by hash | match, take, return, re-prioritise, reset; register, last drop; prefill | request threads | duplicate registration, destructor racing a new registration, allocation that fails half-way |
| KV router, `llm/kv_router/` | prefix tree, worker loads | apply event, remove worker, find matches, select | event stream, callers | events out of order, stale loads |
| LLM layer: tokens, backend, tokenizers, SSE, HTTP, model watcher, preprocessor, cards | per-stream decoding state; model table | step, watch | one request each; HTTP threads | stop strings across tokens, model table fed by a watch |
| sockets, codec, TLS, auth, configuration, logging | - | framing | both planes | length arithmetic |

`PROJECT.json` lists every part with the modules that model it, or the reason why
none does, and the hazards with their source lines.

## Modules

| module | models | role |
|---|---|---|
| `LeaseStore` | what `discovery.h` promises about keys and leases | abstract specification |
| `DiscoveryServer` | `server.cpp`: store, leases, log, watches, connections, sweeper | component |
| `TcpDiscovery` | `tcp.cpp`: manager thread, resync, frame routing, watch streams; composed with `DiscoveryServer` over a connection with frames in flight in both directions | composition |
| `LeaseKeeper` | `tcp.cpp`: one lease and `keep_alive_loop`, with a clock; composed with `DiscoveryServer` | composition |
| `DataPlane` | `data_plane.cpp` with its users `client.h`, `serve.h`, `engine.h` and `channel.h`: one call and its executions | composition |
| `ControlPlane` | `control_plane.cpp` with `serve_impl`: callers, pool, connection threads, one instance that is served, stopped, killed and restarted | composition |
| `KvPool` | `llm/kv/reuse.cpp`: the pool of idle blocks | component |
| `KvManager` | `llm/kv/reserved.cpp`, `manager.cpp`; extends `KvPool` | composition |
| `MC*` | constants and symmetry of the TLC runs | |
| `*Proofs` | theorems | |

Actions carry the names of the functions they model; where a handler gives up its
lock or waits, it is one action per stretch between two such points.  Everything
under one mutex is one action.  Operators whose name has a suffix such as
`_KeepKeys` and that are marked as mutants are faulty variants of the definition
that follows; no specification uses them.

**Discovery.**  A key is a number (its place in the order of the store's map) and
a prefix the set of keys it matches.  `DiscoveryServer` has one action per request
of `handle_request`, which all run under the store's mutex, and one for a pass of
the sweeper; `wire[c]` and `reqs[c]` are the bytes in flight on connection `c`.
`TcpDiscovery` adds the client: `mgr` is where the manager thread is, `watches`
its records, `view[id]` the mirror that the consumer of a watch builds from the
events, and `taint[id]` a history variable that remembers what has happened to the
watch since its last complete snapshot.  The events of a frame are counted in
`to_send` and go one by one into the bounded channel of their watch (`queued`,
`ChannelCapacity`), and the manager blocks while it is full; the mirror is the one
the consumer has when it has read what is queued.  The loop's check of the
shutdown flag and its exchange of the socket for a new connection are two steps, and
so are `shutdown()`'s flag and its shutting of the socket: `closing` says how far it
is, and whether it found the socket in use.  `LeaseKeeper` adds the clock: `Tick` is
blocked while something urgent is due (a message older than `MaxDelay`, a timer, a
sweep later than `SweepLag`).

**Call.**  In `DataPlane` a call registers, dispatches, and waits for its arrival;
one or two executions call home, each with a connection thread on the caller's
side, a handler with its engine on the worker's, a receive channel and socket
buffers of bounded size.  `ControlPlane` is how a dispatch reaches the instance;
that it may execute a request twice is why `DataPlane` has two executions.  Its
serving loop registers the handlers, creates the key, which may throw with the key
stored, and removes the handlers; a second `serve` of the same endpoint and lease
may be refused the key.

**KV blocks.**  In `KvPool` a block is a name with its `KvBlock`; a sequence hash is
a number, 0 that of a block without tokens.  `KvManager` adds requests on threads
of their own and the registry of weak references: `inners` are the blocks owned by
a `ReservedBlockInner`, `dying` those whose last reference is gone and whose
destructor has not got its locks yet.

## Runs

| run | instance | checks |
|---|---|---|
| `watch_sync` | 2 keys, 1 watch, log of 1 event, 3 revisions, 1 restart | `LeaseBinding`, `LogFaithful` of the daemon; `MirrorExact`: a quiet watch mirrors the store; `LiveKeysMirrored`; `Registered` |
| `watch_liveness` | 1 key, 1 revision, channel of 1, fair | `Reconnects`, `ResyncEnds`, `ShutdownEnds` |
| `leases` | ttl 5, delays up to 1, clock to 14 | `HealthyLeaseKept`, `ZombieBounded`, `KeysVanish`, `PromptRevoke`; `ImplementsLeaseStore` (refinement) |
| `call` | 1 execution, 2 items, buffers of 1, 1 fault, 1 signal, fair | `CleanEndComplete`, `CallReturns`, `WorkersEnd`, `StopReturns` |
| `call_twice` | 2 executions, 1 item, 1 fault | `ArrivalFits`, `LateCallHomeRejected` |
| `dispatch` | 2 callers, 2 calls, pool of 1, 3 sockets, any number of stops, crashes and broken connections | `OneHolder`, `AnswersMatch`, `RunsBounded`, `AcceptedRuns`, `ListedIsServed` |
| `kv_blocks` | 3 blocks, 2 hashes, 2 requests, 8 returns | `IndexesAgree`, `NothingLost`, `Counted`, `OneOwner`, `PrefixMatched`, `InFlightRegistered` |
| `torn_snapshot` | as `watch_sync` | `NoGaps`: violated |
| `daemon_restart` | as `watch_sync` | `RestartConverges`: violated |
| `large_snapshot` | 2 keys, channel of 1, fair | `WatchOpens`: violated |
| `hung_daemon` | ttl 6, delays up to 1, clock to 12 | `HardDeadline`: violated |
| `lost_hook` | 1 execution, 1 signal | `HookFires`: violated |

Bounds, and why they are enough.  Two keys and a log of one event make the daemon
choose between replay and snapshot, and leave room for a snapshot that breaks
between two keys; three revisions let a key be created, changed behind a broken
link, and changed again.  The channel of a watch holds 1024 events in the code and
one or two in the runs, so that it fills.  In
`leases` half a ttl and two delays are just less than the ttl, and the clock goes
past the bound of two ttls after the end of a holder whose stalled heartbeat is
handled later.  Two items
through buffers of one make every writer block.  Three sockets let both callers
retry on a fresh connection while a third is pooled.  Eight returns are what it
takes for two requests to meet the same hash in the pool one after the other and
race to register it; three blocks are too few for both, so allocation also fails.
`MaxRevision`, `MaxTime`, `MaxTick`, `MaxCalls`, `MaxFaults`,
`MaxSignals`, `MaxRestarts` and `MaxShutdowns` are the bounds in guards.  A client
shuts down in `watch_liveness` only: until its stream ends, a client that is
shutting down does nothing that another may not do, and afterwards it has no
watches that could be wrong.  The runs do not check for deadlock because the
system stops when the bounds are used up.

Fairness.  Weak fairness of a thread's own next step, since each is a thread or a
coroutine on a pool that runs what is ready: the manager thread, the daemon's
connection threads, a caller's request, the second step of `shutdown()`; in
`TcpDiscovery` also strong fairness of a successful reconnect, since the loop
tries for ever and a daemon that can be reached is what the property is about; in
`DataPlane` the caller, the timer, the consumer, the signalling thread, connection
threads, handlers.  Some of these are assumptions on the users' code and not on
the scheduler: an engine makes its next item or ends (the engine runs inside
`Handler`), and a consumer that has a stream reads on unless it drops it
(`Consumer`, and `Consume` for a watch).  An engine that hangs, or a consumer that
keeps a stream and never reads it, holds up its call for ever, and `WorkersEnd`
and `StopReturns` say nothing about it; a watch that is kept and never read blocks
the manager thread, and `ResyncEnds` and `ShutdownEnds` say nothing about that.
Faults, signals, drops and new calls are never fair.

Timing.  `LeaseAssumption` asks that half a ttl and two message delays are less
than the ttl; `HealthyLeaseKept` is false without it.  `Tick` is not fair: the
lease properties bound the clock, they do not promise that it advances.

## What the violated properties show

Each is a sentence of a comment or a document that the code does not keep; the
quotations are in `PROJECT.json`.

* `NoGaps`: `last_rev` advances inside a snapshot, so a connection that breaks
  there resumes behind keys the client never got.
* `RestartConverges`: a restarted daemon takes the revision of its predecessor for
  "nothing missed" and replays nothing.
* `WatchOpens`: a snapshot with more keys than the channel holds stops the manager
  thread and the caller that waits for the reply behind it.
* `HardDeadline`: a heartbeat without a timeout outwaits the lease's deadline.
* `HookFires`: a hook registered while a signal is under way may never run.

Other properties state what does hold, with these cases exempted; each exempted
case is one the model contains and the code does not prevent.

* `MirrorExact`: `taint` names what happened to a watch since its last complete
  snapshot: a torn snapshot, a restart, or an unwatch by another client, whose ids
  are counted from 1 too and which ends this watch silently (`ForeignUnwatch`).
* `ResyncEnds` and `ShutdownEnds`: `Overfull`, the large snapshot.  `ShutdownEnds`
  speaks only of a `shutdown()` that found the socket in use: one that comes while
  the manager connects shuts the old socket, and the manager reads the new one until
  the daemon closes it.
* `ZombieBounded`: `hung`, the loop waits for a daemon that hangs.
* `KeysVanish`: a lease outlives its holder by a ttl, counted from the grant if that
  came later, but by almost two when a heartbeat that was stuck in a stall is handled
  after the holder's end (`late`).
* `WorkersEnd` and `StopReturns`: `Stranded`, a stream queued behind another arrival
  of its call or the timeout marker.  Nobody reads it and nobody drops it, so its
  connection thread, and the worker behind it, may block for ever.
* `ListedIsServed`: an instance whose `kv_create` threw although the key was stored
  or is stored later, and one that a second `serve`, refused the key, has stripped of
  its handlers; both stay listed until their lease ends.

## Proofs

| module | theorem | states |
|---|---|---|
| `DiscoveryServerProofs` | `TypeCorrect` | `ServerSpec => []ServerTypeOK` |
| | `BindingsAgree` | `ServerSpec => []LeaseBinding` |
| | `LogIsFaithful` | `ServerSpec => []LogFaithful` |
| | `Refinement` | `ServerSpec => ImplementsLeaseStore` |
| `KvPoolProofs` | `PoolInvariant`, `PoolTypeCorrect`, `PoolIndexesAgree`, `PoolNothingLost`, `PoolCounted` | the pool alone, under any sequence of its operations |
| `KvManagerProofs` | `ManagerUsesPool` | `Spec => PoolSpec`: the manager refines the pool |
| | `ManagerIndexesAgree`, `ManagerNothingLost`, `ManagerCounted` | hence the pool's properties under the manager |

Assumptions are those named in the modules (`ServerAssumption`, `PoolAssumption`,
`ManagerAssumption`): finite sets of keys, blocks and hashes, hashes other than 0,
prompts that are sequences of hashes, and bounds that are natural numbers.  The
theorems hold for every value of the bounds.

*The daemon.*  The inductive invariant `ServerInv` is the conjunction of the type
invariant, `LeaseBinding`, `LogFaithful` and `IdsIssued`, that the ids of live
leases are below the next one.  Without `IdsIssued` a grant could reuse the id of
a live lease and unbind its keys; without the binding the death of a lease need
not remove exactly its keys, and the step would not be one of `LeaseStore`.
`DiscoveryLogProofs` has the lemmas about the log: what trimming keeps, and that a
step which logs what it does to the store keeps the log faithful, whatever the
step.  The refinement maps the store to `LeaseStore` by dropping revisions.

*The pool.*  `PoolInv` is the conjunction of all four properties.  Three lemmas
carry it: `Removal` (some hashes and a prefix of the queue are handed out) covers
`match_blocks` and `take_blocks`, `Parking` covers `insert` and `return_block`,
`Wiping` covers `reset` and `reset_all`.  The counter needs that a bijection
relates hashes, keys and blocks, which is what the two indexes agree on.

*The manager.*  Every action is one operation of the pool or leaves it alone.  To
see it only the types of the handles are needed (`HandlesOK`), and that a request
which gives up a duplicate still holds it (`DuplicateHeld`).

Only model-checked: everything about `TcpDiscovery`, `LeaseKeeper`, `DataPlane`
and `ControlPlane`; `OneOwner`, `PrefixMatched` and `InFlightRegistered` of the
manager; all liveness (the prover does not treat fairness).

## Not modelled

Subscriptions and queues of the daemon, authentication, TLS, the in-process and
etcd backends, instance selection, the runtime's own executor, timers and
cancellation tokens, the KV router, and the LLM layer above.  Data that no
property tells apart is left out of what is modelled: payloads, headers, logging,
the contents of token blocks.  The daemon's outgoing buffers are unbounded.

## Plan

1. `KvRouter`: the prefix tree under workers' events in any order, removal of
   workers, `find_matches` against the blocks each worker has; the scheduler's
   choice and its load bookkeeping.
2. `InProcess`: the in-process backend as a second refinement of `LeaseStore`, with
   the two-step lease creation; `InstanceSource` over a watch: no change missed
   for good.
3. `Channel`, `Cancellation`, `Executor`: bounded channel and event refining a
   queue, cancel racing registration and reset, timer racing cancellation, work
   posted at stop; liveness of a waiting coroutine.
4. Subscriptions and queue dispatch of the daemon; bounded outgoing buffers.
5. Pure algorithms over bounded inputs: `push_token` against `split_tokens`, the
   incremental decoder and stop strings of `backend.cpp`, SSE lines, frame lengths.
6. HTTP service and model watcher over discovery.
7. Proofs: `OneOwner` and `InFlightRegistered` of the manager, `OneHolder` and
   `AnswersMatch` of the control plane, `ArrivalFits` of the data plane,
   `LiveKeysMirrored` of the client.
