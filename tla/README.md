# TLA+ models of the Superlinked Inference Engine

SIE serves embedding, scoring, extraction and generation models from a cluster
of workers. This directory holds TLA+ specifications of its stateful parts,
TLC configurations that check them on small instances, and TLAPS proofs of the
results that must hold for every size. `PROJECT.json` maps every definition to
the source lines it models and lists runs, mutants, findings, hazards and
theorems.

## The system

| Part | Source (`packages/`) | State | Operations |
|---|---|---|---|
| control plane `sie-config` | `sie_config` | model registry, `ConfigStore` (YAML documents, epoch file), write lock, idempotency cache | POST / PUT / DELETE of model configs, restore at startup, publish a delta, answer `/v1/configs/epoch` and `/v1/configs/export` |
| config subject | Core NATS `sie.config.models.<bundle>` | none: it forgets | deliver or lose a delta |
| sidecar config subscriber, reconciler | `sie_server_sidecar`: `config_subscriber.rs`, `config_reconciler.rs` | `ConfigApplyState` (epoch, bundle hash, barrier), last fingerprint | apply a delta, poll the epoch, fetch and install an export |
| gateway config state | `sie_gateway`: `config_bootstrap.rs`, `config_poller.rs`, `nats/manager.rs`, `model_registry.rs` | registry, expected hashes, recorded epoch and fingerprint | merge a delta, bootstrap from an export, poll |
| sidecar adapter pool, heartbeat | `backend/adapter_pool.rs`, `lib.rs`, `pinned_reconciler.rs` | children, ready flags, quarantine, generation, advertised hash; placements, load figures, pinned set and its revision | fan out a config request, run a batch, record a health probe; place a model, charge and release queued items, push pins |
| request path | `queue/publisher.rs`, `handlers/proxy.rs`, `dispatcher.rs` | pending requests, JetStream copies, tombstones, payload keys | publish, deliver, execute, collect, fall back, time out, cancel, clean up |
| generation | `queue/streaming.rs`, `processors/streaming.py` | stream collector, KV reservations, cancel handles, chunk queue | admit, decode, publish chunks, refuse, republish, cancel |
| model registry of the backend | `sie_server`: `core/registry.py`, `memory.py`, `watcher.py`, `hot_reload.py` | configs, loaded models, LRU order, pins, LoRAs | load, unload, evict, update, reload |
| model worker | `core/worker/`, `core/batcher.py` | queues, batch in flight, active LoRA | submit, cut a batch, run it, recover from out-of-memory, stop |
| leased pools | `pool_manager.rs`, `k8s_pool_*.rs`, SDK clients | pools in memory, ConfigMap, Lease, renewal task | create, renew, expire, delete, watch |

A write enters `sie-config`, is persisted, enters the registry, increments the
epoch and is published as a delta. Workers and gateways apply deltas. Core NATS
loses messages, so both also poll the epoch and a fingerprint of the catalog,
and install a full export when either differs. The gateway routes only to
workers that advertise the hash it expects, and a worker refuses an item whose
hash is not the one it has verified. The config path therefore decides what
may execute.

A request enters the gateway, which publishes one work item per input on a
JetStream subject, of a pool or of one worker, and waits for the results on a
Core NATS inbox. A sidecar takes an item, checks cancellation and hash, runs
it, publishes its result and acknowledges it. Items run again when an
acknowledgement is lost or late. A generation is one item whose answer is a
stream of numbered chunks, and a second attempt may replace the first until a
chunk has been seen.

In the backend one registry loads models onto devices and evicts them, one
worker per loaded model batches its requests. Client SDKs reserve pools of
workers and renew their lease.

### What is hard here

* A fan-out to several processes succeeds for some and fails for others, while
  health probes on other threads mark the same processes ready.
* Failed calls and probes move models between those processes while queued work
  is charged to the old one and pins are being pushed to both.
* A write has four steps. The process can die, the storage can fail and the
  request can be cancelled between any two of them, and polls take no lock.
* Deltas are lost or overtaken by an export. Three tasks of a gateway write
  to one registry, and only single calls are atomic.
* An item exists in two copies, one for the worker it was sent to and one for
  the pool. Cancels, stale-result rules and acknowledgements each remove one.
  Together they must not remove both.
* Completion, timeout, disconnect, expiry, a failed publish and a rejected
  result race for the end of a request, and its cleanups overlap.
* Two deliveries of one generation run on one worker and share its budget and
  its cancel handles. A stalled publisher fills the chunk queue.
* Loads, evictions, updates, hot reloads and LoRA loads await in the middle,
  and every one of them must give the load lock back.
* A batch splits and retries under memory pressure while callers leave and the
  worker is told to stop.
* A pool's renewal time lives in the memory of one replica, in a ConfigMap and
  in a Lease, which are written one after the other.

`PROJECT.json` lists these under `hazards`, each at its line and with the
properties that would catch it.

## The modules

| Module | Models | Source |
|---|---|---|
| `ConfigFanout` | execution barrier, fan-out, quarantine, health successes, batches, heartbeat of one sidecar | `backend/adapter_pool.rs`, `config_subscriber.rs`, `lib.rs` |
| `AdapterPlacement` | extends it with placement, scheduler pressure, calls and pinned models | `backend/adapter_pool.rs`, `pinned_reconciler.rs`, `dispatcher.rs` |
| `ConfigWriter` | the write path of `sie-config` with its store | `config_api.py`, `config_store.py`, `model_registry.py` |
| `ConfigPlane` | extends it with the lossy subject and a worker | `config_reconciler.rs`, `config_subscriber.rs` |
| `GatewayConfig` | extends that with a gateway | `config_bootstrap.rs`, `config_poller.rs`, `nats/manager.rs`, `model_registry.rs` |
| `Idempotency` | wait-or-claim of writes with an Idempotency-Key | `config_api.py` |
| `WorkerDispatch` | JetStream copies, the sidecar's dispatcher, cancel signals | `dispatcher.rs`, `batch_cancel.rs`, `nats_consumer.rs` |
| `WorkDelivery` | extends it with the gateway's handler, durability monitor, fallback task, collector | `queue/publisher.rs`, `handlers/proxy.rs`, `queue/dispatch.rs` |
| `RequestReply` | what the request path promises a client, abstractly | |
| `PayloadStore` | offloaded payloads and their cleanup | `queue/publisher.rs`, `queue/payload_store.rs` |
| `ProcessorState` | KV budget, cancel handles and tombstones, grammar compile of one worker | `processors/streaming.py` |
| `StreamingProcessor` | one delivery of a generation on a worker | `processors/streaming.py` |
| `StreamCollector` | the gateway's collector of one stream | `queue/streaming.rs` |
| `GenerationStream` | composes the three with queue, handlers, cancels and the fallbacks | `handlers/proxy.rs`, `queue/publisher.rs` |
| `MemoryManager` | LRU accounting of one device | `core/memory.py`, `core/residency.py` |
| `ModelRegistry` | the load lock and everything that runs under it | `core/registry.py`, `core/load_errors.py` |
| `ModelConfigUpdates` | config updates, snapshots and pins of a running registry | `core/registry.py` |
| `HotReload` | file watcher and reloader | `core/watcher.py`, `core/hot_reload.py` |
| `LoraResidency` | LoRAs of a resident model | `core/registry.py`, `core/model_loader.py` |
| `ModelResidency` | composes the five | |
| `BatchFormer`, `OomRecovery` | cutting and grouping a batch; recovery of a group | `core/batcher.py`, `core/worker/` |
| `ModelWorker` | the worker of one model | `core/worker/model_worker.py` |
| `PoolManager` | a leased pool in the gateway replicas and in Kubernetes | `pool_manager.rs`, `k8s_pool_backend.rs`, `k8s_pool_watcher.rs` |
| `PoolClient` | the asyncio and the threaded SDK client of a pool | `sie_sdk` clients |
| `PoolLeases` | composes the two | |
| `...Proofs` | theorems about the module of that name | |
| `MC...` | constants and workloads for TLC | |

Three conventions hold throughout. A step is what the code does between two
points where others can run: an await, a lock that is dropped, an atomic load or
store. Faults are actions of their own, each counted against a bound. Where the
interesting cases need different inputs, a workload (`world`, `ask`, `budget`)
chosen by `Init` fixes what the environment may do, so that one run covers
several small mixes instead of one large one.

### Configuration: ConfigFanout, AdapterPlacement, ConfigWriter, ConfigPlane, GatewayConfig

In `ConfigFanout` a registry maps models to versions, and the bundle hash is the
registry itself (no collisions), or empty when no model is configured. `wpc` is
the program counter of the one task that holds `lock_apply`. Its actions follow
`begin_config_fanout` (generation and flag, then the ready flags), one step per
child of the sequential loop, and the three ends: error, diverging answers,
success. `mark_child_ready_from_health_success` is four steps, because its two
loads and two stores of different atomics are what the code relies on. A batch
records the revision of its child when it starts. Coarser than the code: the
loop that clears all ready flags is one step (`HideChildren`), and the states
before it are excluded from the quarantine invariant (`wpc # "hide"`). The
history variable `faulty` records whether a child has restarted or withheld its
hash, and the properties that such a child breaks speak of the time before.

`AdapterPlacement` is the rest of the pool. `placements`, `models`,
`pendingItems`, `pendingCost` and `inflight` are the fields of the code, and
`ChildForModel` is `child_for_model` under its lock: the model stays on a ready
child, or goes to the least loaded one. An item remembers the child it was
charged to (`worker_child_index`). A `task` is a dispatcher task between two
awaits: it holds a batch or a generation, runs it on a child, waits for
`EnsureModelReady`, or has a placement to clear after a failure. `pinner` is one
`refresh` of the reconciler, split as `set_pinned_models` is: read the revision,
replace the set (`UpdatePinnedSet`), place its models one by one, push to one
child after the other, record. Calls to a child change its ready flag by the
actions of `ConfigFanout`, so the composition implements it. Coarser than the
code: placement reads all ready flags at once, and the quarantine check of
`EnsureModelReady` and its placement are one step.

In `ConfigWriter` a config maps profiles to contents. `pc` walks through
persist, mutate, bump and publish for the request that holds the write lock.
`Merge` is the registry's append-only merge and `Update` is the merge of stored
documents: different functions in the code, applied to different bases.
Requests that are refused or found unchanged leave no trace. `torn` marks a
model whose DELETE was cancelled between store and registry.

`ConfigPlane` adds a worker. What its sidecar does under `lock_apply` is one
step here, and `ConfigFanout` is what happens inside. The reconciler's tick is
split where the code awaits: local epoch, remote epoch, remote fingerprint,
compare, fetch, apply. `epoch_bump` notifications are handled by the sidecar
but never sent by `sie-config`, and are left out.

`GatewayConfig` adds a gateway. A delta is merged into the registry
(`add_model_config` for models with a default profile), then its hashes are
installed: two steps. A bootstrap is a poll before the fetch, the bundles, the
export, the replacement of the models, the hashes and the record of epoch and
fingerprint, six steps of either the startup task or the poller. A delta that
conflicts with the registry, or arrives before the bundles, is refused. The
history variable `mixed` marks the interleavings after which the tasks have
left the registry and the record apart (see *Findings*).

### Idempotency

One handler per request. `MayClaim` is the state in which `_idempotency_claim`
returns the caller as the new owner. Waiting, replaying and refusing are the
other outcomes of the same section under the lock. An owner ends in `Finish` or
`Fail`, and `Restart` loses everything the process knew.

### Requests: WorkDelivery, WorkerDispatch, PayloadStore

A copy is a request, an item and a route (`direct` or `pool`). `at` is where
JetStream has it, a run is one delivery inside a sidecar, and several runs of
one copy exist when `ack_wait` passed. A publish reaches the stream in the step
that issues it or never does, and the broker may store it and lose the ack.
Removing the collector from `pending_results` decides every race for the end
of a request, so each end is one action with `Remove`. `Status` maps the
handler to `RequestReply`: a request is open until the client is told
something, and `results` needs every item worked.

Abstracted: an outcome and a typed error are both results. A check of a cancel
signal that was sent sees it or does not, which covers late and lost signals
and tombstones that expired or were evicted. A result that could not be
published is a negative acknowledgement, since the only difference is when the
copy comes back. A chunked result is accepted or rejected as a whole. Requests
refused before a collector exists leave no trace. The gateway itself does not
crash: its memory is the whole request.

`PayloadStore` has the items above the offload threshold. `step` follows
`publish_single`: record the key, write, publish the reference. A handler that
is dropped leaves its writes `adrift`, and they may land much later. A cleanup
pass takes a snapshot of the tracked keys and then deletes and retires them one
by one, and passes overlap. The history variable `late` marks the blobs that
land when their request is over and their key was deleted.

### Generation: ProcessorState, StreamingProcessor, StreamCollector, GenerationStream

An attempt is one delivery of a generation on a worker. `pc` follows
`_stream_generate` from prewarm through cancel registration, load, admission
and the decode loop to the settlement of the queue message. What the adapter
yields becomes a plan, a sequence of puts on the bounded chunk queue, and a
publisher task drains it. A text is a sequence of tokens tagged with their
attempt, so that "complete" and "of one attempt" can be said of it. Deliveries,
redeliveries and cancels of the queue are `GenerationStream`'s, as are both
fallbacks: the republish after a NAK and the one after a late first chunk.

A plain request is answered from the collector. An SSE request is answered from
a broadcast channel, `tap`, which keeps the last `TapMax` chunks: the driver
forwards them one by one, a reader that lags gets an error instead of a text with
a hole, and what was forwarded before a fallback stays with the client. The KV
admission check can be switched off, as it is by default (`ask.gated`).
Tool-call parsing, usage and the text of chunks are left out.

### Models: ModelRegistry and its modules

Everything that loads, unloads or evicts takes one asyncio lock. A task that
needs it is a job: jobs wait in FIFO order, `job` is the holder, and its `step`
walks through prepare, make room, load, drain and tear down. A config is a
version, there is one device, a memory reading is an arbitrary Boolean, and an
error is one of the three classes the registry tells apart. The config update
lock admits one update at a time around the load lock. A LoRA belongs to one
loaded instance of its model (`inst`), so that a load that ends after a reload
is told apart. `pushed` and `lost` mark the models a sidecar update changed and
those whose last reload failed.

### ModelWorker, BatchFormer, OomRecovery

One dispatch is in flight at a time (`disp`), the loop's or a pre-formed batch's.
`OomRecovery` turns the recursion of `run`, `_run_split` and
`_isolate_invalid_input` into a stack of frames, slices still to run. Time is
abstracted: a batch that may still grow may be cut at any moment. LoRAs are
loaded and unloaded by the registry without the dispatch lock, and the active
LoRA the worker remembers is kept apart from the one the adapter's layers have.
A stop may be cancelled and tried again, and a stopped worker started again.
`lost` marks the requests the code itself drops (see *Findings*).

### Pools: PoolManager, PoolClient, PoolLeases

One pool. A tick is one renewal interval, and a lease is expired when more than
`LeaseDuration` ticks have passed. Each Kubernetes call is a step, and the watch
delivers ConfigMap changes to the replicas later. Callers are tasks or threads
of one client. The load balancer sends a call to any replica. `kept` records the
last timely renewal, for the two properties about renewed pools.

## The runs

| Run | Result | What it shows | Size |
|---|---|---|---|
| `fanout` | holds | Quarantine hides the children; a batch sees one registry revision; serving children agree; pins do not drift silently; the load figures of the children are exact | 4.7 M states |
| `plane` | holds | A restart between writes is invisible; exports are what their hashes cover; "in sync" is reported only in sync, by worker and gateway; neither gets ahead of the control plane; a worker loses no served profile; both end up in step | 1.9 M |
| `idempotency` | holds | One owner per key, truthful replays, no write behind a cached response, every waiter is answered | small |
| `delivery` | holds | A waiting request never waits for an item nobody has, unless the transport lost it, and `WorkDelivery` implements `RequestReply` | |
| `payloads` | holds | Payloads are there while the request waits, none is forgotten, all are deleted in the end | small |
| `generation` | holds | The KV budget is what decoding attempts hold; a cancelled attempt takes no further token; no message is acknowledged unanswered; a complete text is one attempt's and complete, after what an SSE client already had of an abandoned one; every attempt ends | 480 k |
| `residency` | holds | Residents serve the config the registry holds; the memory manager tracks exactly the residents; the reloader converges to the files; LoRA states are true of the adapter; loads end and the lock is given back | 400 k |
| `worker` | holds | A forward pass runs under the LoRA of its items; recovery neither repeats nor forgets an item; no teardown under a forward pass; every accepted request is answered; a stop ends | 140 k |
| `pools` | holds | One renewer per pool; a created pool is renewed; calls settle; a sole gateway keeps a renewed pool; an abandoned pool is released | 310 k |
| `plane_gateway`, `generation_fallback`, `pools_replicas` | violated | See *Findings* | |

### Bounds

* `fanout`: two children and one executor, since every race modelled is between
  one fan-out, a probe and one batch; one health success is in progress at a
  time, and the theorems have no such bound. Three mixes (`focus`). `config`: two
  fan-outs with every request, so that a failed one can be followed by a partial
  one or a repair, with heartbeats and restarts. `load`: two items of two models,
  calls, and one fan-out, whose quarantine and failures move models. `pins`: the
  gateway's set grows and shrinks while `EnsureModelReady` and probes move `m1`.
  Revisions up to 4 allow a first push, the second one it entails, and a move
  during either.
* `plane` has eight workloads. `Appends`: three writes to three models, one of
  them of another pool, so that the fingerprint changes while the worker's scope
  does not. `Failures`: two writes, two faults. `Edits`: contents that can
  restore an earlier catalog. `Unnoticed`: the faults no poll can see, to bound
  what they break. `WritesOnly`: all verbs and faults of the control plane:
  add a model, cancel its DELETE, append to the rest. Three for a gateway:
  appends (a late delta, an overtaken export), edits of a model of the image
  with a restart of the gateway, and an epoch file that cannot be read. Worker
  and gateway do not talk to each other on this path, so no workload has both.
* `idempotency`: three retries of one request, one request that reuses its key,
  and one with another key whose response evicts the first (`MaxCache` is 1).
* `delivery`: one direct request of two items, so that a fallback can take one
  and leave the other, one worker that serves both routes, two deliveries per
  copy and one fault, at any step. The theorems below have no such bound.
* `payloads`: one request of two items and one failed delete or cancelled pass.
* `generation`: up to two requests and two workers, three tokens, a chunk queue
  of one, a tap of one chunk, a KV budget of one, two deliveries and two
  republished generations. Each workload has the faults of one question:
  contention with admission on and off, a shared grammar, redelivered siblings, a
  stalled publisher, a client that lags or leaves, the fallbacks of a plain and of
  an SSE request, a cold process.
* `residency`: two models, two versions, nine mixes of at most a handful of
  operations, each pairing the operations that meet at one await.
* `worker`: three queued requests, one of two items at twice the cost, and a
  pre-formed one. Either two LoRAs and an invalid item, or two configurations
  in one queue. Up to four out-of-memory errors reach the second split. Two loads
  or unloads of LoRAs meet any batch, and two stops with a start between them
  meet two cancellations.
* `pools`: three callers, two replicas, three ticks and a lease of one.
  Workloads: races inside one client, one replica with Kubernetes, two replicas.
* Runs whose system may stop at its caps say `CHECK_DEADLOCK FALSE`.

### Fairness

* `plane`: weak fairness of the writer's own steps (a request in progress runs
  on), of the subscriber and the reconciler, and of each of the gateway's three
  tasks. Each is stated over the variables that every step of that task changes,
  its program counter mostly. Starting a write, losing a delta and faults carry none. Faults are
  bounded, so "eventually" means after the last of them.
* `idempotency`: an owner finishes or fails, a waiter whose event is set resumes.
* `payloads`: the sweep (a ticker that never ends) and a running pass go on.
* `generation`: the system does not stop while a worker's task, the broker or a
  task of the gateway can go on. Deadlines and faults promise nothing.
* `residency`: the holder of the lock, the reloader and the LoRA tasks go on
  (the event loop runs what is ready). Cancellations and cooldowns do not.
* `worker`: the event loop does not idle while a task is ready, and a forward
  pass ends. Loads of LoRAs, stops and cancellations promise nothing.
* `pools`: handlers, loops and callers go on and time passes.
* `AdapterPlacement` (with `ConfigFanout`) and `WorkDelivery` are checked for
  safety only. A poll of the pools can fail for ever, so that pins reach the
  children at all is no promise of the code.

## What is proved

For any values of the constants that satisfy the modules' `ASSUME`s. The bounds
on writes, fan-outs and faults are constants too, hence arbitrary.

| Module | Theorem | Statement |
|---|---|---|
| `ConfigFanoutProofs` | `TypeCorrect` | `Spec => []TypeOK` |
| | `QuarantineHolds` | `Spec => []QuarantineHidesChildren` |
| | `RegistryStable` | `Spec => []RegistryStableDuringBatch` |
| | `ChildrenUniform` | `Spec => []UniformWhenServing` |
| | `VerifiedHash` | `Spec => VerifiedHashIsEveryChilds` |
| `AdapterPlacementProofs` | `PoolImplementsFanout` | `PoolSpec => Spec`, the `Spec` of `ConfigFanout` |
| | `PinsHold` | `PoolSpec => []PinsInForce` |
| `ConfigPlaneProofs` | `RestartInvisible`, `ExportsRegistry` | the two properties of the control plane with a worker |
| | `NeverAhead` | `Spec => []WorkerNeverAhead` |
| `GatewayConfigProofs` | `ClusterRestartInvisible` | `ClusterSpec => []RestartIsInvisible` |
| | `ClusterExportsRegistry` | `ClusterSpec => []ExportIsRegistry` |
| | `NobodyGetsAhead` | `ClusterSpec => []NobodyAhead` |
| `IdempotencyProofs` | `SingleOwner` | `Spec => []OneOwner` |
| | `TruthfulReplays` | `Spec => []ReplayIsTruthful` |
| | `NoWriteBehindCache` | `Spec => NoWriteWhileRemembered` |
| `WorkDeliveryProofs` | `NothingStranded` | `Spec => []NoItemStranded` |
| | `Refinement` | `Spec => ImplementsRequestReply` |
| `PayloadStoreProofs` | `TypesAndPasses` | types, and no pass for a request that waits |
| | `PayloadsAvailable` | `Spec => []PayloadWhileWaiting` |
| | `NoPayloadForgotten` | `Spec => []NothingForgotten` |
| `PoolLeasesProofs` | `OneRenewer` | `Spec => []AtMostOneRenewer` |
| | `CreatedIsRenewed` | `Spec => []CreatedPoolIsRenewed` |

The arguments:

* **Quarantine.** A ready child under quarantine must be traced to a probe that
  loaded the flag before it was set. `HidingInv` adds that the flag is up
  through the whole fan-out, so that the only store of `TRUE` in that window
  comes from a probe between its two loads.
* **Stable registry.** `StableInv` adds `Barrier`: while the config path is past
  its lock, no executor holds a batch.
* **Uniform children.** `ServingInv` describes the middle of a fan-out: without
  failure every child already visited holds a registry whose hash is `merged`.
  Hashes are injective, so equal hashes at the end mean equal registries.
* **Pool.** A step of the pool is a step of `ConfigFanout` or leaves it alone;
  that a call returns from a child at all needs the types (`FleetTypeOK`). So the
  theorems about the fan-out hold with placement and pins at work.
* **Pins.** Every step but the reconciler's is a `QuietStep`: the revision never
  goes back, and while it stands no pinned model moves. `PinInv` adds what a
  refresh knows while its revision stands: the last push is out of date once the
  set is updated (`OutOfDate`), the models placed so far are where it put them,
  and the children before `next` have taken its pins (`Underway`). The revision
  it records was read first, so if that is still current, all of it is.
* **Control plane.** `WriterInv` says for each position of the holder of the
  write lock which models store and registry may disagree on: the one being
  written, and the torn ones. Restored and exported catalogs follow from it.
* **Nobody ahead.** With appends only, everything on its way to a consumer (a
  delta on the subject or in hand, a fetched export) is below the registry or
  below the write that is pending (`AppendInv`, `GatewayBelow`). A crash of the
  control plane keeps this because a write is durable before it is shown.
  `GatewayKeepsIInv` carries the worker's half over to the cluster: the gateway
  only takes deltas off its subject.
* **Idempotency.** `IInv`: a marker is in the map exactly while its owner
  executes, a key is never in flight and cached at once, markers and entries say
  what happened, and a waiter waits on a request with its key and content.
* **Delivery.** `Inv`: a copy that is gone or about to be acknowledged, while
  its item is awaited, has its result on the way, or is a direct copy whose pool
  copy is confirmed (`Answered`, `Sent`, `Backed`). Direct copies are cancelled
  only when every missing item is confirmed (`Cancels`). The refinement uses
  `Truthful`: a result is the outcome of its item.
* **Payloads.** `Inv`: work of any kind exists only for requests that were
  submitted, a write that can land while its request waits has its key recorded,
  and a blob that is back after its delete is late.
* **Pool clients.** `Inv`: a renewer that was not told to stop is the one the
  client tracks (`TrackedRenewer`), `close` and the threaded `delete_pool` hold
  the lock until it has stopped (`Halting`), and until somebody deletes or
  closes, a creation keeps its slot while it posts (`Kept`).

Only model-checked: liveness (`EventuallyInStep`, `WaitersAnswered`,
`PayloadsReclaimed`, `AttemptsEnd`, `LoadsEnd`, `EveryRequestAnswered`,
`CallersSettle`, `AbandonedPoolIsReleased`), which is out of the
prover's reach; `NoSilentDrift`, `GatewayNoSilentDrift` and
`ServedCatalogGrows`; `LoadIsExact`; everything about generation, residency and the worker; and
`SoleGatewayKeepsRenewedPools`.

## Findings

Each is a run that TLC must find violated, with the quoted line in
`PROJECT.json`.

* `plane_gateway`: a delta that is applied after an export that covers it, or
  two bootstraps that overlap, leave the gateway with old expected hashes under
  the current epoch and fingerprint. Every later poll says "in sync" until the
  next write, although the poller promises that a gateway "cannot stay wedged".
* `generation_fallback`: the cancel that precedes a first-chunk fallback also
  reaches the pool's workers, and cancels or refuses the republished attempt.
* `pools_replicas`: renewals are kept by the replica that receives them and in
  the Lease, which no other replica reads. A replica that knows the pool from
  the ConfigMap expires and deletes it although every renewal came in time.

Other behaviours met while modelling. Those that touch a property are named in
it as its exception (`Noticed`, `torn`, `mixed`, `faulty`, `late`, `lost`,
`rescanned`), or excluded by the workloads.

Configuration:

* A startup export that fails after its fingerprint was recorded is not retried,
  although the log says "will retry" (`config_reconciler.rs:335`, `:365`).
* A delta whose hash does not match has already changed the children, and the
  old hash stays advertised (`config_subscriber.rs:749`).
* An append to a model of the image is stored and exported without the image's
  profiles, under the hash of the merged model. A PUT over such a model is
  undone by the next restart.
* A DELETE cancelled between store and registry shows at the next restart.
* An unreadable epoch file reads as 0, so the next epoch is 1.
* The heartbeat stores a hash without the barrier, possibly over a verified one.
* A backend restart under a live sidecar is not noticed, nor is a write that
  restores the recorded fingerprint and loses its epoch bump to a crash.
* Without a store, a late delta undoes an export.
* A child that restarts has only the pins of its deployment until a pinned model
  moves or the set changes: nothing tells the reconciler. A push that changes the
  set records the revision before that change, so a second push follows it.
* A PUT that is reverted within one poll interval leaves its profile in the
  gateway, whose deltas only add.
* `architecture-guide.md` of the gateway says a write is never executed twice
  for one key. That holds while the response is cached and the process lives.

Requests and generation:

* A payload write that lands after its key was deleted stays in the store.
* A second NAK after the republish is not acted on, and the request waits for
  its timeout. Losing the first or the last deltas passes the gap check.
* The timeout of one follower of a shared grammar compile cancels the compile.
* Chunks of the first attempt that arrive between the deadline of the first chunk
  and the fallback are forwarded to an SSE client, and the text of the second
  attempt follows them (`sse.rs`).

Backend:

* `stop()` while the loop waits for the dispatch lock drops the extracted batch,
  and a cancelled future can end the loop (`model_worker.py`).
* An unload of the active LoRA, or a load while a batch runs, changes the layers
  under a forward pass: neither takes the dispatch lock. A batch that asks for a
  LoRA when the adapter holds none runs on the base model. A batch whose LoRA was
  unloaded after it was cut is dropped unanswered.
* After two cancellations of `stop()` the next unload tears the adapter down
  although a forward pass still runs. A worker that is started again keeps the
  executor that its stop has shut down.
* A LoRA that is evicted and asked for again while its first load still runs can
  be reported ready before the adapter holds it. A cancelled blocking load leaves its LoRA in the loading state, and the LoRAs of
  the profiles are preloaded without regard to the limit on their number. The
  SGLang embedding adapter declares LoRA support and its `load_lora` raises.
* The watcher names a change after the file, so the reload of a model with a
  slash in its name does nothing. A change is lost when its model is evicted
  during the drain.
* A successful direct load leaves an earlier failure on record. A victim's
  failing teardown is charged to the model being loaded.
* The comment at `watcher.py:382` says callbacks fire outside the lock. They run
  under it.

Pools:

* A pool created again between a sweep's check and its removal is removed.
* A ConfigMap whose deletion fails is left behind.
* An asynchronous `delete_pool` that is cancelled while it waits for a creation
  suppresses the cancellation, takes the slot of that creation and goes on to the
  DELETE. A pool that the creation still makes is then not renewed
  (`async_.py:1141`).

## Not modelled

* *Sidecar scheduler, admission and readiness, result publication, IPC
  multiplexer.* Each keeps the state of one process (queues, permits, partial
  replies). The scheduler's decisions are
  floating-point estimates. `WorkDelivery` accepts or rejects a chunked result
  as a whole and delivers to any worker, so it does not depend on them.
* *Gateway admission, keyed workers, dead letters, demand tracking.* They refuse
  or count requests before or beside the protocols modelled here.
* *Gateway config:* drift of the bundle set, an unavailable control-plane
  registry (empty hashes), the config file watcher, the producer filter, and
  models without a default profile, for which deltas replace. A notification
  that cannot be parsed counts as lost.
* *Registry of the control plane:* bundle and adapter matching, LoRA checks,
  metadata conflicts, which refuse a request before any state changes.
* *Generation:* payloads of generation requests (a protocol of their own),
  tool-call parsing, work classes, usage, and the wait of the gateway's handlers
  for the acknowledgement of the dispatch before they give out a terminal.
* *Backend:* the adaptive batching controller, memory estimates as numbers, the
  instantiation of adapters, framing and decoding of IPC.
* *Pools:* static and default pools (no lease), the legacy constructor pool, a
  restore that fails at restart. Answers are well-formed.
* *SDKs beyond pools:* encoding and the retry ladders of single calls, which
  keep no state between calls; the TypeScript client.
* *Adapters, preprocessing, MCP server, audio, telemetry, deployment:* numerics
  around third-party engines, thin layers and configuration, without protocol
  state.

Out of the prover's reach: liveness, and what recursive definitions compute for
every input (`NeedOf`, the stack of `OomRecovery`), which stay with TLC.
