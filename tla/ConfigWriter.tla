---------------------------- MODULE ConfigWriter ----------------------------
(***************************************************************************)
(* The control plane's write path (sie-config): POST, PUT and DELETE of    *)
(* model configs, serialised by the per-app write lock, each of them       *)
(* persist -> mutate the registry -> increment the epoch -> publish, with  *)
(* process crashes, storage errors, a request cancelled between two        *)
(* awaits, and deltas that never reach the wire.                           *)
(*                                                                         *)
(* A model config maps profiles to their content, None for a profile it    *)
(* does not have; the config without profiles stands for "no such model".  *)
(***************************************************************************)
EXTENDS Integers, Sequences

CONSTANTS Models, Profiles, Contents, None,
          HasStore,   \* is a ConfigStore configured and restored from?
          Workloads,  \* the deployments, clients and faults to look at
          NoJob

Config == [Profiles -> Contents \cup {None}]
Empty == [p \in Profiles |-> None]
Catalog == [Models -> Config]

AllOps == {"add", "replace", "delete"}
AllFaults == {"crash", "store_write", "epoch_read", "epoch_write", "publish",
              "cancel", "http", "startup_http", "ipc", "startup_ipc",
              "backend_restart", "gateway_restart"}

Job == [op : AllOps, model : Models, body : Config]
Delta == [epoch : Nat, model : Models, config : Config, catalog : Catalog]

ASSUME CatalogAssumption == None \notin Contents
ASSUME DeploymentAssumption == HasStore \in BOOLEAN /\ NoJob \notin Job
ASSUME WorkloadAssumption == \A w \in Workloads :
  /\ w.baked \in Catalog           \* the catalog in the sie-config image
  /\ w.ops \subseteq AllOps         \* the write endpoints in use
  /\ w.bodies \subseteq Config      \* the request bodies sent to them ...
  /\ w.models \subseteq Models      \* ... and the models they name
  /\ w.faults \subseteq AllFaults   \* what may go wrong, see Fault
  /\ w.maxWrites \in Nat /\ w.maxFaults \in Nat  \* bounds

VARIABLES
  world,     \* the workload of this behaviour
  store,     \* ConfigStore: the persisted API configs
  registry,  \* ModelRegistry: the catalog this process serves
  epoch,     \* ConfigStore: the epoch file
  pc,        \* where the holder of the write lock is
  job,       \* the request it executes
  wire,      \* deltas in flight on sie.config.models.<bundle>
  writes, faults,
  torn       \* history: models with a DELETE cancelled half-way, not yet
             \* repaired

writerVars == <<world, store, registry, epoch, pc, job, wire, writes, faults,
                torn>>

Fault(f) == /\ f \in world.faults /\ faults < world.maxFaults
            /\ faults' = faults + 1

----------------------------------------------------------------------------
(* Catalog operators.                                                      *)

\* Append-only merge (add_model_config): what is there stays.
Merge(base, body) == [p \in Profiles |-> IF base[p] # None THEN base[p] ELSE body[p]]

\* Persisted merge (add_model): the stored document updated by the body.
Update(base, body) == [p \in Profiles |-> IF body[p] # None THEN body[p] ELSE base[p]]

\* ProfileConflictError
Conflicts(base, body) ==
  \E p \in Profiles : base[p] # None /\ body[p] # None /\ base[p] # body[p]

Creates(base, body) == \E p \in Profiles : base[p] = None /\ body[p] # None

\* Mutant of Restored: the store is not read at startup.
RestoredImageOnly(st) == world.baked

\* What a starting process serves: the image's catalog, and on top of it each
\* stored config through add_model_config, dropped when that raises.
Restored(st) ==
  [m \in Models |-> LET base == world.baked[m] IN
     IF Conflicts(base, st[m]) THEN base ELSE Merge(base, st[m])]

\* The YAML /v1/configs/export serves for each model of the registry: the
\* stored document, else the image's, else the registry's own.
Exported ==
  [m \in Models |->
     CASE registry[m] = Empty -> Empty
       [] registry[m] # Empty /\ HasStore /\ store[m] # Empty -> store[m]
       [] /\ registry[m] # Empty /\ HasStore
          /\ store[m] = Empty /\ world.baked[m] # Empty -> world.baked[m]
       [] OTHER -> registry[m]]

----------------------------------------------------------------------------
WriterInit ==
  /\ world \in Workloads
  /\ store = [m \in Models |-> Empty]
  /\ registry = world.baked
  /\ epoch = 0
  /\ pc = "idle" /\ job = NoJob
  /\ wire = <<>>
  /\ writes = 0 /\ faults = 0
  /\ torn = {}

\* Validation under the lock.  Everything refused or found unchanged here
\* leaves no trace.
Accepted(j) ==
  LET current == registry[j.model] IN
  CASE j.op = "add"     -> ~Conflicts(current, j.body) /\ Creates(current, j.body)
    [] j.op = "replace" -> j.body # Empty /\ j.body # current
    [] j.op = "delete"  -> j.body = Empty /\ HasStore /\ store[j.model] # Empty

LockAndValidate ==
  /\ pc = "idle" /\ writes < world.maxWrites
  /\ \E j \in [op : world.ops, model : world.models, body : world.bodies] :
       Accepted(j) /\ job' = j
  /\ writes' = writes + 1
  /\ pc' = "persist"
  /\ UNCHANGED <<world, store, registry, epoch, wire, faults, torn>>

\* Mutant of Persisted: an append overwrites the stored document.
PersistedRaw(stored, j) == j.body

\* The document a write leaves in the store: appended profiles are merged
\* into it, a PUT replaces it, a DELETE removes it.
Persisted(stored, j) == IF j.op = "add" THEN Update(stored, j.body) ELSE j.body

\* write_model / delete_model, before the registry.  A write error aborts.
Persist ==
  /\ pc = "persist"
  /\ store' = IF HasStore THEN [store EXCEPT ![job.model] = Persisted(@, job)]
                          ELSE store
  /\ pc' = "mutate"
  /\ UNCHANGED <<world, registry, epoch, job, wire, writes, faults, torn>>

PersistFails ==
  /\ pc = "persist" /\ HasStore /\ Fault("store_write")
  /\ pc' = "idle" /\ job' = NoJob
  /\ UNCHANGED <<world, store, registry, epoch, wire, writes, torn>>

\* delete_model awaits read_epoch, unshielded, between the durable delete and
\* the registry: a cancellation delivered there ends the request.
CancelDelete ==
  /\ pc = "mutate" /\ job.op = "delete" /\ Fault("cancel")
  /\ pc' = "idle" /\ job' = NoJob
  /\ torn' = torn \cup {job.model}
  /\ UNCHANGED <<world, store, registry, epoch, wire, writes>>

\* add_model_config / replace_model_config / remove_model_config with the
\* image's config as the fallback.
Mutate ==
  /\ pc = "mutate"
  /\ registry' = [registry EXCEPT ![job.model] =
       CASE job.op = "add" -> Merge(@, job.body)
         [] job.op = "replace" -> job.body
         [] job.op = "delete" -> world.baked[job.model]]
  /\ pc' = "bump"
  /\ torn' = IF job.op = "add" THEN torn ELSE torn \ {job.model}
  /\ UNCHANGED <<world, store, epoch, job, wire, writes, faults>>

NextEpoch(current) == current + 1

\* increment_epoch, a read-modify-write of the epoch file.  A delete is not
\* published: the delta format cannot express a tombstone.
IncrementEpoch ==
  /\ pc = "bump"
  /\ epoch' = IF HasStore THEN NextEpoch(epoch) ELSE epoch
  /\ IF job.op = "delete" THEN pc' = "idle" /\ job' = NoJob
                          ELSE pc' = "publish" /\ job' = job
  /\ UNCHANGED <<world, store, registry, wire, writes, faults, torn>>

\* read_epoch answers 0 when the file cannot be read, so the increment
\* writes 1.
IncrementAfterReadError ==
  /\ pc = "bump" /\ HasStore /\ Fault("epoch_read")
  /\ epoch' = NextEpoch(0)
  /\ IF job.op = "delete" THEN pc' = "idle" /\ job' = NoJob
                          ELSE pc' = "publish" /\ job' = job
  /\ UNCHANGED <<world, store, registry, wire, writes, torn>>

\* The epoch file cannot be written: the request fails, the write stays.
IncrementFails ==
  /\ pc = "bump" /\ HasStore /\ Fault("epoch_write")
  /\ pc' = "idle" /\ job' = NoJob
  /\ UNCHANGED <<world, store, registry, epoch, wire, writes, torn>>

\* The YAML of the delta: the document just persisted for an append, the
\* registry's merged config otherwise.
DeltaConfig == IF job.op = "add" /\ HasStore THEN store[job.model]
                                             ELSE registry[job.model]

\* publish_config_notification, still under the write lock.  `catalog` stands
\* for the bundle and pool hashes computed from the registry.
Publish ==
  /\ pc = "publish"
  /\ wire' = Append(wire, [epoch |-> epoch, model |-> job.model,
                           config |-> DeltaConfig, catalog |-> registry])
  /\ pc' = "idle" /\ job' = NoJob
  /\ UNCHANGED <<world, store, registry, epoch, writes, faults, torn>>

\* A publish error is a warning in the response; the write stays.
PublishFails ==
  /\ pc = "publish" /\ Fault("publish")
  /\ pc' = "idle" /\ job' = NoJob
  /\ UNCHANGED <<world, store, registry, epoch, wire, writes, torn>>

\* The process dies and starts again: the registry is rebuilt from the image
\* and the store, the request and its lock are gone.
Crash ==
  /\ Fault("crash")
  /\ registry' = IF HasStore THEN Restored(store) ELSE world.baked
  /\ pc' = "idle" /\ job' = NoJob
  /\ torn' = {}
  /\ UNCHANGED <<world, store, epoch, wire, writes>>

WriterStep == \/ Persist \/ Mutate \/ IncrementEpoch \/ Publish
WriterFault == \/ PersistFails \/ CancelDelete \/ IncrementAfterReadError
               \/ IncrementFails \/ PublishFails \/ Crash

WriterNext == LockAndValidate \/ WriterStep \/ WriterFault

----------------------------------------------------------------------------
(* Properties.                                                             *)

\* Every variable of the writer has its type.
WriterTypeOK ==
  /\ world \in Workloads
  /\ store \in Catalog /\ registry \in Catalog
  /\ epoch \in Nat
  /\ pc \in {"idle", "persist", "mutate", "bump", "publish"}
  /\ job \in Job \cup {NoJob}
  /\ wire \in Seq(Delta)
  /\ writes \in 0..world.maxWrites /\ faults \in 0..world.maxFaults
  /\ torn \subseteq Models

\* Between two writes a restart changes nothing: each config being served is
\* the one a new process would rebuild from the image and the store.  The only
\* exceptions are a model whose DELETE was cancelled between the two, until a
\* PUT, a DELETE or a restart repairs it (an append does not), and a model of
\* the image that a PUT replaced, whose stored config a restart drops.
RestartIsInvisible ==
  pc = "idle" /\ HasStore =>
    \A m \in Models \ torn :
      world.baked[m] = Empty \/ world.ops = {"add"} =>
        registry[m] = Restored(store)[m]

\* The models whose config is all in the store, or all in the image: an
\* append to a model of the image is stored, exported and published without
\* the profiles of the image.
Whole == {m \in Models \ torn : world.baked[m] = Empty \/ store[m] = Empty}

\* Between two writes the models of an export are the catalog its hashes are
\* computed from, so a worker that installs the export computes those hashes
\* (but for models with a half-way DELETE, and appended models of the image).
ExportIsRegistry ==
  pc = "idle" => \A m \in Whole : Exported[m] = registry[m]

=============================================================================
