---------------------------- MODULE ModelRegistry ----------------------------
(***************************************************************************)
(* The model registry of a sie_server process (core/registry.py and the    *)
(* loader it drives, core/model_loader.py): which models are resident,     *)
(* under which config, and who may load, unload, evict or replace them.    *)
(*                                                                         *)
(* Every load, unload and eviction runs under one asyncio lock.  A task    *)
(* that needs it is a job: jobs wait in FIFO order (asyncio.Lock never     *)
(* lets a newcomer overtake a waiter) and `job` is the one that holds it.  *)
(* A step below is one stretch of a task between two awaits, so everything *)
(* that the event loop may interleave with it is a step of its own.        *)
(*                                                                         *)
(* Data are abstracted: a config is a version, one device, a model's       *)
(* weights have no size (a memory reading is an arbitrary Boolean), and an *)
(* error is one of the three classes the registry tells apart.             *)
(***************************************************************************)
EXTENDS MemoryManager, Naturals, SequencesExt

CONSTANTS Models,      \* model ids (the keys of _configs)
          Versions,    \* config contents
          InitialDisk  \* what models_dir may hold at startup

VARIABLES
  configs,    \* _configs: the version of each known model, or None
  disk,       \* what models_dir holds: a rescan replaces configs by it
  loaded,     \* _loaded: the version a resident model was loaded under
  lru,        \* the MemoryManager of the device
  idle,       \* models whose last use is older than idle_evict_s
  running,    \* resident models whose worker is running
  loading,    \* _loading
  unloading,  \* _unloading
  failed,     \* _failed: the class of a failure still in its cooldown
  pinned,     \* _pinned_models
  eager,      \* an _eager_load_pinned task is scheduled
  waiting,    \* the jobs that wait for the load lock, in FIFO order
  job,        \* the job that holds the load lock, or NoJob
  raised,     \* the last unload_async ended in an exception
  rescanned   \* history: models whose config a rescan changed under them

catalogVars == <<configs, disk, rescanned>>
memoryVars  == <<loaded, lru, idle, running>>
flagVars    == <<loading, unloading, failed>>
pinVars     == <<pinned, eager>>
lockVars    == <<waiting, job, raised>>
registryVars == <<catalogVars, memoryVars, flagVars, pinVars, lockVars>>

Resident == {m \in Models : loaded[m] # None}

\* Loads: a background task's, a direct call's, and the hot reloader's.
LoadKinds == {"load", "direct", "reload"}

\* Evictions, whose victim the registry chooses, and config updates, which
\* also hold the config update lock from their first to their last step.
EvictionKinds == {"oom", "idle", "monitor"}
ConfigKinds   == {"change", "remove", "replace"}

NoJob == [kind |-> "none"]

\* A job: what it is for, the version it loads or installs, the models it has
\* still to look at, and the model whose unload it is waiting for.
NewJob(kind, m, cfg, todo) ==
  [kind |-> kind, model |-> m, step |-> "start", cfg |-> cfg, todo |-> todo,
   victim |-> None, retried |-> FALSE]

Enqueue(j) == waiting' = Append(waiting, j)

Pending == Range(waiting) \union ({job} \ {NoJob})
Updating == \E j \in Pending : j.kind \in ConfigKinds

\* The lock is free and goes to the job that has waited longest.
Granted(kind) ==
  /\ job = NoJob
  /\ waiting # <<>>
  /\ Head(waiting).kind = kind

RegistryInit ==
  /\ disk \in InitialDisk
  /\ configs = disk
  /\ loaded = [m \in Models |-> None]
  /\ lru = <<>>
  /\ idle = {} /\ running = {} /\ loading = {} /\ unloading = {}
  /\ failed = [m \in Models |-> "none"]
  /\ pinned = {} /\ eager = FALSE
  /\ waiting = <<>> /\ job = NoJob /\ raised = FALSE
  /\ rescanned = {}
-----------------------------------------------------------------------------
(***************************************************************************)
(* Asking for a model.                                                     *)
(***************************************************************************)

\* _check_model_loadable: an unknown model makes the registry read models_dir
\* again, and that replaces the whole config map.
CheckModelLoadable(m) ==
  IF configs[m] = None
  THEN /\ configs' = disk
       /\ rescanned' = rescanned \union {x \in Models : configs[x] # disk[x]}
  ELSE UNCHANGED <<configs, rescanned>>

\* start_load_async: nothing to do for a model that is loaded, loading, or
\* failed in its cooldown; otherwise mark it loading and start a background
\* task, whose first step is to wait for the lock.
Startable(m) == m \notin Resident \union loading /\ failed[m] = "none"

StartLoad(m) ==
  /\ Startable(m)
  /\ CheckModelLoadable(m)
  /\ IF configs'[m] = None
     THEN UNCHANGED <<loading, waiting>>
     ELSE /\ loading' = loading \union {m}
          /\ Enqueue(NewJob("load", m, None, <<>>))
  /\ UNCHANGED <<memoryVars, pinVars, disk, raised, unloading, failed, job>>

\* load_async called directly, by the streaming processor or at startup: it
\* records no failure and ignores a recorded one.
LoadDirectly(m) ==
  /\ m \notin Resident
  /\ CheckModelLoadable(m)
  /\ IF configs'[m] = None
     THEN UNCHANGED waiting
     ELSE Enqueue(NewJob("direct", m, None, <<>>))
  /\ UNCHANGED <<memoryVars, flagVars, pinVars, disk, raised, job>>

\* A transient failure's cooldown runs out (LoadFailure.in_cooldown).
CooldownElapses(m) ==
  /\ failed[m] \in {"oom", "transient"}
  /\ failed' = [failed EXCEPT ![m] = "none"]
  /\ UNCHANGED <<catalogVars, memoryVars, pinVars, lockVars, loading, unloading>>
-----------------------------------------------------------------------------
(***************************************************************************)
(* _do_unload, under the lock on behalf of job j: the worker is stopped    *)
(* first, which takes time when it is running, then the model leaves       *)
(* _loaded, then its adapter is torn down.                                 *)
(***************************************************************************)

Forget(v) == loaded' = [loaded EXCEPT ![v] = None]

\* Stopping v's worker cancels the recovery its own batch may be waiting in.
CancelRecovery(queue, v) ==
  SelectSeq(queue, LAMBDA j : ~(j.kind = "oom" /\ j.model = v))

BeginUnload(j, v, queue) ==
  /\ unloading' = unloading \union {v}
  /\ waiting' = CancelRecovery(queue, v)
  /\ IF v \in running
     THEN /\ job' = [j EXCEPT !.victim = v, !.step = "drain"]
          /\ running' = running \ {v}
          /\ UNCHANGED loaded
     ELSE /\ job' = [j EXCEPT !.victim = v, !.step = "teardown"]
          /\ Forget(v)
          /\ UNCHANGED running

\* The worker has stopped, or drain_timeout_s has passed.
Drained ==
  /\ job # NoJob /\ job.step = "drain"
  /\ Forget(job.victim)
  /\ job' = [job EXCEPT !.step = "teardown"]
  /\ UNCHANGED <<catalogVars, flagVars, pinVars, raised, lru, idle, running,
                 waiting>>

\* stop_memory_monitor and stop_idle_evictor cancel their task while it waits
\* for the worker: the model stays loaded, without a running worker.
CancelDrain ==
  /\ job # NoJob /\ job.step = "drain" /\ job.kind \in {"idle", "monitor"}
  /\ unloading' = unloading \ {job.victim}
  /\ job' = NoJob
  /\ UNCHANGED <<catalogVars, memoryVars, pinVars, raised, loading, failed,
                 waiting>>

\* What _load_model_background records; a direct load records nothing.
Recorded(j, f, class) ==
  IF j.kind = "load" THEN [f EXCEPT ![j.model] = class] ELSE f

\* Memory was freed, so an out-of-memory failure may be tried again.
ClearTransientFailures(f) ==
  [m \in Models |-> IF f[m] = "oom" THEN "none" ELSE f[m]]

\* Mutant: a teardown that raises leaves the accounting entry behind.
TornDownLeavingEntry ==
  /\ job # NoJob /\ job.step = "teardown"
  /\ idle' = idle \ {job.victim}
  /\ unloading' = unloading \ {job.victim}
  /\ \/ /\ failed' = ClearTransientFailures(failed)
        /\ lru' = UnregisterModel(lru, job.victim)
        /\ job' = IF job.kind \in {"unload", "oom", "idle"} THEN NoJob
                  ELSE [job EXCEPT !.victim = None,
                                   !.step = IF job.retried THEN "device" ELSE "next"]
        /\ UNCHANGED <<loading, raised>>
     \/ /\ failed' = Recorded(job, failed, "permanent")
        /\ loading' = IF job.kind \in LoadKinds
                      THEN loading \ {job.model} ELSE loading
        /\ raised' = (job.kind = "unload")
        /\ job' = NoJob
        /\ UNCHANGED lru
  /\ UNCHANGED <<catalogVars, pinVars, loaded, running, waiting>>

\* The adapter is torn down, or its teardown raised.  Either way the entry of
\* the memory manager goes; an exception ends the job, and a load that needed
\* the room fails with it.
TornDown ==
  /\ job # NoJob /\ job.step = "teardown"
  /\ lru' = UnregisterModel(lru, job.victim)
  /\ idle' = idle \ {job.victim}
  /\ unloading' = unloading \ {job.victim}
  /\ \/ /\ failed' = ClearTransientFailures(failed)
        /\ job' = IF job.kind \in {"unload", "oom", "idle"} THEN NoJob
                  ELSE [job EXCEPT !.victim = None,
                                   !.step = IF job.retried THEN "device" ELSE "next"]
        /\ UNCHANGED <<loading, raised>>
     \/ /\ failed' = Recorded(job, failed, "permanent")
        /\ loading' = IF job.kind \in LoadKinds
                      THEN loading \ {job.model} ELSE loading
        /\ raised' = (job.kind = "unload")
        /\ job' = NoJob
  /\ UNCHANGED <<catalogVars, pinVars, loaded, running, waiting>>
-----------------------------------------------------------------------------
(***************************************************************************)
(* load_async under the lock.                                              *)
(***************************************************************************)

\* The job ends without the model: the class goes on record.
FailLoad(j, class) ==
  /\ failed' = Recorded(j, failed, class)
  /\ loading' = loading \ {j.model}
  /\ job' = NoJob

\* Mutant: a load that finds its config gone keeps the model marked loading.
LoadGrantedLeavingFlag(kind) ==
  /\ Granted(kind)
  /\ waiting' = Tail(waiting)
  /\ LET j == Head(waiting)
         m == j.model
     IN  IF m \in Resident \/ configs[m] = None
         THEN /\ failed' = Recorded(j, failed, IF m \in Resident THEN "none" ELSE "permanent")
              /\ loading' = IF kind = "load" /\ m \in Resident
                            THEN loading \ {m} ELSE loading
              /\ UNCHANGED job
         ELSE /\ loading' = loading \union {m}
              /\ job' = [j EXCEPT !.step = "prepare", !.cfg = configs[m]]
              /\ UNCHANGED failed
  /\ UNCHANGED <<catalogVars, pinVars, raised, loaded, running, unloading, lru, idle>>

\* The lock is granted: another task may have loaded the model, or a config
\* update dropped it, in the meantime.
LoadGranted(kind) ==
  /\ Granted(kind)
  /\ waiting' = Tail(waiting)
  /\ LET j == Head(waiting)
         m == j.model
     IN  \/ /\ m \in Resident
            /\ lru' = TouchModel(lru, m)
            /\ idle' = idle \ {m}
            /\ failed' = Recorded(j, failed, "none")
            /\ loading' = IF kind = "load" THEN loading \ {m} ELSE loading
            /\ UNCHANGED job
         \/ /\ m \notin Resident /\ configs[m] = None
            /\ failed' = Recorded(j, failed, "permanent")
            /\ loading' = IF kind = "load" THEN loading \ {m} ELSE loading
            /\ UNCHANGED <<lru, idle, job>>
         \/ /\ m \notin Resident /\ configs[m] # None
            /\ loading' = loading \union {m}
            /\ job' = [j EXCEPT !.step = "prepare", !.cfg = configs[m]]
            /\ UNCHANGED <<lru, idle, failed>>
  /\ UNCHANGED <<catalogVars, pinVars, raised, loaded, running, unloading>>

Loading == job # NoJob /\ job.kind \in LoadKinds

\* ensure_weights_cached_async and instantiate_adapter_async: download, then
\* construct under the post-download timeout.
Prepare ==
  /\ Loading /\ job.step = "prepare"
  /\ \/ /\ job' = [job EXCEPT !.step = "next"]
        /\ UNCHANGED <<failed, loading>>
     \/ \E class \in {"transient", "permanent"} : FailLoad(job, class)
  /\ UNCHANGED <<catalogVars, memoryVars, pinVars, raised, unloading, waiting>>

\* The pre-load eviction loop: while memory is short and a model may go,
\* unload it.  A tracked model that is not resident is a ghost and is dropped.
MakeRoom ==
  /\ Loading /\ job.step = "next"
  /\ LET v == GetLruModel(lru, pinned)
     IN  \/ /\ v \in Resident
            /\ BeginUnload(job, v, waiting)
            /\ UNCHANGED lru
         \/ /\ IF v = None \/ v \in Resident
               THEN /\ job' = [job EXCEPT !.step = "device"]
                    /\ UNCHANGED lru
               ELSE /\ lru' = UnregisterModel(lru, v)
                    /\ UNCHANGED job
            /\ UNCHANGED <<unloading, waiting, loaded, running>>
  /\ UNCHANGED <<catalogVars, pinVars, raised, idle, loading, failed>>

\* load_and_register_async: success; out of memory, which evicts one model and
\* tries once more; or another failure.
LoadOntoDevice ==
  /\ Loading /\ job.step = "device"
  /\ LET v == GetLruModel(lru, pinned)
     IN  \/ /\ loaded' = [loaded EXCEPT ![job.model] = job.cfg]
            /\ lru' = RegisterModel(lru, job.model)
            /\ idle' = idle \ {job.model}
            /\ failed' = Recorded(job, failed, "none")
            /\ loading' = loading \ {job.model}
            /\ job' = NoJob
            /\ UNCHANGED <<unloading, waiting, running>>
         \/ /\ ~job.retried /\ v \in Resident
            /\ BeginUnload([job EXCEPT !.retried = TRUE], v, waiting)
            /\ UNCHANGED <<lru, idle, failed, loading>>
         \/ /\ job.retried \/ v = None
            /\ FailLoad(job, "oom")
            /\ UNCHANGED <<memoryVars, unloading, waiting>>
         \/ /\ \E class \in {"transient", "permanent"} : FailLoad(job, class)
            /\ UNCHANGED <<memoryVars, unloading, waiting>>
  /\ UNCHANGED <<catalogVars, pinVars, raised>>
-----------------------------------------------------------------------------
(***************************************************************************)
(* Using a model.                                                          *)
(***************************************************************************)

\* start_worker takes the lock, so a request's touch cannot fall between an
\* idle eviction's decision and its unload.
StartWorker(m) ==
  /\ configs[m] # None
  /\ Enqueue(NewJob("worker", m, None, <<>>))
  /\ UNCHANGED <<catalogVars, memoryVars, flagVars, pinVars, job, raised>>

WorkerGranted ==
  /\ Granted("worker")
  /\ waiting' = Tail(waiting)
  /\ LET m == Head(waiting).model
     IN  IF m \in Resident
         THEN /\ lru' = TouchModel(lru, m)
              /\ idle' = idle \ {m}
              /\ running' = running \union {m}
         ELSE UNCHANGED <<lru, idle, running>>
  /\ UNCHANGED <<catalogVars, flagVars, pinVars, raised, loaded, job>>

\* touch_lru, on the request hot path.
TouchLru(m) ==
  /\ m \in Resident
  /\ lru' = TouchModel(lru, m)
  /\ idle' = idle \ {m}
  /\ lru' # lru \/ idle' # idle
  /\ UNCHANGED <<catalogVars, flagVars, pinVars, lockVars, loaded, running>>

\* Time passes: no request has used the model for idle_evict_s.
BecomesIdle(m) ==
  /\ m \in Resident \ idle
  /\ idle' = idle \union {m}
  /\ UNCHANGED <<catalogVars, flagVars, pinVars, lockVars, loaded, lru, running>>

\* unload_async.
UnloadModel(m) ==
  /\ configs[m] # None
  /\ Enqueue(NewJob("unload", m, None, <<>>))
  /\ UNCHANGED <<catalogVars, memoryVars, flagVars, pinVars, job, raised>>

UnloadGranted ==
  /\ Granted("unload")
  /\ LET j == Head(waiting)
     IN  IF j.model \in Resident
         THEN BeginUnload(j, j.model, Tail(waiting)) /\ UNCHANGED raised
         ELSE /\ waiting' = Tail(waiting)
              /\ raised' = TRUE
              /\ UNCHANGED <<loaded, running, unloading, job>>
  /\ UNCHANGED <<catalogVars, pinVars, lru, idle, loading, failed>>
-----------------------------------------------------------------------------
(***************************************************************************)
(* Evictions: the out-of-memory recovery of a running worker, the idle     *)
(* evictor and the memory monitor.                                         *)
(***************************************************************************)

NoneOf(kind) == \A j \in Pending : j.kind # kind

RequestEviction(kind, m, todo) ==
  /\ Enqueue(NewJob(kind, m, None, todo))
  /\ UNCHANGED <<catalogVars, memoryVars, flagVars, pinVars, job, raised>>

\* evict_lru_excluding, called by the worker of m after its batch ran out of
\* memory.
RecoverFromOom(m) ==
  /\ m \in running
  /\ \A j \in Pending : j.kind = "oom" => j.model # m
  /\ RequestEviction("oom", m, <<>>)

\* The recovery gives up on the lock after its soft timeout.
LockTimeout ==
  /\ \E i \in DOMAIN waiting :
       /\ waiting[i].kind = "oom"
       /\ waiting' = RemoveAt(waiting, i)
  /\ UNCHANGED <<catalogVars, memoryVars, flagVars, pinVars, job, raised>>

\* _idle_evict_loop reads the stale models before it takes the lock.
IdleTick ==
  LET stale == GetIdleModels(lru, idle, pinned)
  IN  /\ stale # <<>>
      /\ NoneOf("idle")
      /\ RequestEviction("idle", None, stale)

\* _memory_monitor_loop saw pressure; the readings under the lock are its own.
MonitorTick == NoneOf("monitor") /\ RequestEviction("monitor", None, <<>>)

\* The victim each eviction picks once it holds the lock.
IdleVictim(stale) ==
  LET still == SelectSeq(stale, LAMBDA m : m \in Resident /\ m \in idle)
  IN  IF still = <<>> THEN None ELSE Head(still)

MonitorVictim == IF Len(lru) <= 1 THEN None ELSE GetLruModel(lru, pinned)

EvictionVictim(j) ==
  CASE j.kind = "oom" ->
         SelectEvictionCandidate(lru, j.model, pinned, Resident, unloading)
    [] j.kind = "idle" -> IdleVictim(j.todo)
    [] j.kind = "monitor" -> MonitorVictim

\* One look at the candidates: unload the victim, or give the lock back.  The
\* monitor looks again after every unload, and may find the pressure gone.
Evict(j, queue) ==
  LET v == EvictionVictim(j)
  IN  /\ \/ /\ v \in Resident
            /\ BeginUnload(j, v, queue)
            /\ UNCHANGED lru
         \/ /\ v \notin Resident \/ j.kind = "monitor"
            /\ lru' = IF v \in Resident \union {None} THEN lru
                      ELSE UnregisterModel(lru, v)
            /\ job' = NoJob
            /\ waiting' = queue
            /\ UNCHANGED <<loaded, running, unloading>>
      /\ UNCHANGED <<catalogVars, pinVars, raised, idle, loading, failed>>

EvictionGranted(kind) == Granted(kind) /\ Evict(Head(waiting), Tail(waiting))

MonitorContinues ==
  /\ job # NoJob /\ job.kind = "monitor" /\ job.step = "next"
  /\ Evict(job, waiting)
=============================================================================
