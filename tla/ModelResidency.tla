---------------------------- MODULE ModelResidency ----------------------------
(***************************************************************************)
(* The registry of a sie_server process together with everything that acts *)
(* on it: requests that load and use models, the streaming processor's     *)
(* direct loads, out-of-memory recoveries, the idle evictor, the memory    *)
(* monitor, the sidecar's config updates and pins, the hot reloader, and   *)
(* the LoRA adapters of the resident models.                               *)
(***************************************************************************)
EXTENDS LoraResidency

CONSTANTS
  Workloads,    \* bound: how often each kind of event may happen, one
                \* function per combination that is explored
  MaxWaiting    \* bound: jobs that wait for the load lock

VARIABLES
  budget,    \* how many events of each kind may still happen
  pushed     \* history: models whose config the sidecar has updated

vars == <<registryVars, reloadVars, loraVars, budget, pushed>>

Init ==
  /\ RegistryInit /\ ReloadInit /\ LoraInit
  /\ budget \in Workloads
  /\ pushed = {}

\* One event of the given kind, within the bounds.
Spend(event) ==
  /\ budget[event] > 0 /\ budget' = [budget EXCEPT ![event] = @ - 1]
  /\ Len(waiting) < MaxWaiting

\* A request that needs the model, or a generation that loads it itself.
Load == \E m \in Models : StartLoad(m) \/ LoadDirectly(m)

Use == \E m \in Models : StartWorker(m) \/ RecoverFromOom(m)

Timer == IdleTick \/ MonitorTick

\* A config delta or a snapshot from the sidecar.
Update ==
  \/ \E m \in Models, v \in Versions \union {None} :
       ChangeConfig(m, v) /\ pushed' = pushed \union {m}
  \/ \E target \in [Models -> Versions \union {None}] :
       ReplaceConfigs(target) /\ pushed' = Models

Pin == \E pins \in SUBSET Models : SetPinnedModels(pins)

Edit == \E m \in Models, v \in Versions \union {None} : EditFile(m, v)

Lora == \E m \in Models, a \in Loras : EnsureLoraLoaded(m, a)

Environment ==
  \/ Spend("load") /\ Load /\ UNCHANGED <<reloadVars, loraVars, pushed>>
  \/ Spend("use") /\ Use /\ UNCHANGED <<reloadVars, loraVars, pushed>>
  \/ Spend("evict") /\ Timer /\ UNCHANGED <<reloadVars, loraVars, pushed>>
  \/ Spend("update") /\ Update /\ UNCHANGED <<reloadVars, loraVars>>
  \/ Spend("pin") /\ Pin /\ UNCHANGED <<reloadVars, loraVars, pushed>>
  \/ Spend("edit") /\ Edit /\ UNCHANGED <<loraVars, pushed>>
  \/ Spend("lora") /\ Lora /\ UNCHANGED <<reloadVars, pushed>>

\* Time passes.
Clock ==
  /\ \E m \in Models : TouchLru(m) \/ BecomesIdle(m) \/ CooldownElapses(m)
  /\ UNCHANGED <<reloadVars, loraVars, budget, pushed>>

\* Bound: a preload fails only in a workload with requests for LoRAs.
PreloadsSucceed ==
  \A m \in Models : inst'[m] # inst[m] => held'[m] = Range(Profile[m])

\* The task that holds the load lock, or the one that gets it, goes on.
LockStep ==
  /\ \/ \E kind \in LoadKinds : LoadGranted(kind)
     \/ \E kind \in EvictionKinds : EvictionGranted(kind)
     \/ \E kind \in ConfigKinds : UpdateGranted(kind)
     \/ WorkerGranted \/ UnloadGranted
     \/ Prepare \/ MakeRoom \/ LoadOntoDevice
     \/ Drained \/ TornDown
     \/ MonitorContinues \/ UpdateContinues
  /\ NewInstances
  /\ budget["lora"] > 0 \/ PreloadsSucceed
  /\ UNCHANGED <<reloadVars, budget, pushed>>

Background ==
  /\ EagerLoadPinned \/ CancelDrain \/ LockTimeout
  /\ UNCHANGED <<reloadVars, loraVars, budget, pushed>>

Reloader == (FireCallbacks \/ ReloaderStep) /\ UNCHANGED <<loraVars, budget, pushed>>

LoraTask ==
  /\ \E i \in DOMAIN loraTasks : LoraInAdapter(i) \/ LoraLoaded(i) \/ LoraFailed(i)
  /\ UNCHANGED <<reloadVars, budget, pushed>>

LoraCaller ==
  /\ \E i \in DOMAIN loraTasks : LoraCallerCancelled(i)
  /\ UNCHANGED <<reloadVars, budget, pushed>>

Next ==
  Environment \/ Clock \/ LockStep \/ Background \/ Reloader \/ LoraTask \/ LoraCaller

\* The event loop runs every task that can go on; the file watcher's timer
\* fires; the outside, the clock's cooldowns and cancellations promise nothing.
Fairness == WF_vars(LockStep) /\ WF_vars(Reloader) /\ WF_vars(LoraTask)

Spec == Init /\ [][Next]_vars /\ Fairness
-----------------------------------------------------------------------------
\* A resident model serves the config the registry holds: an update drains and
\* unloads what it invalidates before it swaps the config map, whatever load,
\* eviction or reload was waiting for the lock meanwhile.  Exempt is a model
\* whose update is still under way, and one whose config a rescan of models_dir
\* replaced (rescan_configs swaps the map without the lock).
LoadedConfigCurrent ==
  \A m \in Resident \ rescanned :
    \/ loaded[m] = configs[m]
    \/ \E j \in Pending : j.kind \in ConfigKinds /\ j.model \in {m, None}

\* No ghosts (#1600): the memory manager tracks exactly the resident models and
\* the one whose adapter is being torn down, each once, so the eviction loops
\* never pick a model that an unload would ignore.
NoGhosts ==
  /\ Range(lru) = Resident \union
       (IF job # NoJob /\ job.step = "teardown" THEN {job.victim} ELSE {})
  /\ \A i, k \in DOMAIN lru : lru[i] = lru[k] => i = k

\* When the watcher and the reloader have nothing left to do, the registry holds
\* what the files say, for every model that is registered under the name of its
\* file, that no sidecar update has changed, and whose last reload did not fail.
ReloadConverges ==
  (/\ queue = <<>> /\ reload = NoReload /\ ~Updating
   /\ \A m \in Models : changes[m] = "none")
    => \A m \in Plain \ (lost \union pushed) : configs[m] = disk[m]

\* A LoRA that requests are told is ready is held by the adapter they run on, or
\* a load of it has still to reach this very adapter (the task of an earlier load
\* goes on after the LoRA was evicted and asked for again); one that is reported as
\* loading has a load for this very instance behind it, so nobody is told to retry
\* for ever.  Exempt is an instance with a blocking load whose caller was cancelled:
\* its entry is reported as loading until the model is unloaded.  Only an instance
\* that tracks nothing but preloaded LoRAs of its profiles tracks more than MaxLoras.
LoraStateSound ==
  \A m \in Resident :
    LET Behind(a, where) == \E t \in Range(loraTasks) :
          t.model = m /\ t.inst = inst[m] /\ t.lora = a /\ t.at \in where
    IN  /\ m \in deserted \/ \A a \in Tracked(m) :
             IF IsReady(m, a) THEN a \in held[m] \/ Behind(a, {"thread"})
             ELSE Behind(a, {"thread", "task"})
        /\ Len(loras[m]) > MaxLoras => Tracked(m) \subseteq Range(Profile[m])

\* Loading comes to an end: whatever holds the load lock gives it back, so the
\* eviction loops end and no path out of a load, an unload or an update keeps
\* it, and a model reported as loading stops being reported so: it is loaded,
\* or its failure is on record, or its config has gone.
LoadsEnd ==
  /\ (job # NoJob) ~> (job = NoJob)
  /\ \A m \in Models : (m \in loading) ~> (m \notin loading)
=============================================================================
