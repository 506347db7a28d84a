-------------------------- MODULE ModelConfigUpdates --------------------------
(***************************************************************************)
(* Changing the configs and the pinned set of a running registry           *)
(* (core/registry.py): add_config_async and remove_config_async, which     *)
(* the sidecar's config deltas and the hot reloader use,                   *)
(* replace_configs_async, which installs an authoritative snapshot, and    *)
(* set_pinned_models.  The config update lock admits one of the first      *)
(* three at a time, from its first to its last step.                       *)
(***************************************************************************)
EXTENDS ModelRegistry

\* Models whose config the map target would change.
Differ(target) == {m \in Models : configs[m] # target[m]}

\* _apply_config_entry and the end of replace_configs_async: swap the map,
\* clear the failures of the models it touches (operator intent), and schedule
\* the eager load of those that are pinned.
Install(target, touched) ==
  /\ configs' = target
  /\ failed' = [m \in Models |-> IF m \in touched THEN "none" ELSE failed[m]]
  /\ eager' = (eager \/ \E m \in pinned \intersect touched : target[m] # None)

\* Mutant: a changed config is swapped in without unloading the model.
ChangeConfigInPlace(m, v) ==
  /\ ~Updating
  /\ Install([configs EXCEPT ![m] = v], {m})
  /\ UNCHANGED <<memoryVars, disk, raised, loading, unloading, pinned, job,
                 rescanned, waiting>>

\* add_config_async.  v is None when the new config belongs to another pool.
\* What the change invalidates is worked out before the load lock is taken; a
\* model that was unknown invalidates nothing and is installed at once.
ChangeConfig(m, v) ==
  /\ ~Updating
  /\ IF configs[m] \in {None, v}
     THEN Install([configs EXCEPT ![m] = v], {m}) /\ UNCHANGED waiting
     ELSE /\ Enqueue(NewJob("change", m, v, <<m>>))
          /\ UNCHANGED <<configs, failed, eager>>
  /\ UNCHANGED <<memoryVars, disk, raised, loading, unloading, pinned, job,
                 rescanned>>

\* remove_config_async.
RemoveConfig(m) ==
  /\ ~Updating
  /\ configs[m] # None
  /\ Enqueue(NewJob("remove", m, None, <<m>>))
  /\ UNCHANGED <<catalogVars, memoryVars, flagVars, pinVars, raised, job>>

\* replace_configs_async compares the snapshot with the configs only once it
\* holds the load lock.
ReplaceConfigs(target) ==
  /\ ~Updating
  /\ Enqueue(NewJob("replace", None, target, <<>>))
  /\ UNCHANGED <<catalogVars, memoryVars, flagVars, pinVars, raised, job>>

\* Under the load lock: unload the next invalidated model that is resident;
\* when none is left, install the configs and give the lock back.
UnloadInvalidated(j, queue) ==
  LET resident == SelectSeq(j.todo, LAMBDA m : m \in Resident)
  IN  IF resident # <<>>
      THEN /\ BeginUnload(j, Head(resident), queue)
           /\ UNCHANGED <<configs, failed, eager>>
      ELSE /\ Install(IF j.kind = "replace" THEN j.cfg
                      ELSE [configs EXCEPT ![j.model] = j.cfg], Range(j.todo))
           /\ job' = NoJob
           /\ waiting' = queue
           /\ UNCHANGED <<loaded, running, unloading>>

UpdateGranted(kind) ==
  /\ Granted(kind)
  /\ LET j == Head(waiting)
     IN  UnloadInvalidated(IF kind = "replace"
                           THEN [j EXCEPT !.todo = SetToSeq(Differ(j.cfg))] ELSE j,
                           Tail(waiting))
  /\ UNCHANGED <<disk, raised, lru, idle, loading, pinned, rescanned>>

UpdateContinues ==
  /\ job # NoJob /\ job.kind \in ConfigKinds /\ job.step = "next"
  /\ UnloadInvalidated(job, waiting)
  /\ UNCHANGED <<disk, raised, lru, idle, loading, pinned, rescanned>>
-----------------------------------------------------------------------------
\* _eager_load_pinned: start_load_async for every pinned model that has a
\* config and is not resident.
EagerlyLoaded(pins) ==
  {m \in pins : configs[m] # None /\ Startable(m)}

EagerLoad(pins) ==
  /\ loading' = loading \union EagerlyLoaded(pins)
  /\ waiting' = waiting \o [i \in DOMAIN SetToSeq(EagerlyLoaded(pins)) |->
                  NewJob("load", SetToSeq(EagerlyLoaded(pins))[i], None, <<>>)]

EagerLoadPinned ==
  /\ eager
  /\ eager' = FALSE
  /\ EagerLoad(pinned)
  /\ UNCHANGED <<catalogVars, memoryVars, raised, unloading, failed, pinned, job>>

\* set_pinned_models: replace the set, then load what is not resident.
SetPinnedModels(pins) ==
  /\ pins # pinned
  /\ pinned' = pins
  /\ EagerLoad(pins)
  /\ UNCHANGED <<catalogVars, memoryVars, raised, unloading, failed, eager, job>>
=============================================================================
