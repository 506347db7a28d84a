------------------------------ MODULE HotReload ------------------------------
(***************************************************************************)
(* Hot reload of model configs (core/watcher.py, core/hot_reload.py): the  *)
(* file watcher debounces what happens to the files of models_dir, the     *)
(* reloader takes one change at a time from its queue and drives the       *)
(* registry.  The watcher names a change after the file, and the registry  *)
(* after the config's sie_id: only for the Plain models are these the same *)
(* name (a model "org/name" lives in the file org__name.yaml).             *)
(***************************************************************************)
EXTENDS ModelConfigUpdates

CONSTANT Plain      \* models whose id is the name of their file

VARIABLES
  changes,    \* the watcher's _pending_changes: the last event of each model
  queue,      \* the reloader's _reload_queue
  reload,     \* the reload in progress
  lost        \* history: models whose last change a failed reload gave up

reloadVars == <<changes, queue, reload, lost>>

NoReload == [pc |-> "idle", model |-> None, wasLoaded |-> FALSE, cfg |-> None]

ReloadInit ==
  /\ changes = [m \in Models |-> "none"]
  /\ queue = <<>>
  /\ reload = NoReload
  /\ lost = {}

ChangeType(old, new) ==
  CASE old = None -> "added" [] new = None -> "deleted" [] OTHER -> "modified"

\* _fire_callbacks: every pending change goes to the queue.
Fired(chs) ==
  LET models == SetToSeq({m \in Models : chs[m] # "none"})
  IN  queue \o [i \in DOMAIN models |-> [model |-> models[i], type |-> chs[models[i]]]]

\* Mutant: the first change of the debounce window is the one reported.
EditFileKeepingFirst(m, v) ==
  /\ v # disk[m]
  /\ disk' = [disk EXCEPT ![m] = v]
  /\ LET chs == [changes EXCEPT ![m] = IF @ = "none" THEN ChangeType(disk[m], v) ELSE @]
     IN  \/ /\ changes' = [x \in Models |-> "none"]
            /\ queue' = Fired(chs)
         \/ changes' = chs /\ UNCHANGED queue
  /\ lost' = lost \ {m}
  /\ UNCHANGED <<memoryVars, flagVars, pinVars, lockVars, configs, rescanned,
                 reload>>

\* A config file is created, rewritten or deleted.  _schedule_callback keeps the
\* last change of each model; the callbacks run at once unless the model's last
\* one is too recent, in which case a timer runs them later.
EditFile(m, v) ==
  /\ v # disk[m]
  /\ disk' = [disk EXCEPT ![m] = v]
  /\ LET chs == [changes EXCEPT ![m] = ChangeType(disk[m], v)]
     IN  \/ /\ changes' = [x \in Models |-> "none"]
            /\ queue' = Fired(chs)
         \/ changes' = chs /\ UNCHANGED queue
  /\ lost' = lost \ {m}
  /\ UNCHANGED <<memoryVars, flagVars, pinVars, lockVars, configs, rescanned,
                 reload>>

FireCallbacks ==
  /\ \E m \in Models : changes[m] # "none"
  /\ queue' = Fired(changes)
  /\ changes' = [m \in Models |-> "none"]
  /\ UNCHANGED <<registryVars, reload, lost>>
-----------------------------------------------------------------------------
EndReload == reload' = NoReload

GiveUp(m) == EndReload /\ lost' = lost \union {m}

\* _extract_model_name: the name of the file is the name the registry knows.
Known(m) == m \in Plain

\* _reload_loop takes the next change; _process_reload dispatches on its type.
\* A change whose file has gone meanwhile is skipped: its deletion follows.
TakeChange ==
  /\ reload = NoReload /\ queue # <<>>
  /\ queue' = Tail(queue)
  /\ LET m == Head(queue).model
         Go(pc, was) == reload' = [pc |-> pc, model |-> m, wasLoaded |-> was,
                                   cfg |-> None]
     IN  CASE Head(queue).type = "deleted" ->
                IF Known(m) /\ configs[m] # None THEN Go("remove", FALSE) ELSE EndReload
           [] Head(queue).type = "added" ->
                IF disk[m] # None THEN Go("read", FALSE) ELSE EndReload
           [] Head(queue).type = "modified" ->
                IF disk[m] = None THEN EndReload
                ELSE IF Known(m) /\ m \in Resident THEN Go("drain", TRUE)
                ELSE IF Known(m) THEN Go("read", FALSE) ELSE EndReload
  /\ UNCHANGED <<registryVars, changes, lost>>

\* _drain_requests is over: unload_async.  A model that is unknown by then
\* raises, and the reload is given up.
Unload ==
  /\ reload.pc = "drain"
  /\ IF configs[reload.model] # None
     THEN /\ UnloadModel(reload.model)
          /\ reload' = [reload EXCEPT !.pc = "unload"]
          /\ UNCHANGED lost
     ELSE GiveUp(reload.model) /\ UNCHANGED registryVars
  /\ UNCHANGED <<changes, queue>>

\* unload_async raises when the model is no longer resident once it has the
\* lock, or when the teardown fails: the exception ends the reload before the
\* new config is read.
Unloaded ==
  /\ reload.pc = "unload" /\ NoneOf("unload")
  /\ raised' = FALSE
  /\ IF raised THEN GiveUp(reload.model)
     ELSE reload' = [reload EXCEPT !.pc = "read"] /\ UNCHANGED lost
  /\ UNCHANGED <<catalogVars, memoryVars, flagVars, pinVars, waiting, job, changes,
                 queue>>

\* The files are parsed, and add_config_async installs what they say.  The file
\* may have been deleted, or may not parse.
Apply ==
  LET m == reload.model
  IN  /\ reload.pc = "read"
      /\ \/ /\ disk[m] # None
            /\ ChangeConfig(m, disk[m])
            /\ reload' = [reload EXCEPT !.pc = "applied", !.cfg = disk[m]]
            /\ UNCHANGED lost
         \/ /\ GiveUp(m)
            /\ UNCHANGED registryVars
      /\ UNCHANGED <<changes, queue>>

\* add_config_async has returned, or its unload raised and it installed nothing.
\* A model that was loaded is loaded again.
Applied ==
  LET m == reload.model
      installed == configs[m] = reload.cfg
  IN  /\ reload.pc = "applied" /\ ~Updating
      /\ IF reload.wasLoaded /\ installed
         THEN /\ Enqueue(NewJob("reload", m, None, <<>>))
              /\ reload' = [reload EXCEPT !.pc = "load"]
              /\ UNCHANGED lost
         ELSE /\ EndReload
              /\ lost' = IF installed THEN lost ELSE lost \union {m}
              /\ UNCHANGED waiting
      /\ UNCHANGED <<catalogVars, memoryVars, flagVars, pinVars, job, raised,
                     changes, queue>>

\* load_async has returned: start the worker of the reloaded model.
Reloaded ==
  LET m == reload.model
  IN  /\ reload.pc = "load" /\ NoneOf("reload")
      /\ IF m \in Resident /\ configs[m] # None
         THEN StartWorker(m) ELSE UNCHANGED registryVars
      /\ EndReload
      /\ UNCHANGED <<changes, queue, lost>>

\* _handle_model_deleted: remove_config_async.
RemoveDeleted ==
  LET m == reload.model
  IN  /\ reload.pc = "remove"
      /\ IF configs[m] # None
         THEN RemoveConfig(m) /\ reload' = [reload EXCEPT !.pc = "removed"]
         ELSE UNCHANGED registryVars /\ EndReload
      /\ UNCHANGED <<changes, queue, lost>>

Removed ==
  LET m == reload.model
  IN  /\ reload.pc = "removed" /\ ~Updating
      /\ EndReload
      /\ lost' = IF configs[m] = None THEN lost ELSE lost \union {m}
      /\ UNCHANGED <<registryVars, changes, queue>>

ReloaderStep ==
  \/ TakeChange \/ Unload \/ Unloaded \/ Apply \/ Applied \/ Reloaded
  \/ RemoveDeleted \/ Removed
=============================================================================
