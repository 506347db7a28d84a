---------------------------- MODULE LoraResidency ----------------------------
(***************************************************************************)
(* The LoRA adapters of a resident model (core/registry.py, the LoRA       *)
(* management methods; core/model_loader.py, LoadedLora and LoadedModel).  *)
(* A LoRA belongs to one loaded instance of its model: an unload drops the *)
(* instance, the next load makes a new one.  The per-model LoRA lock is    *)
(* never held across an await, so a step below is the whole of what a task *)
(* does under it; the load itself runs outside the lock, in a thread, and  *)
(* the task it was started from goes on some time after the thread ended.  *)
(***************************************************************************)
EXTENDS HotReload

CONSTANTS Loras,      \* LoRA ids
          MaxLoras,   \* max_loras of a model
          Hot,        \* models whose adapter supports_hot_lora_reload
          Profile,    \* model -> what _collect_profile_loras returns, in order
          MaxTasks    \* bound: LoRA loads in flight

VARIABLES
  inst,       \* how often each model has been loaded: its current instance
  loras,      \* LoadedModel.loras of that instance, least recently used first
  held,       \* the LoRAs its adapter really holds
  loraTasks,  \* LoRA loads in flight: the instance and LoRA each was started
              \* for, and whether its thread is still to load it ("thread"), its
              \* task is to go on ("task"), or its caller has gone ("alone")
  deserted    \* history: models a blocking load of whose current instance lost
              \* its caller

loraVars == <<inst, loras, held, loraTasks, deserted>>

LoraInit ==
  /\ inst = [m \in Models |-> 0]
  /\ loras = [m \in Models |-> <<>>]
  /\ held = [m \in Models |-> {}]
  /\ loraTasks = <<>>
  /\ deserted = {}

Entry(a, loads) == [id |-> a, loading |-> loads]
Tracked(m) == {e.id : e \in Range(loras[m])}
IsReady(m, a) == Entry(a, FALSE) \in Range(loras[m])
Without(entries, a) == SelectSeq(entries, LAMBDA e : e.id # a)
LoadEnded(entries, a) ==
  [k \in DOMAIN entries |-> IF entries[k].id = a THEN Entry(a, FALSE) ELSE entries[k]]

\* The least recently used entries that a sequence is over the limit by.
Overflow(entries) ==
  SubSeq(entries, 1, IF Len(entries) > MaxLoras THEN Len(entries) - MaxLoras ELSE 0)

\* ensure_lora_loaded_async: a LoRA in place is touched; one that is loading is
\* left alone; otherwise a placeholder is added, the oldest entries over the
\* limit are unloaded (whether or not they are still loading), and a load starts:
\* in a task of its own, or in the caller's when the adapter is not Hot.
EnsureLoraLoaded(m, a) ==
  /\ m \in Resident
  /\ a \in Tracked(m) => IsReady(m, a)
  /\ IF IsReady(m, a)
     THEN /\ loras' = [loras EXCEPT ![m] = Append(Without(@, a), Entry(a, FALSE))]
          /\ UNCHANGED <<held, loraTasks>>
     ELSE LET entries == Append(loras[m], Entry(a, TRUE))
              over == Overflow(entries)
          IN  /\ Len(loraTasks) < MaxTasks
              /\ loras' = [loras EXCEPT ![m] =
                             SubSeq(entries, Len(over) + 1, Len(entries))]
              /\ held' = [held EXCEPT ![m] = @ \ {e.id : e \in Range(over)}]
              /\ loraTasks' = Append(loraTasks,
                   [model |-> m, inst |-> inst[m], lora |-> a, at |-> "thread"])
  /\ UNCHANGED <<registryVars, inst, deserted>>

\* The thread of a load is done: the adapter of the instance the load was
\* started for holds the LoRA.
LoraInAdapter(i) ==
  LET t == loraTasks[i]
      m == t.model
  IN  /\ t.at \in {"thread", "alone"}
      /\ loraTasks' = IF t.at = "thread" THEN [loraTasks EXCEPT ![i].at = "task"]
                      ELSE RemoveAt(loraTasks, i)
      /\ held' = [held EXCEPT ![m] = IF t.inst = inst[m] THEN @ \union {t.lora} ELSE @]
      /\ UNCHANGED <<registryVars, inst, loras, deserted>>

\* _load_lora_background and _load_lora_blocking go on: the entry of the LoRA in
\* the instance the load was started for, if there still is one, becomes ready.
LoraLoaded(i) ==
  LET t == loraTasks[i]
      m == t.model
  IN  /\ t.at = "task"
      /\ loraTasks' = RemoveAt(loraTasks, i)
      /\ loras' = [loras EXCEPT ![m] = IF t.inst = inst[m] THEN LoadEnded(@, t.lora)
                                     ELSE @]
      /\ UNCHANGED <<registryVars, inst, held, deserted>>

\* Mutant of LoraFailed: the entry of a load that failed stays.
LoraFailedKeepingEntry(i) ==
  /\ loraTasks[i].at \in {"thread", "alone"}
  /\ loraTasks' = RemoveAt(loraTasks, i)
  /\ UNCHANGED <<registryVars, inst, loras, held, deserted>>

\* The load raised: the entry is dropped from whatever instance is resident now,
\* unless nobody awaits the load any more.
LoraFailed(i) ==
  LET t == loraTasks[i]
  IN  /\ t.at \in {"thread", "alone"}
      /\ loraTasks' = RemoveAt(loraTasks, i)
      /\ loras' = IF t.model \in Resident /\ t.at = "thread"
                  THEN [loras EXCEPT ![t.model] = Without(@, t.lora)] ELSE loras
      /\ UNCHANGED <<registryVars, inst, held, deserted>>

\* The caller of a blocking load is cancelled: `except Exception` does not see
\* it, the thread goes on alone, and the entry stays as it is.
LoraCallerCancelled(i) ==
  LET t == loraTasks[i]
  IN  /\ t.model \notin Hot /\ t.at \in {"thread", "task"}
      /\ loraTasks' = IF t.at = "thread" THEN [loraTasks EXCEPT ![i].at = "alone"]
                      ELSE RemoveAt(loraTasks, i)
      /\ deserted' = IF t.inst = inst[t.model] THEN deserted \union {t.model} ELSE deserted
      /\ UNCHANGED <<registryVars, inst, loras, held>>

\* A step of the registry that makes m resident makes a new instance of it, with
\* the LoRAs of its profiles whose preload did not fail, however many.
NewInstances ==
  LET fresh == {m \in Models : loaded[m] = None /\ loaded'[m] # None}
  IN  /\ inst' = [m \in Models |-> IF m \in fresh THEN inst[m] + 1 ELSE inst[m]]
      /\ \E ok \in [fresh -> SUBSET Loras] :
           LET Preloaded(m) == SelectSeq(Profile[m], LAMBDA a : a \in ok[m])
           IN  /\ \A m \in fresh : ok[m] \subseteq Range(Profile[m])
               /\ loras' = [m \in Models |->
                    IF m \in fresh
                    THEN [k \in DOMAIN Preloaded(m) |-> Entry(Preloaded(m)[k], FALSE)]
                    ELSE loras[m]]
               /\ held' = [m \in Models |-> IF m \in fresh THEN ok[m] ELSE held[m]]
      /\ deserted' = deserted \ fresh
      /\ UNCHANGED loraTasks
=============================================================================
