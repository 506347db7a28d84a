---------------------------- MODULE MemoryManager ----------------------------
(***************************************************************************)
(* The accounting of one device in sie_server: which models are tracked,   *)
(* in least-recently-used order, and which of them an eviction may take    *)
(* (core/memory.py, class MemoryManager; core/residency.py).  A manager is *)
(* the sequence of its OrderedDict's keys, the least recently used first.  *)
(* Clocks are abstracted to one set: the models idle for longer than the   *)
(* eviction threshold.                                                     *)
(***************************************************************************)
EXTENDS Sequences, Functions

CONSTANT None     \* absence: no model, no config

\* unregister_model: drop the entry, if there is one.
UnregisterModel(lru, m) == SelectSeq(lru, LAMBDA x : x # m)

\* register_model: (re)insert the entry as the most recently used.
RegisterModel(lru, m) == Append(UnregisterModel(lru, m), m)

\* touch: a request used the model; an untracked one is left alone.
TouchModel(lru, m) == IF m \in Range(lru) THEN RegisterModel(lru, m) ELSE lru

\* The first entry that satisfies Ok, None when there is none.
LOCAL FirstThat(lru, Ok(_)) ==
  LET eligible == SelectSeq(lru, Ok)
  IN  IF eligible = <<>> THEN None ELSE Head(eligible)

\* get_lru_model: the least recently used model outside the pinned set.
GetLruModel(lru, pinned) == FirstThat(lru, LAMBDA m : m \notin pinned)

\* get_idle_models: the idle, unpinned models, the longest idle first.
GetIdleModels(lru, idle, pinned) ==
  SelectSeq(lru, LAMBDA m : m \in idle \ pinned)

\* select_eviction_candidate: the sibling that the out-of-memory recovery of
\* the model caller may unload.
SelectEvictionCandidate(lru, caller, pinned, resident, unloading) ==
  FirstThat(lru, LAMBDA m : m \notin {caller} \union pinned \union unloading
                            /\ m \in resident)
=============================================================================
