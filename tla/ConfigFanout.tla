---------------------------- MODULE ConfigFanout ----------------------------
(***************************************************************************)
(* Live-config application inside one worker-sidecar: the exclusive        *)
(* execution barrier of ConfigApplyState, the fan-out of one config        *)
(* request to every adapter child (AdapterWorkerPool), the quarantine      *)
(* that hides the children while they may disagree, the health probes that *)
(* race with it, and the batches that hold the shared side of the barrier. *)
(*                                                                         *)
(* A registry maps each model of the worker's (bundle, pool) scope to a    *)
(* config version or Absent.  A request overlays the control plane's       *)
(* registry `want` on the models in `scope`: one model for a NATS delta    *)
(* (ApplyModelConfig), all of them for an export (ReplaceModelConfigs).    *)
(* A delta that was lost on Core NATS is a request whose `want` differs    *)
(* from the children's registries outside `scope`.                         *)
(***************************************************************************)
EXTENDS Integers

CONSTANTS NumChildren,        \* adapter children (one IPC socket each)
          Models, Versions,   \* models in scope, their possible configs
          Absent,             \* "no config for this model"
          NoHash,             \* the empty bundle_config_hash
          Executors, NoBatch, \* dispatcher tasks that run batches
          Baseline,           \* the registry baked into the worker image
          MaxFanouts          \* bound on fan-outs explored

Children == 1..NumChildren
Registry == [Models -> Versions \cup {Absent}]
Hashes == Registry \cup {NoHash}

ASSUME ChildrenAssumption == NumChildren \in Nat \ {0}
ASSUME ConfigAssumption == /\ Absent \notin Versions
                           /\ NoHash \notin Registry
                           /\ Baseline \in Registry
ASSUME MaxFanoutsAssumption == MaxFanouts \in Nat

VARIABLES
  breg,         \* child -> the model registry of that Python process
  ready,        \* child -> AdapterWorkerChild.ready
  quarantined,  \* config_quarantined
  generation,   \* config_fanout_generation
  advertised,   \* ConfigApplyState.bundle_config_hash
  wpc,          \* program counter of the holder of lock_apply
  req,          \* the request that holder is applying
  gen,          \* the generation begin_config_fanout returned to it
  next,         \* the next child of the sequential fan-out
  failed,       \* last_err is Some
  applied,      \* combined.applied
  merged,       \* combined.bundle_config_hash
  exec,         \* executor -> the batch it runs, or NoBatch
  probe,        \* child -> program counter of a health success
  beat,         \* heartbeat task: the hash it carries from its pings
  faulty        \* history: "hash" once a child could not compute its hash,
                \* "restart" once a child restarted under a live sidecar

poolVars == <<breg, ready, quarantined, generation>>
callVars == <<gen, next, failed, applied, merged>>
vars == <<poolVars, advertised, wpc, req, callVars, exec, probe, beat, faulty>>

Request == [scope : SUBSET Models, want : Registry]
Batch == [child : Children, hash : Hashes, revision : Registry]
Beat == [pc : {"idle", "pinged", "adopting"}, hash : Hashes]

(***************************************************************************)
(* The bundle config hash: empty when no model is configured, otherwise    *)
(* collision free, so the registry itself stands for its digest.           *)
(***************************************************************************)
ConfigHash(reg) == IF \A m \in Models : reg[m] = Absent THEN NoHash ELSE reg

Commit(r, reg) == [m \in Models |-> IF m \in r.scope THEN r.want[m] ELSE reg[m]]

\* What the control plane sends: a delta always carries a config (it cannot
\* express a deletion), an export carries the whole scope.
Deltas == {[scope |-> {m}, want |-> w] : m \in Models, w \in Registry}
Exports == {[scope |-> Models, want |-> w] : w \in Registry}
Requests == {r \in Deltas : \A m \in r.scope : r.want[m] # Absent} \cup Exports

Init ==
  /\ breg = [c \in Children |-> Baseline]
  /\ ready = [c \in Children |-> FALSE]
  /\ quarantined = FALSE
  /\ generation = 0
  /\ advertised \in {NoHash, ConfigHash(Baseline)}
  /\ wpc = "idle"
  /\ req = [scope |-> {}, want |-> Baseline]
  /\ gen = 0 /\ next = 1 /\ failed = FALSE /\ applied = TRUE /\ merged = NoHash
  /\ exec = [x \in Executors |-> NoBatch]
  /\ probe = [c \in Children |-> "idle"]
  /\ beat = [pc |-> "idle", hash |-> NoHash]
  /\ faulty = {}

----------------------------------------------------------------------------
(* The holder of the exclusive side of the barrier.                        *)

\* Mutant of NoReader: the config path does not wait for running batches.
NoReaderIgnored == TRUE

\* The exclusive side of the barrier waits for every shared holder.
NoReader == \A x \in Executors : exec[x] = NoBatch

\* apply_notification and reconcile_export_snapshot take lock_apply and issue
\* one request.
LockApply ==
  /\ wpc = "idle"
  /\ NoReader
  /\ \E r \in Requests : req' = r
  /\ wpc' = "begin"
  /\ UNCHANGED <<poolVars, advertised, callVars, exec, probe, beat, faulty>>

\* begin_config_fanout: a new generation, the quarantine flag first ...
BeginConfigFanout ==
  /\ wpc = "begin"
  /\ generation < MaxFanouts
  /\ generation' = generation + 1
  /\ gen' = generation + 1
  /\ quarantined' = TRUE
  /\ wpc' = "hide"
  /\ UNCHANGED <<breg, ready, advertised, req, next, failed, applied, merged,
                 exec, probe, beat, faulty>>

FirstChild == 1

\* ... then every child's ready flag.
HideChildren ==
  /\ wpc = "hide"
  /\ ready' = [c \in Children |-> FALSE]
  /\ next' = FirstChild /\ failed' = FALSE /\ applied' = TRUE /\ merged' = NoHash
  /\ wpc' = "fanout"
  /\ UNCHANGED <<breg, quarantined, generation, advertised, req, gen, exec,
                 probe, beat, faulty>>

\* The hashes a child with registry reg may report: none if it cannot
\* compute it.
Reported(reg) == {ConfigHash(reg), NoHash}

\* merge_bundle_hash: two non-empty hashes must be equal.
Agrees(h) == merged = NoHash \/ h = NoHash \/ merged = h

\* One iteration of the fan-out loop: the child commits the request and
\* answers; merge_bundle_hash folds its hash into the combined response.
ChildApplies ==
  /\ wpc = "fanout" /\ next \in Children
  /\ breg' = [breg EXCEPT ![next] = Commit(req, @)]
  /\ \E h \in Reported(Commit(req, breg[next])) :
       /\ merged' = IF merged = NoHash THEN h ELSE merged
       /\ applied' = (applied /\ Agrees(h))
       /\ faulty' = IF h = ConfigHash(Commit(req, breg[next]))
                      THEN faulty ELSE faulty \cup {"hash"}
  /\ next' = next + 1
  /\ UNCHANGED <<ready, quarantined, generation, advertised, wpc, req, gen,
                 failed, exec, probe, beat>>

\* Mutant of NoteFailure: a failed child does not fail the fan-out.
NoteFailureLost == failed' = failed

NoteFailure == failed' = TRUE

\* The call fails: the child is marked not ready.  The child may have
\* committed the request before the answer was lost.
ChildFails ==
  /\ wpc = "fanout" /\ next \in Children
  /\ \E reg \in {breg[next], Commit(req, breg[next])} :
       breg' = [breg EXCEPT ![next] = reg]
  /\ ready' = [ready EXCEPT ![next] = FALSE]
  /\ NoteFailure
  /\ next' = next + 1
  /\ UNCHANGED <<quarantined, generation, advertised, wpc, req, gen, applied,
                 merged, exec, probe, beat, faulty>>

\* quarantine_config_fanout after an IPC failure; the caller gets the error.
FanoutErrored ==
  /\ wpc = "fanout" /\ next = NumChildren + 1 /\ failed
  /\ IF gen = generation
       THEN quarantined' = TRUE /\ ready' = [c \in Children |-> FALSE]
       ELSE UNCHANGED <<quarantined, ready>>
  /\ wpc' = "errored"
  /\ UNCHANGED <<breg, generation, advertised, req, callVars, exec, probe,
                 beat, faulty>>

\* quarantine_config_fanout after diverging answers; applied=false makes the
\* caller return (and release the barrier) with nothing advanced.
FanoutRejected ==
  /\ wpc = "fanout" /\ next = NumChildren + 1 /\ ~failed /\ ~applied
  /\ IF gen = generation
       THEN quarantined' = TRUE /\ ready' = [c \in Children |-> FALSE]
       ELSE UNCHANGED <<quarantined, ready>>
  /\ wpc' = "idle"
  /\ UNCHANGED <<breg, generation, advertised, req, callVars, exec, probe,
                 beat, faulty>>

\* clear_config_quarantine_after_success: the flag first ...
ClearQuarantine ==
  /\ wpc = "fanout" /\ next = NumChildren + 1 /\ ~failed /\ applied
  /\ quarantined' = IF gen = generation THEN FALSE ELSE quarantined
  /\ wpc' = IF gen = generation THEN "reveal" ELSE "verify"
  /\ UNCHANGED <<breg, ready, generation, advertised, req, callVars, exec,
                 probe, beat, faulty>>

\* ... then every child's ready flag.
RevealChildren ==
  /\ wpc = "reveal"
  /\ ready' = [c \in Children |-> TRUE]
  /\ wpc' = "verify"
  /\ UNCHANGED <<breg, quarantined, generation, advertised, req, callVars,
                 exec, probe, beat, faulty>>

\* apply_via_ipc_with_retry and replace_via_ipc_with_retry: a retryable error
\* is retried with the barrier still held; any other error, or shutdown,
\* ends the attempt and releases it.
RetryFanout ==
  /\ wpc = "errored"
  /\ wpc' \in {"begin", "idle"}
  /\ UNCHANGED <<poolVars, advertised, req, callVars, exec, probe, beat,
                 faulty>>

\* verified_applied_bundle_hash: an empty control-plane hash accepts whatever
\* the children report, a non-empty one must be equal.
HashVerified(control) == control = NoHash \/ control = merged

\* mark_applied / mark_export_reconciled on success; on a mismatch the caller
\* returns with the advertised hash as it was.
VerifyHash ==
  /\ wpc = "verify"
  /\ advertised' = IF HashVerified(ConfigHash(req.want)) THEN merged
                                                         ELSE advertised
  /\ wpc' = "idle"
  /\ UNCHANGED <<poolVars, req, callVars, exec, probe, beat, faulty>>

----------------------------------------------------------------------------
(* Batches hold the shared side of the barrier across the backend call.    *)

\* accepts_bundle_config_hash
Accepts(h) == h = NoHash \/ h = advertised

\* child_for_model returns a ready child unless no child is ready.
Placeable == {c \in Children : ready[c] \/ \A d \in Children : ~ready[d]}

\* The dispatcher takes lock_execution, re-checks the hash the item carries
\* and calls a child, unless the pool is quarantined (both refusals NAK).
StartBatch(x, c) ==
  /\ wpc = "idle"
  /\ exec[x] = NoBatch
  /\ ~quarantined
  /\ \E h \in {NoHash, advertised} :
       /\ Accepts(h)
       /\ exec' = [exec EXCEPT ![x] = [child |-> c, hash |-> h,
                                      revision |-> breg[c]]]
  /\ UNCHANGED <<poolVars, advertised, wpc, req, callVars, probe, beat,
                 faulty>>

\* run_child_batch returns: success marks the child ready (the barrier keeps
\* the quarantine flag still), failure marks it not ready.
FinishBatch(x, ok) ==
  /\ exec[x] # NoBatch
  /\ ready' = [ready EXCEPT ![exec[x].child] = ok /\ ~quarantined]
  /\ exec' = [exec EXCEPT ![x] = NoBatch]
  /\ UNCHANGED <<breg, quarantined, generation, advertised, wpc, req, callVars,
                 probe, beat, faulty>>

----------------------------------------------------------------------------
(* Health successes run outside the barrier: heartbeat pings, capability   *)
(* probes, pinned-set pushes, EnsureModelReady.                            *)

\* mark_child_ready_from_health_success: load the flag, ...
ProbeSucceeds(c) ==
  /\ probe[c] = "idle"
  /\ IF quarantined
       THEN ready' = [ready EXCEPT ![c] = FALSE] /\ UNCHANGED probe
       ELSE probe' = [probe EXCEPT ![c] = "checked"] /\ UNCHANGED ready
  /\ UNCHANGED <<breg, quarantined, generation, advertised, wpc, req, callVars,
                 exec, beat, faulty>>

\* ... store ready, ...
ProbeStores(c) ==
  /\ probe[c] = "checked"
  /\ ready' = [ready EXCEPT ![c] = TRUE]
  /\ probe' = [probe EXCEPT ![c] = "stored"]
  /\ UNCHANGED <<breg, quarantined, generation, advertised, wpc, req, callVars,
                 exec, beat, faulty>>

\* Mutant of AfterStore: the second load of the flag is dropped.
AfterStoreUnchecked == "idle"

AfterStore == IF quarantined THEN "undo" ELSE "idle"

\* ... load the flag again, ...
ProbeRechecks(c) ==
  /\ probe[c] = "stored"
  /\ probe' = [probe EXCEPT ![c] = AfterStore]
  /\ UNCHANGED <<poolVars, advertised, wpc, req, callVars, exec, beat, faulty>>

\* ... and take the store back.
ProbeUndoes(c) ==
  /\ probe[c] = "undo"
  /\ ready' = [ready EXCEPT ![c] = FALSE]
  /\ probe' = [probe EXCEPT ![c] = "idle"]
  /\ UNCHANGED <<breg, quarantined, generation, advertised, wpc, req, callVars,
                 exec, beat, faulty>>

\* A failed probe marks the child not ready.
ProbeFails(c) ==
  /\ probe[c] = "idle"
  /\ ready' = [ready EXCEPT ![c] = FALSE]
  /\ UNCHANGED <<breg, quarantined, generation, advertised, wpc, req, callVars,
                 exec, probe, beat, faulty>>

----------------------------------------------------------------------------
(* The IPC heartbeat adopts the backend's own hash while none is           *)
(* advertised.  It takes neither side of the barrier.                      *)

\* ping_all: a child answers with the hash of its registry at that moment.
HeartbeatPings ==
  /\ beat.pc = "idle"
  /\ \E c \in Children : beat' = [pc |-> "pinged", hash |-> ConfigHash(breg[c])]
  /\ UNCHANGED <<poolVars, advertised, wpc, req, callVars, exec, probe,
                 faulty>>

\* Some child is ready and the advertised hash is still empty.
HeartbeatChecks ==
  /\ beat.pc = "pinged"
  /\ beat' = [beat EXCEPT !.pc =
                IF (\E c \in Children : ready[c]) /\ advertised = NoHash /\ beat.hash # NoHash
                  THEN "adopting" ELSE "idle"]
  /\ UNCHANGED <<poolVars, advertised, wpc, req, callVars, exec, probe,
                 faulty>>

\* set_bundle_hash
HeartbeatAdopts ==
  /\ beat.pc = "adopting"
  /\ advertised' = beat.hash
  /\ beat' = [beat EXCEPT !.pc = "idle"]
  /\ UNCHANGED <<poolVars, wpc, req, callVars, exec, probe, faulty>>

\* The Python process of a child restarts with the configs of its image; the
\* IPC client reconnects on the next call.
RestartChild(c) ==
  /\ breg' = [breg EXCEPT ![c] = Baseline]
  /\ faulty' = faulty \cup {"restart"}
  /\ UNCHANGED <<ready, quarantined, generation, advertised, wpc, req,
                 callVars, exec, probe, beat>>

----------------------------------------------------------------------------
Fanout == \/ LockApply \/ BeginConfigFanout \/ HideChildren
          \/ ChildApplies \/ ChildFails
          \/ FanoutErrored \/ FanoutRejected \/ ClearQuarantine
          \/ RevealChildren \/ RetryFanout \/ VerifyHash
Batches == \E x \in Executors : \/ \E c \in Placeable : StartBatch(x, c)
                                \/ \E ok \in BOOLEAN : FinishBatch(x, ok)
Probes == \E c \in Children : \/ ProbeSucceeds(c) \/ ProbeStores(c)
                              \/ ProbeRechecks(c) \/ ProbeUndoes(c)
                              \/ ProbeFails(c)
Heartbeat == HeartbeatPings \/ HeartbeatChecks \/ HeartbeatAdopts

Next == \/ Fanout \/ Batches \/ Probes \/ Heartbeat
        \/ \E c \in Children : RestartChild(c)

Spec == Init /\ [][Next]_vars

----------------------------------------------------------------------------
(* Properties.                                                             *)

\* Every variable has its type.
TypeOK ==
  /\ breg \in [Children -> Registry]
  /\ ready \in [Children -> BOOLEAN]
  /\ quarantined \in BOOLEAN
  /\ generation \in Nat
  /\ advertised \in Hashes
  /\ wpc \in {"idle", "begin", "hide", "fanout", "errored", "reveal", "verify"}
  /\ req \in Request
  /\ gen \in Nat /\ next \in 1..(NumChildren + 1)
  /\ failed \in BOOLEAN /\ applied \in BOOLEAN /\ merged \in Hashes
  /\ exec \in [Executors -> Batch \cup {NoBatch}]
  /\ probe \in [Children -> {"idle", "checked", "stored", "undo"}]
  /\ beat \in Beat
  /\ faulty \subseteq {"hash", "restart"}

\* While a fan-out is incomplete or has failed, no child looks ready to the
\* placement code, except for the instant in which a health success that
\* raced with the quarantine is about to take its store back
\* (mark_child_ready_from_health_success loads the flag twice).
QuarantineHidesChildren ==
  quarantined /\ wpc # "hide" =>
    \A c \in Children : ready[c] => probe[c] \in {"stored", "undo"}

\* A batch runs against one registry revision from its hash check to its end:
\* no config request touches a child while a batch holds the shared side of
\* the execution barrier (a backend process that restarts does).
RegistryStableDuringBatch ==
  "restart" \notin faulty =>
    \A x \in Executors :
      exec[x] # NoBatch => breg[exec[x].child] = exec[x].revision

\* Whenever the pool serves, all its children run the same registry: a child
\* that missed a request keeps the whole pool quarantined until a later
\* request has been committed by every child with equal hashes.  It takes
\* children that report their hashes and do not restart: merge_bundle_hash
\* accepts an empty hash from anyone.
UniformWhenServing ==
  faulty = {} /\ ~quarantined => \A c, d \in Children : breg[c] = breg[d]

\* A hash advertised by the config path is the hash of the registry of every
\* child at that moment, under the same proviso.
VerifiedHashIsEveryChilds ==
  [][faulty = {} /\ wpc = "verify" /\ wpc' = "idle"
       /\ advertised' # advertised =>
       \A c \in Children : ConfigHash(breg[c]) = advertised']_vars
=============================================================================
