---------------------------- MODULE ConfigPlane ----------------------------
(***************************************************************************)
(* One worker kept in step with the control plane: the writer of           *)
(* ConfigWriter, the lossy Core NATS subject, the sidecar's config         *)
(* subscriber, and its reconciler, which compares epochs and fingerprints  *)
(* and installs full exports.  Everything the sidecar does under lock_apply *)
(* is one step here; ConfigFanout is what happens inside it.               *)
(***************************************************************************)
EXTENDS ConfigWriter

CONSTANTS Ours,            \* the models of this worker's bundle and pool
          NoHash,          \* an empty hash or fingerprint
          NoNote, NoSnap,
          PeriodicExport   \* is full_export_interval set?

Scoped == [Ours -> Config]

\* The part of a catalog that concerns this worker's bundle and pool.
Scope(cat) == [m \in Ours |-> cat[m]]

ASSUME WorkerAssumption == /\ Ours \subseteq Models
                           /\ NoHash \notin Scoped /\ NoHash \notin Catalog
                           /\ PeriodicExport \in BOOLEAN
                           /\ \A w \in Workloads :
                                w.worker \in BOOLEAN /\ w.gateway \in BOOLEAN
                              \* which consumers does the control plane have?

VARIABLES
  wreg,         \* the registry of the worker's backend
  wepoch,       \* ConfigApplyState.epoch
  whash,        \* ConfigApplyState.bundle_config_hash
  quarantined,  \* the adapter pool refuses batches
  spc, note,    \* subscriber: waiting for lock_apply with a delta
  rpc,          \* reconciler: where it is
  local, remote, print,  \* local epoch, polled epoch, polled fingerprint
  reason, force,         \* why it fetches an export, and force_epoch
  snap,         \* the export it fetched
  lastPrint,    \* last_bundle_config_hashes_hash
  synced,       \* last_successful_export is Some
  lastSig       \* last_export_signature

stateVars == <<wreg, wepoch, whash, quarantined>>
subVars == <<spc, note>>
pollVars == <<local, remote, print, reason, force>>
reconVars == <<rpc, pollVars, snap, lastPrint, synced, lastSig>>
vars == <<writerVars, stateVars, subVars, reconVars>>

Snapshot == [epoch : Nat, models : Scoped, catalog : Scoped]

\* The bundle hash of a scope: empty without models, otherwise collision free.
Hash(reg) == IF \A m \in Ours : reg[m] = Empty THEN NoHash ELSE reg

\* verified_applied_bundle_hash
Verified(control, applied) == control = NoHash \/ control = applied

\* notification_is_stale
Stale(e) == e < wepoch \/ (e = wepoch /\ e # 0)

\* The worker image holds the same catalog as the control plane's.
WorkerBaked == Scope(world.baked)

WorkerInit ==
  /\ wreg = WorkerBaked /\ wepoch = 0 /\ whash = Hash(WorkerBaked)
  /\ quarantined = FALSE
  /\ spc = "idle" /\ note = NoNote
  /\ rpc = IF world.worker THEN "boot" ELSE "off"
  /\ local = 0 /\ remote = 0 /\ print = NoHash
  /\ reason = "startup" /\ force = FALSE /\ snap = NoSnap
  /\ lastPrint = NoHash /\ synced = FALSE /\ lastSig = NoSnap

Init == WriterInit /\ WorkerInit

----------------------------------------------------------------------------
(* The subject and the subscriber.                                         *)

\* Core NATS keeps nothing for a subscriber that is away.
LoseDelta ==
  /\ wire # <<>> /\ (world.worker \/ world.gateway)
  /\ wire' = Tail(wire)
  /\ UNCHANGED <<store, registry, epoch, pc, job, writes, faults, torn, world,
                 stateVars, subVars, reconVars>>

\* The first half of apply_notification: stale deltas and other pools' deltas
\* are dropped before the lock.
ReceiveDelta ==
  /\ spc = "idle" /\ wire # <<>> /\ world.worker
  /\ wire' = Tail(wire)
  /\ IF Stale(Head(wire).epoch) \/ Head(wire).model \notin Ours
       THEN UNCHANGED subVars
       ELSE spc' = "apply" /\ note' = Head(wire)
  /\ UNCHANGED <<store, registry, epoch, pc, job, writes, faults, torn, world,
                 stateVars, reconVars>>

StaleUnderLock == Stale(note.epoch)

\* mark_applied
MarkApplied(e, h) ==
  IF e = 0 THEN whash' = h /\ wepoch' = wepoch
  ELSE IF e > wepoch THEN whash' = h /\ wepoch' = e
  ELSE UNCHANGED <<whash, wepoch>>

\* The second half, under lock_apply: the backend commits the delta, and the
\* epoch and hash advance only when its hash is the control plane's.
ApplyDelta ==
  /\ spc = "apply"
  /\ IF StaleUnderLock THEN UNCHANGED stateVars ELSE
       LET reg == [wreg EXCEPT ![note.model] = note.config] IN
       /\ wreg' = reg
       /\ quarantined' = FALSE
       /\ IF Verified(Hash(Scope(note.catalog)), Hash(reg))
            THEN MarkApplied(note.epoch, Hash(reg))
            ELSE UNCHANGED <<wepoch, whash>>
  /\ spc' = "idle" /\ note' = NoNote
  /\ UNCHANGED <<writerVars, reconVars>>

\* A non-retryable IPC error: the pool stays quarantined, committed or not.
ApplyDeltaFails ==
  /\ spc = "apply" /\ ~Stale(note.epoch) /\ Fault("ipc")
  /\ wreg' \in {wreg, [wreg EXCEPT ![note.model] = note.config]}
  /\ quarantined' = TRUE
  /\ spc' = "idle" /\ note' = NoNote
  /\ UNCHANGED <<store, registry, epoch, pc, job, wire, writes, torn, world,
                 wepoch, whash, reconVars>>

----------------------------------------------------------------------------
(* The reconciler.                                                         *)

\* The fingerprint of the first poll is recorded before the startup export.
BootPoll ==
  /\ rpc = "boot"
  /\ lastPrint' = registry
  /\ rpc' = "fetch"
  /\ UNCHANGED <<writerVars, stateVars, subVars, pollVars, snap, synced,
                 lastSig>>

BootPollFails ==
  /\ rpc = "boot" /\ Fault("http")
  /\ rpc' = "fetch"
  /\ UNCHANGED <<store, registry, epoch, pc, job, wire, writes, torn, world,
                 stateVars, subVars, pollVars, snap, lastPrint, synced,
                 lastSig>>

\* A tick reads the local epoch before it asks for the remote one.
Tick ==
  /\ rpc = "tick"
  /\ local' = wepoch
  /\ rpc' = "poll"
  /\ UNCHANGED <<writerVars, stateVars, subVars, remote, print, reason, force,
                 snap, lastPrint, synced, lastSig>>

\* GET /v1/configs/epoch takes no lock: the epoch file first ...
PollEpoch ==
  /\ rpc = "poll"
  /\ remote' = epoch
  /\ rpc' = "print"
  /\ UNCHANGED <<writerVars, stateVars, subVars, local, print, reason, force,
                 snap, lastPrint, synced, lastSig>>

\* ... (0 when it cannot be read) ...
PollEpochUnreadable ==
  /\ rpc = "poll" /\ HasStore /\ Fault("epoch_read")
  /\ remote' = 0
  /\ rpc' = "print"
  /\ UNCHANGED <<store, registry, epoch, pc, job, wire, writes, torn, world,
                 stateVars, subVars, local, print, reason, force, snap,
                 lastPrint, synced, lastSig>>

\* ... then the fingerprint of the registry.
PollPrint ==
  /\ rpc = "print"
  /\ print' = registry
  /\ rpc' = "compare"
  /\ UNCHANGED <<writerVars, stateVars, subVars, local, remote, reason, force,
                 snap, lastPrint, synced, lastSig>>

PollFails ==
  /\ rpc \in {"poll", "print"} /\ Fault("http")
  /\ rpc' = "tick"
  /\ UNCHANGED <<store, registry, epoch, pc, job, wire, writes, torn, world,
                 stateVars, subVars, pollVars, snap, lastPrint, synced,
                 lastSig>>

\* Mutant of DriftReason: only epochs are compared.
DriftReasonEpochOnly(due) ==
  CASE remote > local -> "epoch_ahead"
    [] remote < local -> "epoch_rewind"
    [] OTHER -> "none"

\* drift_reason
DriftReason(due) ==
  CASE remote > local -> "epoch_ahead"
    [] remote < local -> "epoch_rewind"
    [] remote = local /\ print # lastPrint -> "fingerprint"
    [] remote = local /\ print = lastPrint /\ remote = 0 /\ due -> "periodic_export"
    [] OTHER -> "none"

\* full_export_due: the interval has run out, or nothing was installed yet.
Due == IF ~PeriodicExport THEN {FALSE} ELSE IF synced THEN BOOLEAN ELSE {TRUE}

Compare ==
  /\ rpc = "compare"
  /\ \E due \in Due :
       IF DriftReason(due) = "none"
         THEN rpc' = "tick" /\ UNCHANGED <<reason, force>>
         ELSE /\ rpc' = "fetch"
              /\ reason' = DriftReason(due)
              /\ force' = (remote < local)
  /\ UNCHANGED <<writerVars, stateVars, subVars, local, remote, print, snap,
                 lastPrint, synced, lastSig>>

WriteLockFree == pc = "idle"

\* GET /v1/configs/export, under the write lock.
FetchExport ==
  /\ rpc = "fetch" /\ WriteLockFree
  /\ snap' = [epoch |-> epoch, models |-> Scope(Exported),
              catalog |-> Scope(registry)]
  /\ rpc' = "apply"
  /\ UNCHANGED <<writerVars, stateVars, subVars, pollVars, lastPrint, synced,
                 lastSig>>

\* The same with an unreadable epoch file.
FetchExportUnreadable ==
  /\ rpc = "fetch" /\ WriteLockFree /\ HasStore /\ Fault("epoch_read")
  /\ snap' = [epoch |-> 0, models |-> Scope(Exported),
              catalog |-> Scope(registry)]
  /\ rpc' = "apply"
  /\ UNCHANGED <<store, registry, epoch, pc, job, wire, writes, torn, world,
                 stateVars, subVars, pollVars, lastPrint, synced, lastSig>>

FetchFails ==
  /\ rpc = "fetch"
  /\ Fault(IF reason = "startup" THEN "startup_http" ELSE "http")
  /\ rpc' = "tick"
  /\ UNCHANGED <<store, registry, epoch, pc, job, wire, writes, torn, world,
                 stateVars, subVars, pollVars, snap, lastPrint, synced,
                 lastSig>>

\* compute_export_signature
Signature == [models |-> snap.models, catalog |-> Hash(snap.catalog)]

\* Mutant of Reconciled: the fingerprint is read again after the export.
ReconciledLate ==
  /\ synced' = TRUE
  /\ lastPrint' = registry

\* The outcome with failed = 0: the tick records the fingerprint it polled.
Reconciled ==
  /\ synced' = TRUE
  /\ lastPrint' = IF reason = "startup" THEN lastPrint ELSE print

\* Mutant of StaleExport: an older export is installed.
StaleExportInstalled == FALSE

StaleExport == ~force /\ snap.epoch < wepoch

Unchanged == reason = "periodic_export" /\ Signature = lastSig

\* mark_export_reconciled
MarkReconciled(e, h) ==
  IF ~force /\ e < wepoch THEN UNCHANGED <<wepoch, whash>>
                          ELSE wepoch' = e /\ whash' = h

\* An outcome with failed > 0 leaves everything the next tick compares alone.
NotRecorded == UNCHANGED <<wepoch, whash, lastPrint, synced, lastSig>>

\* reconcile_export_snapshot under lock_apply.  A hash mismatch installs the
\* models and records nothing.
ApplyExport ==
  /\ rpc = "apply"
  /\ CASE StaleExport -> Reconciled /\ UNCHANGED <<stateVars, lastSig>>
       [] ~StaleExport /\ Unchanged ->
            Reconciled /\ UNCHANGED <<stateVars, lastSig>>
       [] OTHER ->
            /\ wreg' = snap.models
            /\ quarantined' = FALSE
            /\ IF Verified(Hash(snap.catalog), Hash(snap.models))
                 THEN /\ MarkReconciled(snap.epoch, Hash(snap.models))
                      /\ Reconciled
                      /\ lastSig' = Signature
                 ELSE NotRecorded
  /\ rpc' = "tick" /\ snap' = NoSnap
  /\ UNCHANGED <<writerVars, subVars, pollVars>>

\* A non-retryable IPC error: the pool stays quarantined, nothing is recorded.
ApplyExportFails ==
  /\ rpc = "apply" /\ ~StaleExport /\ ~Unchanged
  /\ Fault(IF reason = "startup" THEN "startup_ipc" ELSE "ipc")
  /\ wreg' \in {wreg, snap.models}
  /\ quarantined' = TRUE
  /\ rpc' = "tick" /\ snap' = NoSnap
  /\ NotRecorded
  /\ UNCHANGED <<store, registry, epoch, pc, job, wire, writes, torn, world,
                 subVars, pollVars>>

\* The Python backend restarts under a live sidecar with its image's configs.
RestartBackend ==
  /\ Fault("backend_restart")
  /\ wreg' = WorkerBaked
  /\ UNCHANGED <<store, registry, epoch, pc, job, wire, writes, torn, world,
                 wepoch, whash, quarantined, subVars, reconVars>>

----------------------------------------------------------------------------
Subscriber == ReceiveDelta \/ ApplyDelta
Reconciler == \/ BootPoll \/ Tick \/ PollEpoch \/ PollPrint \/ Compare
              \/ FetchExport \/ ApplyExport
WorkerFault == \/ LoseDelta \/ ApplyDeltaFails \/ BootPollFails
               \/ PollEpochUnreadable \/ PollFails
               \/ FetchExportUnreadable \/ FetchFails
               \/ ApplyExportFails \/ RestartBackend
Writer == WriterNext /\ UNCHANGED <<stateVars, subVars, reconVars>>

Next == Writer \/ Subscriber \/ Reconciler \/ WorkerFault

\* Requests in progress run on, the subscriber drains its subject, and the
\* ticker keeps ticking.  Nothing fails for ever: faults are bounded.
Fairness == WF_pc(WriterStep) /\ WF_<<spc, wire>>(Subscriber) /\ WF_rpc(Reconciler)

Spec == Init /\ [][Next]_vars /\ Fairness

----------------------------------------------------------------------------
(* Properties.                                                             *)

\* Every variable has its type.
TypeOK ==
  /\ WriterTypeOK
  /\ wreg \in Scoped /\ wepoch \in Nat /\ whash \in Scoped \cup {NoHash}
  /\ quarantined \in BOOLEAN
  /\ spc \in {"idle", "apply"} /\ note \in Delta \cup {NoNote}
  /\ rpc \in {"off", "boot", "tick", "poll", "print", "compare", "fetch", "apply"}
  /\ local \in Nat /\ remote \in Nat
  /\ print \in Catalog \cup {NoHash} /\ lastPrint \in Catalog \cup {NoHash}
  /\ reason \in {"startup", "epoch_ahead", "epoch_rewind", "fingerprint",
                 "periodic_export"}
  /\ force \in BOOLEAN /\ synced \in BOOLEAN
  /\ snap \in Snapshot \cup {NoSnap}

\* The worker serves exactly the control plane's catalog of its scope, says
\* so with its epoch and hash, and is not quarantined.
InStep ==
  /\ wreg = Scope(registry)
  /\ whash = Hash(Scope(registry))
  /\ wepoch = epoch
  /\ ~quarantined

\* The next poll would find nothing to do: no write and no delta is under
\* way, and epoch and fingerprint are the recorded ones.
LooksInSync ==
  /\ pc = "idle" /\ wire = <<>> /\ spc = "idle" /\ rpc = "tick"
  /\ wepoch = epoch /\ lastPrint = registry
  /\ ~(PeriodicExport /\ epoch = 0)

\* The faults that can happen show in an epoch or a fingerprint.  A startup
\* export that fails after its fingerprint was recorded and a backend that
\* restarts under a live sidecar show in neither, and an epoch file that
\* cannot be read repeats epochs.
Noticed == world.worker /\ world.faults \cap {"startup_http", "startup_ipc",
                                  "backend_restart", "epoch_read"} = {}

\* The clients only append.
AppendOnly == world.ops = {"add"}

\* No silent drift: whenever the poll would report "in sync", the worker is.
\* This is what the epoch, the fingerprint and the order in which they are
\* read, recorded and compared have to guarantee, since deltas may be lost.
NoSilentDrift == Noticed /\ LooksInSync => InStep

\* With append-only writes a worker that serves what it advertises never
\* loses a profile: neither a late delta nor an export that was overtaken by
\* deltas takes one back.
ServedCatalogGrows ==
  [][AppendOnly /\ Noticed /\ whash = Hash(wreg) /\ ~quarantined =>
       \A m \in Ours, p \in Profiles :
         wreg[m][p] # None => wreg'[m][p] = wreg[m][p]]_vars

\* With append-only writes and a store, the worker never runs a profile the
\* control plane does not have: a write is durable before any delta or export
\* shows it, so no crash of the control plane, no late message and no restart
\* of the backend leaves a worker with a profile nobody can account for.
WorkerNeverAhead ==
  AppendOnly /\ HasStore =>
    \A m \in Ours, p \in Profiles :
      wreg[m][p] # None => wreg[m][p] = registry[m][p]

\* Once writes and faults stop, the worker ends up in step for good,
\* whichever deltas were lost, unless a half-way DELETE has left the store and
\* the registry apart: exports then carry less than their hashes cover.
WorkerConverges == <>[](Noticed /\ torn = {} => InStep)
=============================================================================
