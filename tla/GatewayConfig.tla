--------------------------- MODULE GatewayConfig ---------------------------
(***************************************************************************)
(* The other consumer of the control plane: a gateway that serves the      *)
(* catalog and routes only to workers that advertise the config hash it    *)
(* expects.  Three tasks write to its registry: the subscriber of the      *)
(* lossy subject, which merges deltas and never removes anything, the      *)
(* startup task, which retries until one bootstrap succeeds, and the       *)
(* poller, which bootstraps again when epoch or fingerprint have drifted.  *)
(* The registry's lock covers one call; between the calls of one task the  *)
(* others run.                                                             *)
(***************************************************************************)
EXTENDS ConfigPlane

Tasks == {"startup", "poller"}
Other(t) == CHOOSE u \in Tasks : u # t

ASSUME GatewayAssumption == \A w \in Workloads : w.seeded \in BOOLEAN
                            \* does the gateway's image hold the catalog, too?

VARIABLES
  greg,       \* ModelRegistry: the models
  gbundles,   \* ... has it bundles, against which deltas are validated?
  gexp,       \* ... and the hash it expects of the workers of Ours
  gepoch,     \* ConfigEpoch
  gprint,     \* BundleConfigHashesHash
  gsub, gnote,     \* the subscriber, and the delta it applies
  task,            \* where the two bootstrapping tasks are ...
  gpre, gsnap,     \* ... the fingerprint each polled first, and its export
  compared,        \* poller: both sides of its comparison
  covered, mixed   \* history: the epoch of the export installed last, and
                   \* whether something it should supersede wrote after it

registryVars == <<greg, gbundles, gexp>>
gsubVars == <<gsub, gnote>>
taskVars == <<task, gpre, gsnap, compared>>
history == <<covered, mixed>>
gatewayVars == <<registryVars, gepoch, gprint, gsubVars, taskVars, history>>
workerVars == <<stateVars, subVars, reconVars>>
planeVars == <<world, store, registry, epoch, pc, job, writes, torn, workerVars>>
allVars == <<vars, gatewayVars>>

FullSnapshot == [epoch : Nat, models : Catalog, catalog : Catalog]
Comparison == [local : Nat, lprint : Catalog \cup {NoHash},
               remote : Nat, rprint : Catalog \cup {NoHash}]
NoComparison == [local |-> 0, lprint |-> NoHash, remote |-> 0, rprint |-> NoHash]

\* The optional filesystem seed.
Seed == IF world.seeded THEN world.baked ELSE [m \in Models |-> Empty]

GatewayInit ==
  /\ greg = Seed /\ gbundles = world.seeded /\ gexp = Hash(Scope(Seed))
  /\ gepoch = 0 /\ gprint = NoHash
  /\ gsub = "idle" /\ gnote = NoNote
  /\ task = [t \in Tasks |-> IF ~world.gateway THEN "off"
                             ELSE IF t = "startup" THEN "pre" ELSE "sleep"]
  /\ gpre = [t \in Tasks |-> NoHash] /\ gsnap = [t \in Tasks |-> NoSnap]
  /\ compared = NoComparison
  /\ covered = 0 /\ mixed = FALSE

\* install_bundle_pool_config_hashes: a hash of the control plane replaces the
\* computed one; a pool the control plane has no hash for keeps its own.
Installed(computed, control) == IF control = NoHash THEN computed ELSE control

\* set_max
SetMax(e) == gepoch' = IF e > gepoch THEN e ELSE gepoch

----------------------------------------------------------------------------
(* The subscriber: apply_notification, and no check for stale deltas.      *)

ReceiveNotification ==
  /\ gsub = "idle" /\ wire # <<>> /\ world.gateway
  /\ wire' = Tail(wire)
  /\ gsub' = "add" /\ gnote' = Head(wire)
  /\ UNCHANGED <<planeVars, faults, registryVars, gepoch, gprint, taskVars, history>>

\* A delta that an installed export already covers is about to be written.
Late == gnote.epoch <= covered

\* add_model_config: append-only, for a model with a default profile.  A delta
\* is refused when no bundle can run it or a profile of it exists with another
\* content; the epoch then stays.
AddModelConfig ==
  /\ gsub = "add"
  /\ IF ~gbundles \/ Conflicts(greg[gnote.model], gnote.config)
       THEN /\ gsub' = "idle" /\ gnote' = NoNote
            /\ UNCHANGED <<registryVars, history>>
       ELSE LET merged == Merge(greg[gnote.model], gnote.config) IN
            /\ greg' = [greg EXCEPT ![gnote.model] = merged]
            /\ gexp' = Hash(Scope(greg'))
            /\ mixed' = (mixed \/ Late \/ merged # gnote.config)
            /\ gsub' = "install"
            /\ UNCHANGED <<gbundles, gnote, covered>>
  /\ UNCHANGED <<planeVars, wire, faults, gepoch, gprint, taskVars>>

\* install_bundle_config_hashes and install_bundle_pool_config_hashes, then
\* ConfigEpoch::set_max
InstallDeltaHashes ==
  /\ gsub = "install"
  /\ gexp' = Installed(gexp, Hash(Scope(gnote.catalog)))
  /\ mixed' = (mixed \/ Late)
  /\ SetMax(gnote.epoch)
  /\ gsub' = "idle" /\ gnote' = NoNote
  /\ UNCHANGED <<planeVars, wire, faults, greg, gbundles, gprint, taskVars, covered>>

----------------------------------------------------------------------------
(* bootstrap_once, run by either task.                                     *)

At(t, here) == task[t] = here

\* fetch_epoch before anything else: its fingerprint is what gets recorded.
PollBefore(t) ==
  /\ At(t, "pre")
  /\ gpre' = [gpre EXCEPT ![t] = registry]
  /\ task' = [task EXCEPT ![t] = "bundles"]
  /\ UNCHANGED <<planeVars, wire, faults, registryVars, gepoch, gprint, gsubVars,
                 gsnap, compared, history>>

\* fetch_bundles and install_bundles, which computes the hashes anew.
InstallBundles(t) ==
  /\ At(t, "bundles")
  /\ gbundles' = TRUE
  /\ gexp' = Hash(Scope(greg))
  /\ task' = [task EXCEPT ![t] = "export"]
  /\ UNCHANGED <<planeVars, wire, faults, greg, gepoch, gprint, gsubVars, gpre,
                 gsnap, compared, history>>

\* GET /v1/configs/export, under the write lock of the control plane.
Fetched(t, e) ==
  /\ At(t, "export") /\ WriteLockFree
  /\ gsnap' = [gsnap EXCEPT ![t] = [epoch |-> e, models |-> Exported,
                                    catalog |-> registry]]
  /\ task' = [task EXCEPT ![t] = "replace"]
  /\ UNCHANGED <<planeVars, wire, registryVars, gepoch, gprint, gsubVars, gpre,
                 compared, history>>

FetchSnapshot(t) == Fetched(t, epoch) /\ UNCHANGED faults

\* The same with an unreadable epoch file.
FetchSnapshotUnreadable(t) == HasStore /\ Fault("epoch_read") /\ Fetched(t, 0)

\* Is the other task between the two calls that install an export and record it?
Overlaps(t) == task[Other(t)] \in {"install", "record"}

\* replace_model_configs_authoritative
ReplaceModelConfigs(t) ==
  /\ At(t, "replace")
  /\ greg' = gsnap[t].models
  /\ gexp' = Hash(Scope(gsnap[t].models))
  /\ covered' = gsnap[t].epoch
  /\ mixed' = (Overlaps(t) \/ gsnap[t].epoch < covered)
  /\ task' = [task EXCEPT ![t] = "install"]
  /\ UNCHANGED <<planeVars, wire, faults, gbundles, gepoch, gprint, gsubVars, gpre,
                 gsnap, compared>>

InstallExportHashes(t) ==
  /\ At(t, "install")
  /\ gexp' = Installed(gexp, Hash(Scope(gsnap[t].catalog)))
  /\ task' = [task EXCEPT ![t] = "record"]
  /\ UNCHANGED <<planeVars, wire, faults, greg, gbundles, gepoch, gprint, gsubVars,
                 gpre, gsnap, compared, history>>

\* Mutant of Recorded: the fingerprint is polled after the export.
RecordedLate(t) == registry

\* BundleConfigHashesHash::store gets the fingerprint polled before.
Recorded(t) == gpre[t]

Rewinds == compared.remote < compared.local

\* A task ends its bootstrap, its locals go.
Leaves(t, next) ==
  /\ task' = [task EXCEPT ![t] = next]
  /\ gpre' = [gpre EXCEPT ![t] = NoHash]
  /\ gsnap' = [gsnap EXCEPT ![t] = NoSnap]
  /\ compared' = IF t = "poller" /\ next = "sleep" THEN NoComparison ELSE compared

\* bootstrap_once, after a complete bootstrap.
RecordBootstrap(t) ==
  /\ At(t, "record")
  /\ SetMax(gsnap[t].epoch)
  /\ gprint' = Recorded(t)
  /\ Leaves(t, IF t = "startup" THEN "done" ELSE IF Rewinds THEN "force" ELSE "sleep")
  /\ UNCHANGED <<planeVars, wire, faults, registryVars, gsubVars, history>>

\* A call fails, or a model of the export cannot be applied: nothing of the
\* export is installed and nothing is recorded.  The startup task tries again
\* after a backoff, the poller at its next tick.
BootstrapFails(t) ==
  /\ task[t] \in {"pre", "bundles", "export", "replace"} /\ Fault("http")
  /\ Leaves(t, IF t = "startup" THEN "pre" ELSE "sleep")
  /\ UNCHANGED <<planeVars, wire, registryVars, gepoch, gprint, gsubVars, history>>

----------------------------------------------------------------------------
(* The poller.                                                             *)

PollerMoves(next, comparison) ==
  /\ task' = [task EXCEPT !["poller"] = next]
  /\ compared' = comparison
  /\ UNCHANGED <<planeVars, wire, registryVars, gprint, gsubVars, gpre, gsnap,
                 history>>

\* The local values are read before the remote ones are asked for.
PollerTick ==
  /\ At("poller", "sleep")
  /\ PollerMoves("epoch", [NoComparison EXCEPT !.local = gepoch, !.lprint = gprint])
  /\ UNCHANGED <<faults, gepoch>>

PollerEpoch ==
  /\ At("poller", "epoch")
  /\ PollerMoves("print", [compared EXCEPT !.remote = epoch])
  /\ UNCHANGED <<faults, gepoch>>

PollerEpochUnreadable ==
  /\ At("poller", "epoch") /\ HasStore /\ Fault("epoch_read")
  /\ PollerMoves("print", compared)
  /\ UNCHANGED gepoch

PollerPrint ==
  /\ At("poller", "print")
  /\ PollerMoves("compare", [compared EXCEPT !.rprint = registry])
  /\ UNCHANGED <<faults, gepoch>>

PollerFails ==
  /\ task["poller"] \in {"epoch", "print"} /\ Fault("http")
  /\ PollerMoves("sleep", NoComparison)
  /\ UNCHANGED gepoch

\* Mutant of Drifted: only epochs are compared.
DriftedEpochOnly == compared.remote # compared.local

Drifted == compared.remote # compared.local \/ compared.rprint # compared.lprint

PollerCompare ==
  /\ At("poller", "compare")
  /\ IF Drifted THEN PollerMoves("pre", compared) ELSE PollerMoves("sleep", NoComparison)
  /\ UNCHANGED <<faults, gepoch>>

\* force_set, after a successful bootstrap only.
ForceEpoch ==
  /\ At("poller", "force")
  /\ gepoch' = compared.remote
  /\ PollerMoves("sleep", NoComparison)
  /\ UNCHANGED faults

\* The gateway process dies and starts again.
RestartGateway ==
  /\ world.gateway /\ Fault("gateway_restart")
  /\ greg' = Seed /\ gbundles' = world.seeded /\ gexp' = Hash(Scope(Seed))
  /\ gepoch' = 0 /\ gprint' = NoHash
  /\ gsub' = "idle" /\ gnote' = NoNote
  /\ task' = [t \in Tasks |-> IF t = "startup" THEN "pre" ELSE "sleep"]
  /\ gpre' = [t \in Tasks |-> NoHash] /\ gsnap' = [t \in Tasks |-> NoSnap]
  /\ compared' = NoComparison
  /\ covered' = 0 /\ mixed' = FALSE
  /\ UNCHANGED <<planeVars, wire>>

----------------------------------------------------------------------------
Listens == \/ ReceiveNotification \/ AddModelConfig \/ InstallDeltaHashes
Bootstraps(t) == \/ PollBefore(t) \/ InstallBundles(t) \/ FetchSnapshot(t)
                 \/ ReplaceModelConfigs(t) \/ InstallExportHashes(t)
                 \/ RecordBootstrap(t)
Polls == \/ PollerTick \/ PollerEpoch \/ PollerPrint \/ PollerCompare \/ ForceEpoch
GatewayFault == \/ \E t \in Tasks : BootstrapFails(t) \/ FetchSnapshotUnreadable(t)
                \/ PollerEpochUnreadable \/ PollerFails \/ RestartGateway
Gateway == Listens \/ (\E t \in Tasks : Bootstraps(t)) \/ Polls \/ GatewayFault

ClusterInit == Init /\ GatewayInit
ClusterNext == (Next /\ UNCHANGED gatewayVars) \/ Gateway

\* As in ConfigPlane; the gateway's tasks are independent of each other, and
\* none of them gives up.
ClusterFairness ==
  /\ Fairness
  /\ WF_gsub(Listens)
  /\ WF_task(Bootstraps("startup"))
  /\ WF_task(Bootstraps("poller") \/ Polls)

ClusterSpec == ClusterInit /\ [][ClusterNext]_allVars /\ ClusterFairness

----------------------------------------------------------------------------
(* Properties.                                                             *)

\* The next poll would find nothing to do: no write, delta or bootstrap is
\* under way, and epoch and fingerprint are the recorded ones.
GatewayLooksInSync ==
  /\ pc = "idle" /\ wire = <<>> /\ gsub = "idle"
  /\ task["startup"] = "done" /\ task["poller"] = "sleep"
  /\ gepoch = epoch /\ gprint = registry

\* The gateway serves the control plane's catalog and expects of the workers
\* the hash that the control plane's catalog gives them.
GatewayInStep ==
  /\ \A m \in Whole : greg[m] = registry[m]
  /\ gexp = Hash(Scope(registry))
  /\ gepoch = epoch

\* An epoch file that cannot be read repeats epochs.
EpochsCount == world.gateway /\ "epoch_read" \notin world.faults

\* When a poll reports "in sync", the gateway is, unless a delta was applied
\* after an export that covers it, a delta replaced what it could only add to,
\* or two bootstraps overlapped: deltas may be lost, arrive before the bundles
\* or conflict, and any call may fail.
GatewayNoSilentDrift ==
  EpochsCount /\ torn = {} /\ ~mixed /\ GatewayLooksInSync => GatewayInStep

\* With append-only clients and a store the gateway offers no profile that the
\* control plane does not have, whichever task wrote to its registry last.
GatewayNeverAhead ==
  AppendOnly /\ HasStore =>
    \A m \in Models, p \in Profiles : greg[m][p] # None => greg[m][p] = registry[m][p]

\* No consumer of the control plane gets ahead of it.
NobodyAhead == WorkerNeverAhead /\ GatewayNeverAhead

\* Once writes and faults stop, every consumer ends up in step for good.
EventuallyInStep ==
  /\ WorkerConverges
  /\ <>[](EpochsCount /\ torn = {} /\ ~mixed => GatewayInStep)

\* The poller's promise: once writes stop, the hash the gateway expects of its
\* workers is the control plane's for good, whatever order things arrived in.
NeverWedged == <>[](EpochsCount /\ torn = {} => gexp = Hash(Scope(registry)))
=============================================================================
