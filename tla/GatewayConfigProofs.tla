------------------------ MODULE GatewayConfigProofs ------------------------
(***************************************************************************)
(* The control plane keeps its promises with a gateway beside the worker,  *)
(* and the gateway, too, never offers a profile the control plane does not *)
(* have: for any models, profiles, contents, workloads and faults, and any *)
(* interleaving of the gateway's three tasks.                              *)
(***************************************************************************)
EXTENDS GatewayConfig, ConfigPlaneProofs

USE CatalogAssumption, DeploymentAssumption, WorkloadAssumption

----------------------------------------------------------------------------
(* What the gateway does to the control plane: it takes deltas off the     *)
(* subject, and its failing calls count as faults.                         *)

Counted == faults' \in {faults} \cup {n \in {faults + 1} : faults < world.maxFaults}

LEMMA GatewayKeepsPlane ==
  ASSUME Gateway
  PROVE  /\ UNCHANGED planeVars
         /\ wire' = wire \/ (wire # <<>> /\ wire' = Tail(wire))
         /\ Counted
<1>1. CASE Listens
  BY <1>1 DEF Listens, ReceiveNotification, AddModelConfig, InstallDeltaHashes, Counted
<1>2. ASSUME NEW t \in Tasks, Bootstraps(t)
      PROVE  UNCHANGED <<planeVars, wire, faults>>
  BY <1>2 DEF Bootstraps, PollBefore, InstallBundles, FetchSnapshot, Fetched,
              ReplaceModelConfigs, InstallExportHashes, RecordBootstrap
<1>3. CASE Polls
  BY <1>3 DEF Polls, PollerTick, PollerEpoch, PollerPrint, PollerCompare, ForceEpoch,
              PollerMoves, Counted
<1>4. CASE GatewayFault
  BY <1>4 DEF GatewayFault, BootstrapFails, FetchSnapshotUnreadable, Fetched,
              PollerEpochUnreadable, PollerFails, PollerMoves, RestartGateway, Fault,
              Counted
<1> QED BY <1>1, <1>2, <1>3, <1>4 DEF Gateway, Counted

LEMMA GatewayKeepsIInv == ASSUME IInv, Gateway PROVE IInv'
<1>1. /\ UNCHANGED <<world, store, registry, epoch, pc, job, writes, torn, stateVars,
                     subVars, reconVars>>
      /\ wire' = wire \/ (wire # <<>> /\ wire' = Tail(wire))
      /\ Counted
  BY GatewayKeepsPlane DEF planeVars, workerVars
<1>2. wire \in Seq(Delta) /\ faults \in 0..world.maxFaults /\ world \in Workloads
  BY DEF IInv, TypeInv, TypeOK, WriterTypeOK
<1>3. wire' \in Seq(Delta)
  BY <1>1, <1>2
<1>4. faults' \in 0..world.maxFaults
  BY <1>1, <1>2 DEF Counted
<1>5. TypeInv'
  BY <1>1, <1>3, <1>4 DEF IInv, TypeInv, TypeOK, WriterTypeOK, Holding, JobHeld,
                          stateVars, subVars, reconVars, pollVars
<1>6. WriterInv'
  BY <1>1 DEF IInv, WriterInv, AppendsKeepWhole, Compatible, Rebuilt, Bare, Validated,
              Ahead, Covered, Pending
<1>7. AppendInv'
  <2> SUFFICES ASSUME AppendOnly, HasStore
               PROVE  Durable' /\ WorkerBelow' /\ WireBelow' /\ NoteBelow' /\ SnapBelow'
    BY <1>1 DEF AppendInv, AppendOnly
  <2>1. Durable /\ WorkerBelow /\ WireBelow /\ NoteBelow /\ SnapBelow
    BY DEF IInv, AppendInv
  <2>2. Durable' /\ WorkerBelow' /\ NoteBelow' /\ SnapBelow'
    BY <1>1, <2>1 DEF Durable, WorkerBelow, NoteBelow, SnapBelow, stateVars, subVars,
                      reconVars
  <2>3. ASSUME wire' = wire PROVE WireBelow'
    BY <1>1, <2>1, <2>3 DEF WireBelow
  <2>4. ASSUME wire # <<>>, wire' = Tail(wire) PROVE WireBelow'
    <3>1. \A i \in 1..Len(wire') : wire'[i] = wire[i + 1] /\ i + 1 \in 1..Len(wire)
      BY <1>2, <2>4
    <3> QED BY <1>1, <2>1, <3>1 DEF WireBelow
  <2> QED BY <1>1, <2>2, <2>3, <2>4
<1> QED BY <1>5, <1>6, <1>7 DEF IInv

----------------------------------------------------------------------------
(* The gateway's registry, and what is on its way to it.                   *)

GatewayTypes ==
  /\ greg \in Catalog
  /\ gsub \in {"idle", "add", "install"}
  /\ gsub # "idle" => gnote \in Delta
  /\ DOMAIN task = Tasks /\ DOMAIN gsnap = Tasks
  /\ \A t \in Tasks : task[t] = "replace" => gsnap[t].models \in Catalog

RegistryBelow == \A m \in Models : Below(greg[m], registry[m])
DeltaBelow == gsub = "add" => Below(gnote.config, registry[gnote.model])
FetchedBelow == \A t \in Tasks : task[t] = "replace" =>
                  \A m \in Models : Below(gsnap[t].models[m], registry[m])

GatewayBelow == AppendOnly /\ HasStore => RegistryBelow /\ DeltaBelow /\ FetchedBelow

\* Induction hypothesis: that of the control plane and its worker, and for the
\* gateway that nothing it holds or is about to install is unknown upstream.
GInv == IInv /\ GatewayTypes /\ GatewayBelow

LEMMA SeedBelow ==
  ASSUME IInv
  PROVE  /\ Seed \in Catalog
         /\ AppendOnly /\ HasStore => \A m \in Models : Below(Seed[m], registry[m])
<1>1. world.baked \in Catalog /\ [m \in Models |-> Empty] \in Catalog
  BY CatalogTypes DEF IInv, TypeInv, TypeOK, WriterTypeOK, Catalog
<1>2. \A m \in Models : Below(Empty, registry[m])
  BY DEF Below, Empty
<1> QED BY <1>1, <1>2 DEF Seed, IInv, AppendInv, Durable

LEMMA InitGInv == ClusterInit => GInv
<1> SUFFICES ASSUME ClusterInit PROVE GInv
  OBVIOUS
<1>1. IInv
  BY InitTypes, InitWriterInv, InitAppendInv DEF ClusterInit, IInv
<1>2. \A t \in Tasks : task[t] # "replace"
  BY DEF ClusterInit, GatewayInit, Tasks
<1>3. GatewayTypes
  BY <1>1, <1>2, SeedBelow DEF ClusterInit, GatewayInit, GatewayTypes
<1>4. GatewayBelow
  BY <1>1, <1>2, SeedBelow
     DEF ClusterInit, GatewayInit, GatewayBelow, RegistryBelow, DeltaBelow, FetchedBelow
<1> QED BY <1>1, <1>3, <1>4 DEF GInv

\* A step of the control plane or of the worker: the registry only grows.
LEMMA PlaneKeepsGInv ==
  ASSUME GInv, Next, UNCHANGED gatewayVars, IInv' PROVE GInv'
<1>1. UNCHANGED <<greg, gsub, gnote, task, gsnap>>
  BY DEF gatewayVars, registryVars, gsubVars, taskVars
<1>2. GatewayTypes'
  BY <1>1 DEF GInv, GatewayTypes
<1>3. world' = world
  <2>1. CASE Writer
    BY <2>1 DEF Writer, WriterNext, WriterStep, WriterFault, LockAndValidate, Persist,
                Mutate, IncrementEpoch, Publish, PersistFails, CancelDelete,
                IncrementAfterReadError, IncrementFails, PublishFails, Crash
  <2> QED BY <2>1, WorkerKeepsWriter DEF Next
<1>4. ASSUME AppendOnly, HasStore
      PROVE  RegistryBelow' /\ DeltaBelow' /\ FetchedBelow'
  <2>1. \A m \in Models : Below(registry[m], registry'[m])
    <3>1. CASE Writer
      BY <1>4, <3>1, RegistryGrows DEF Writer, GInv
    <3>2. CASE Subscriber \/ Reconciler \/ WorkerFault
      BY <3>2, WorkerKeepsWriter DEF Below
    <3> QED BY <3>1, <3>2 DEF Next
  <2>2. RegistryBelow /\ DeltaBelow /\ FetchedBelow
    BY <1>4 DEF GInv, GatewayBelow
  <2>3. RegistryBelow' /\ FetchedBelow'
    BY <1>1, <2>1, <2>2, BelowTransitive DEF RegistryBelow, FetchedBelow
  <2>4. gsub = "add" => gnote.model \in Models
    BY DEF GInv, GatewayTypes, Delta
  <2>5. DeltaBelow'
    BY <1>1, <2>1, <2>2, <2>4, BelowTransitive DEF DeltaBelow
  <2> QED BY <2>3, <2>5
<1> QED BY <1>2, <1>3, <1>4 DEF GInv, GatewayBelow, AppendOnly

LEMMA MergeBelow ==
  ASSUME NEW c \in Config, NEW d \in Config, NEW e, Below(c, e), Below(d, e)
  PROVE  Below(Merge(c, d), e)
BY DEF Below, Merge, Config

LEMMA ListensKeepsGInv ==
  ASSUME GInv, Listens, UNCHANGED <<world, registry>>
  PROVE  GatewayTypes' /\ GatewayBelow'
<1>1. UNCHANGED <<task, gsnap>>
  BY DEF Listens, ReceiveNotification, AddModelConfig, InstallDeltaHashes, taskVars
<1>2. ASSUME ReceiveNotification
      PROVE  /\ greg' = greg /\ gsub' = "add" /\ gnote' = Head(wire)
             /\ gnote' \in Delta
             /\ AppendOnly /\ HasStore => Below(gnote'.config, registry[gnote'.model])
  <2>1. wire \in Seq(Delta) /\ wire # <<>>
    BY <1>2 DEF ReceiveNotification, GInv, IInv, TypeInv, TypeOK, WriterTypeOK
  <2>2. 1 \in 1..Len(wire) /\ Head(wire) = wire[1] /\ Head(wire) \in Delta
    BY <2>1
  <2>3. greg' = greg /\ gsub' = "add" /\ gnote' = Head(wire)
    BY <1>2 DEF ReceiveNotification, registryVars
  <2> QED BY <2>2, <2>3 DEF GInv, IInv, AppendInv, WireBelow
<1>3. ASSUME AddModelConfig
      PROVE  /\ gsub' \in {"idle", "install"} /\ (gsub' = "install" => gnote' \in Delta)
             /\ greg' \in Catalog
             /\ AppendOnly /\ HasStore => \A m \in Models : Below(greg'[m], registry[m])
  <2>1. gnote \in Delta /\ greg \in Catalog
    BY <1>3 DEF AddModelConfig, GInv, GatewayTypes
  <2>2. gnote.model \in Models /\ gnote.config \in Config /\ greg[gnote.model] \in Config
    BY <2>1 DEF Delta, Catalog
  <2>3. CASE ~gbundles \/ Conflicts(greg[gnote.model], gnote.config)
    BY <1>3, <2>1, <2>3
       DEF AddModelConfig, registryVars, GInv, GatewayBelow, RegistryBelow
  <2>4. CASE ~(~gbundles \/ Conflicts(greg[gnote.model], gnote.config))
    <3> DEFINE merged == Merge(greg[gnote.model], gnote.config)
    <3>1. /\ greg' = [greg EXCEPT ![gnote.model] = merged]
          /\ gsub' = "install" /\ gnote' = gnote
      BY <1>3, <2>4 DEF AddModelConfig
    <3>2. merged \in Config
      BY <2>2, CatalogTypes
    <3>3. AppendOnly /\ HasStore => Below(merged, registry[gnote.model])
      BY <1>3, <2>2, MergeBelow
         DEF AddModelConfig, GInv, GatewayBelow, RegistryBelow, DeltaBelow
    <3> HIDE DEF merged
    <3>4. \A m \in Models : greg'[m] = IF m = gnote.model THEN merged ELSE greg[m]
      BY <2>1, <3>1 DEF Catalog
    <3>5. greg' \in Catalog
      BY <2>1, <3>1, <3>2 DEF Catalog
    <3> QED BY <2>1, <3>1, <3>3, <3>4, <3>5 DEF GInv, GatewayBelow, RegistryBelow
  <2> QED BY <2>3, <2>4
<1>4. ASSUME InstallDeltaHashes PROVE gsub' = "idle" /\ greg' = greg
  BY <1>4 DEF InstallDeltaHashes
<1>5. GatewayTypes'
  BY <1>1, <1>2, <1>3, <1>4 DEF Listens, GInv, GatewayTypes
<1>6. GatewayBelow'
  BY <1>1, <1>2, <1>3, <1>4
     DEF Listens, GInv, GatewayBelow, RegistryBelow, DeltaBelow, FetchedBelow, AppendOnly
<1> QED BY <1>5, <1>6

\* An export is fetched between two writes, when it shows nothing unserved.
LEMMA FetchKeepsGInv ==
  ASSUME GInv, NEW t \in Tasks, NEW e, Fetched(t, e), UNCHANGED <<world, registry>>
  PROVE  GatewayTypes' /\ GatewayBelow'
<1>1. UNCHANGED <<greg, gsub, gnote>> /\ pc = "idle"
  BY DEF Fetched, registryVars, gsubVars, WriteLockFree
<1>2. gsnap' = [gsnap EXCEPT ![t] = [epoch |-> e, models |-> Exported,
                                     catalog |-> registry]]
  BY DEF Fetched
<1>3. task' = [task EXCEPT ![t] = "replace"]
  BY DEF Fetched
<1>4. /\ DOMAIN task' = Tasks /\ DOMAIN gsnap' = Tasks
      /\ gsnap'[t].models = Exported
      /\ \A u \in Tasks : u # t => task'[u] = task[u] /\ gsnap'[u] = gsnap[u]
  BY <1>2, <1>3 DEF GInv, GatewayTypes
<1>5. Exported \in Catalog
  BY ExportTypes DEF GInv, IInv, TypeInv, TypeOK
<1>6. GatewayTypes'
  BY <1>1, <1>4, <1>5 DEF GInv, GatewayTypes
<1>7. AppendOnly /\ HasStore => \A m \in Models : Below(Exported[m], registry[m])
  BY <1>1, ExportBelow DEF GInv
<1>8. GatewayBelow'
  BY <1>1, <1>4, <1>7
     DEF GInv, GatewayBelow, RegistryBelow, DeltaBelow, FetchedBelow, AppendOnly
<1> QED BY <1>6, <1>8

\* A fetched export is installed.
LEMMA ReplaceKeepsGInv ==
  ASSUME GInv, NEW t \in Tasks, ReplaceModelConfigs(t), UNCHANGED <<world, registry>>
  PROVE  GatewayTypes' /\ GatewayBelow'
<1>1. /\ task[t] = "replace" /\ greg' = gsnap[t].models
      /\ task' = [task EXCEPT ![t] = "install"]
      /\ UNCHANGED <<gsub, gnote, gsnap>>
  BY DEF ReplaceModelConfigs, At, gsubVars
<1>2. /\ DOMAIN task' = Tasks
      /\ \A u \in Tasks : task'[u] = "replace" => task[u] = "replace"
  BY <1>1 DEF GInv, GatewayTypes
<1>3. GatewayTypes'
  BY <1>1, <1>2 DEF GInv, GatewayTypes
<1>4. GatewayBelow'
  BY <1>1, <1>2
     DEF GInv, GatewayBelow, RegistryBelow, DeltaBelow, FetchedBelow, AppendOnly
<1> QED BY <1>3, <1>4

\* Every other step of the two tasks leaves the registry alone, and no task
\* comes to hold an export by it.
LEMMA QuietKeepsGInv ==
  ASSUME GInv, UNCHANGED <<world, registry, greg, gsub, gnote>>,
         DOMAIN task' = Tasks, DOMAIN gsnap' = Tasks,
         \A t \in Tasks : task'[t] = "replace" =>
                            task[t] = "replace" /\ gsnap'[t] = gsnap[t]
  PROVE  GatewayTypes' /\ GatewayBelow'
<1>1. GatewayTypes'
  BY DEF GInv, GatewayTypes
<1>2. GatewayBelow'
  BY DEF GInv, GatewayBelow, RegistryBelow, DeltaBelow, FetchedBelow, AppendOnly
<1> QED BY <1>1, <1>2

LEMMA BootstrapsKeepsGInv ==
  ASSUME GInv, NEW t \in Tasks, Bootstraps(t) \/ BootstrapFails(t),
         UNCHANGED <<world, registry>>
  PROVE  GatewayTypes' /\ GatewayBelow'
<1>0. DOMAIN task = Tasks /\ DOMAIN gsnap = Tasks
  BY DEF GInv, GatewayTypes
<1>1. CASE FetchSnapshot(t)
  BY <1>1, FetchKeepsGInv DEF FetchSnapshot
<1>2. CASE ReplaceModelConfigs(t)
  BY <1>2, ReplaceKeepsGInv
<1>3. ASSUME PollBefore(t) \/ InstallBundles(t) \/ InstallExportHashes(t)
      PROVE  GatewayTypes' /\ GatewayBelow'
  <2>1. UNCHANGED <<greg, gsub, gnote, gsnap>>
    BY <1>3 DEF PollBefore, InstallBundles, InstallExportHashes, registryVars, gsubVars
  <2>2. \E here \in {"bundles", "export", "record"} : task' = [task EXCEPT ![t] = here]
    BY <1>3 DEF PollBefore, InstallBundles, InstallExportHashes
  <2> QED BY <1>0, <2>1, <2>2, QuietKeepsGInv
<1>4. ASSUME RecordBootstrap(t) \/ BootstrapFails(t)
      PROVE  GatewayTypes' /\ GatewayBelow'
  <2>1. UNCHANGED <<greg, gsub, gnote>>
    BY <1>4 DEF RecordBootstrap, BootstrapFails, registryVars, gsubVars
  <2>2. \E here \in {"done", "force", "sleep", "pre"} : Leaves(t, here)
    BY <1>4 DEF RecordBootstrap, BootstrapFails
  <2>3. /\ DOMAIN task' = Tasks /\ DOMAIN gsnap' = Tasks
        /\ task'[t] # "replace"
        /\ \A u \in Tasks : u # t => task'[u] = task[u] /\ gsnap'[u] = gsnap[u]
    BY <1>0, <2>2 DEF Leaves
  <2> QED BY <2>1, <2>3, QuietKeepsGInv
<1> QED BY <1>1, <1>2, <1>3, <1>4 DEF Bootstraps

LEMMA PollsKeepsGInv ==
  ASSUME GInv, Polls \/ PollerEpochUnreadable \/ PollerFails,
         UNCHANGED <<world, registry>>
  PROVE  GatewayTypes' /\ GatewayBelow'
<1>1. PICK here \in {"epoch", "print", "compare", "pre", "sleep"} :
        /\ task' = [task EXCEPT !["poller"] = here]
        /\ UNCHANGED <<greg, gsub, gnote, gsnap>>
  BY DEF Polls, PollerTick, PollerEpoch, PollerPrint, PollerCompare, ForceEpoch,
         PollerEpochUnreadable, PollerFails, PollerMoves, registryVars, gsubVars
<1>2. DOMAIN task = Tasks /\ DOMAIN gsnap = Tasks
  BY DEF GInv, GatewayTypes
<1> QED BY <1>1, <1>2, QuietKeepsGInv

LEMMA RestartKeepsGInv ==
  ASSUME GInv, RestartGateway, UNCHANGED <<world, registry>>
  PROVE  GatewayTypes' /\ GatewayBelow'
<1>1. /\ greg' = Seed /\ gsub' = "idle"
      /\ DOMAIN task' = Tasks /\ DOMAIN gsnap' = Tasks
      /\ \A t \in Tasks : task'[t] # "replace"
  BY DEF RestartGateway
<1>2. GatewayTypes'
  BY <1>1, SeedBelow DEF GInv, GatewayTypes
<1>3. GatewayBelow'
  BY <1>1, SeedBelow
     DEF GInv, GatewayBelow, RegistryBelow, DeltaBelow, FetchedBelow, AppendOnly
<1> QED BY <1>2, <1>3

\* The invariant holds of the control plane with a worker and a gateway.
THEOREM ClusterInvariant == ClusterSpec => []GInv
<1>1. GInv /\ [ClusterNext]_allVars => GInv'
  <2> SUFFICES ASSUME GInv, [ClusterNext]_allVars PROVE GInv'
    OBVIOUS
  <2>1. CASE Next /\ UNCHANGED gatewayVars
    <3>1. TypeInv' /\ WriterInv'
      BY <2>1, StepTypes, StepWriterInv DEF GInv, IInv
    <3>2. AppendInv'
      BY <2>1, <3>1, WriterAppendInv, WorkerAppendInv DEF Next, GInv, TypeInv, TypeOK
    <3> QED BY <2>1, <3>1, <3>2, PlaneKeepsGInv DEF IInv
  <2>2. CASE Gateway
    <3>1. IInv' /\ UNCHANGED <<world, registry>>
      BY <2>2, GatewayKeepsIInv, GatewayKeepsPlane DEF GInv, planeVars
    <3>2. ASSUME NEW t \in Tasks, FetchSnapshotUnreadable(t)
          PROVE  GatewayTypes' /\ GatewayBelow'
      BY <3>1, <3>2, FetchKeepsGInv DEF FetchSnapshotUnreadable
    <3> QED BY <2>2, <3>1, <3>2, ListensKeepsGInv, BootstrapsKeepsGInv, PollsKeepsGInv,
               RestartKeepsGInv DEF Gateway, GatewayFault, GInv
  <2>3. CASE UNCHANGED allVars
    <3>1. UNCHANGED vars /\ UNCHANGED <<greg, gsub, gnote, task, gsnap>>
      BY <2>3 DEF allVars, gatewayVars, registryVars, gsubVars, taskVars
    <3>2. TypeInv' /\ WriterInv'
      BY <3>1, StepTypes, StepWriterInv DEF GInv, IInv
    <3>3. UNCHANGED <<world, store, registry, wire, wreg, spc, note, rpc, snap>>
      BY <3>1 DEF vars, writerVars, stateVars, subVars, reconVars
    <3>4. AppendInv'
      BY <3>3 DEF GInv, IInv, AppendInv, AppendOnly, Durable, WorkerBelow, WireBelow,
                  NoteBelow, SnapBelow
    <3>5. GatewayTypes' /\ GatewayBelow'
      BY <3>1, <3>3, QuietKeepsGInv DEF GInv, GatewayTypes
    <3> QED BY <3>2, <3>4, <3>5 DEF GInv, IInv
  <2> QED BY <2>1, <2>2, <2>3 DEF ClusterNext
<1> QED BY <1>1, InitGInv, PTL DEF ClusterSpec

\* With a gateway beside the worker, too, a restart of the control plane between
\* two writes changes nothing they can see ...
THEOREM ClusterRestartInvisible == ClusterSpec => []RestartIsInvisible
BY RestartRebuilds, ClusterInvariant, PTL DEF GInv, IInv

\* ... and an export carries the catalog its hashes cover.
THEOREM ClusterExportsRegistry == ClusterSpec => []ExportIsRegistry
BY ExportServesRegistry, ClusterInvariant, PTL DEF GInv, IInv

\* With append-only clients and a store, neither the worker nor the gateway
\* holds a profile the control plane does not have, in whatever order the
\* gateway's tasks write to its registry.
THEOREM NobodyGetsAhead == ClusterSpec => []NobodyAhead
<1>1. GInv => NobodyAhead
  BY DEF GInv, GatewayBelow, RegistryBelow, IInv, AppendInv, WorkerBelow, NobodyAhead,
         WorkerNeverAhead, GatewayNeverAhead, Below
<1> QED BY <1>1, ClusterInvariant, PTL
=============================================================================
