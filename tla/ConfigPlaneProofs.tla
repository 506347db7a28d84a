------------------------- MODULE ConfigPlaneProofs -------------------------
(***************************************************************************)
(* A restart between writes is invisible, exports carry the catalog they   *)
(* are hashed from, and a worker never runs a profile the control plane    *)
(* does not have, for any models, profiles, contents, workloads and faults. *)
(***************************************************************************)
EXTENDS ConfigPlane, TLAPS

USE CatalogAssumption, DeploymentAssumption, WorkloadAssumption

----------------------------------------------------------------------------
(* Types.                                                                  *)

\* The holder of the write lock has a request of this workload ...
JobHeld == pc # "idle" => job \in Job /\ job.op \in world.ops

\* ... and the subscriber and the reconciler have what they are to apply.
Holding ==
  /\ JobHeld
  /\ spc = "apply" => note \in Delta
  /\ rpc = "apply" => snap \in Snapshot

TypeInv == TypeOK /\ Holding

LEMMA CatalogTypes ==
  /\ Empty \in Config
  /\ \A c, d \in Config : Merge(c, d) \in Config /\ Update(c, d) \in Config
BY DEF Empty, Config, Merge, Update

LEMMA ScopeTypes == \A c \in Catalog : Scope(c) \in Scoped
BY WorkerAssumption DEF Catalog, Scope, Scoped

LEMMA HashTypes == \A r \in Scoped : Hash(r) \in Scoped \cup {NoHash}
BY DEF Hash

LEMMA ExportTypes == WriterTypeOK => Exported \in Catalog
BY CatalogTypes DEF WriterTypeOK, Exported, Catalog

LEMMA RestoredTypes == WriterTypeOK => Restored(store) \in Catalog
BY CatalogTypes DEF WriterTypeOK, Restored, Catalog

LEMMA InitTypes == Init => TypeInv
<1> SUFFICES ASSUME Init PROVE TypeInv
  OBVIOUS
<1>1. WriterTypeOK
  BY CatalogTypes DEF Init, WriterInit, WriterTypeOK, Catalog
<1>2. WorkerBaked \in Scoped
  BY ScopeTypes DEF WorkerBaked, Init, WriterInit
<1>3. TypeOK
  BY <1>1, <1>2, HashTypes DEF Init, WorkerInit, TypeOK
<1>4. Holding
  BY DEF Init, WriterInit, WorkerInit, Holding, JobHeld
<1> QED BY <1>3, <1>4 DEF TypeInv

LEMMA WriterTypes == ASSUME TypeInv, WriterNext PROVE WriterTypeOK' /\ JobHeld'
<1> USE DEF TypeInv, TypeOK, WriterTypeOK, Holding, JobHeld
<1>1. CASE LockAndValidate
  BY <1>1 DEF LockAndValidate, Job, AllOps
<1>2. CASE Persist
  BY <1>2, CatalogTypes DEF Persist, Persisted, Catalog, Job
<1>3. CASE PersistFails
  BY <1>3 DEF PersistFails, Fault
<1>4. CASE CancelDelete
  BY <1>4 DEF CancelDelete, Fault, Job
<1>5. CASE Mutate
  <2>1. registry' \in Catalog
    BY <1>5, CatalogTypes DEF Mutate, Catalog, Job, AllOps
  <2> QED BY <1>5, <2>1 DEF Mutate
<1>6. CASE IncrementEpoch
  BY <1>6 DEF IncrementEpoch, NextEpoch
<1>7. CASE IncrementAfterReadError
  BY <1>7 DEF IncrementAfterReadError, NextEpoch, Fault
<1>8. CASE IncrementFails
  BY <1>8 DEF IncrementFails, Fault
<1>9. CASE Publish
  <2> DEFINE d == [epoch |-> epoch, model |-> job.model,
                   config |-> DeltaConfig, catalog |-> registry]
  <2>1. d \in Delta
    BY <1>9 DEF Publish, Delta, DeltaConfig, Job, Catalog
  <2>2. wire' \in Seq(Delta)
    BY <1>9, <2>1 DEF Publish
  <2> QED BY <1>9, <2>2 DEF Publish
<1>10. CASE PublishFails
  BY <1>10 DEF PublishFails, Fault
<1>11. CASE Crash
  BY <1>11, RestoredTypes DEF Crash, Fault
<1> QED BY <1>1, <1>2, <1>3, <1>4, <1>5, <1>6, <1>7, <1>8, <1>9, <1>10, <1>11
        DEF WriterNext, WriterStep, WriterFault

LEMMA WorkerTypes ==
  ASSUME TypeInv, Subscriber \/ Reconciler \/ WorkerFault PROVE TypeInv'
<1> USE DEF TypeInv, TypeOK, WriterTypeOK, Holding, JobHeld, writerVars, stateVars,
            subVars, pollVars, reconVars
<1>1. CASE ReceiveDelta
  <2>1. wire # <<>> => Head(wire) \in Delta /\ Tail(wire) \in Seq(Delta)
    OBVIOUS
  <2> QED BY <1>1, <2>1 DEF ReceiveDelta
<1>2. CASE ApplyDelta
  <2>1. /\ [wreg EXCEPT ![note.model] = note.config] \in Scoped
        /\ note.epoch \in Nat
    BY <1>2 DEF ApplyDelta, Delta, Scoped
  <2>2. wreg' \in Scoped /\ quarantined' \in BOOLEAN
    BY <1>2, <2>1 DEF ApplyDelta
  <2>3. wepoch' \in Nat /\ whash' \in Scoped \cup {NoHash}
    BY <1>2, <2>1, HashTypes DEF ApplyDelta, MarkApplied
  <2> QED BY <1>2, <2>2, <2>3 DEF ApplyDelta
<1>3. CASE BootPoll
  BY <1>3 DEF BootPoll
<1>4. CASE Tick
  BY <1>4 DEF Tick
<1>5. CASE PollEpoch
  BY <1>5 DEF PollEpoch
<1>6. CASE PollPrint
  BY <1>6 DEF PollPrint
<1>7. CASE Compare
  <2>1. PICK due \in Due :
          IF DriftReason(due) = "none"
            THEN rpc' = "tick" /\ UNCHANGED <<reason, force>>
            ELSE /\ rpc' = "fetch"
                 /\ reason' = DriftReason(due)
                 /\ force' = (remote < local)
    BY <1>7 DEF Compare
  <2>2. DriftReason(due) \in {"epoch_ahead", "epoch_rewind", "fingerprint",
                             "periodic_export", "none"}
    BY DEF DriftReason
  <2>3. rpc' \in {"tick", "fetch"}
    BY <2>1
  <2>4. force' \in BOOLEAN
    <3>1. force' = force \/ force' = (remote < local)
      BY <2>1, Zenon
    <3>2. (remote < local) \in BOOLEAN
      BY SMT
    <3> QED BY <3>1, <3>2, Zenon
  <2>5. reason' \in {"startup", "epoch_ahead", "epoch_rewind", "fingerprint",
                     "periodic_export"}
    BY <2>1, <2>2
  <2> QED BY <1>7, <2>3, <2>4, <2>5 DEF Compare
<1>8. CASE FetchExport
  BY <1>8, ScopeTypes, ExportTypes DEF FetchExport, Snapshot
<1>9. CASE ApplyExport
  <2>1. snap.epoch \in Nat /\ snap.models \in Scoped /\ snap.catalog \in Scoped
    BY <1>9 DEF ApplyExport, Snapshot
  <2>2. wreg' \in Scoped /\ quarantined' \in BOOLEAN
    BY <1>9, <2>1 DEF ApplyExport
  <2>3. wepoch' \in Nat /\ whash' \in Scoped \cup {NoHash}
    BY <1>9, <2>1, HashTypes DEF ApplyExport, MarkReconciled, NotRecorded
  <2>4. synced' \in BOOLEAN /\ lastPrint' \in Catalog \cup {NoHash}
    BY <1>9 DEF ApplyExport, Reconciled, NotRecorded
  <2> QED BY <1>9, <2>2, <2>3, <2>4 DEF ApplyExport
<1>10. CASE LoseDelta
  <2>1. wire # <<>> => Tail(wire) \in Seq(Delta)
    OBVIOUS
  <2> QED BY <1>10, <2>1 DEF LoseDelta
<1>11. CASE ApplyDeltaFails
  <2>1. [wreg EXCEPT ![note.model] = note.config] \in Scoped
    BY <1>11 DEF ApplyDeltaFails, Delta, Scoped
  <2> QED BY <1>11, <2>1 DEF ApplyDeltaFails, Fault
<1>12. CASE BootPollFails
  BY <1>12 DEF BootPollFails, Fault
<1>13. CASE PollEpochUnreadable
  BY <1>13 DEF PollEpochUnreadable, Fault
<1>14. CASE PollFails
  BY <1>14 DEF PollFails, Fault
<1>15. CASE FetchExportUnreadable
  BY <1>15, ScopeTypes, ExportTypes DEF FetchExportUnreadable, Snapshot, Fault
<1>16. CASE FetchFails
  BY <1>16 DEF FetchFails, Fault
<1>17. CASE ApplyExportFails
  BY <1>17 DEF ApplyExportFails, Snapshot, NotRecorded, Fault
<1>18. CASE RestartBackend
  BY <1>18, ScopeTypes DEF RestartBackend, WorkerBaked, Fault
<1> QED BY <1>1, <1>2, <1>3, <1>4, <1>5, <1>6, <1>7, <1>8, <1>9, <1>10, <1>11,
           <1>12, <1>13, <1>14, <1>15, <1>16, <1>17, <1>18
        DEF Subscriber, Reconciler, WorkerFault

LEMMA StepTypes == ASSUME TypeInv, [Next]_vars PROVE TypeInv'
<1>1. CASE Writer
  <2>1. WriterTypeOK' /\ JobHeld'
    BY <1>1, WriterTypes DEF Writer
  <2> QED BY <1>1, <2>1
          DEF Writer, TypeInv, TypeOK, Holding, stateVars, subVars, pollVars, reconVars
<1>2. CASE UNCHANGED vars
  BY <1>2 DEF vars, TypeInv, TypeOK, WriterTypeOK, Holding, JobHeld, writerVars,
              stateVars, subVars, pollVars, reconVars
<1> QED BY <1>1, <1>2, WorkerTypes DEF Next

\* Every variable keeps its type, and whoever is in the middle of an operation
\* holds what that operation works on.
THEOREM TypeCorrect == Spec => []TypeInv
BY InitTypes, StepTypes, PTL DEF Spec

----------------------------------------------------------------------------
(* Configs.                                                                *)

LEMMA MergeEmpty ==
  ASSUME NEW c \in Config
  PROVE  /\ Merge(Empty, c) = c /\ Merge(c, Empty) = c
         /\ ~Conflicts(Empty, c) /\ ~Conflicts(c, Empty)
BY DEF Merge, Empty, Config, Conflicts

\* An accepted append commutes with a restart: appending to what a process
\* serves is what the next process rebuilds from the appended document.
LEMMA AppendCommutes ==
  ASSUME NEW base \in Config, NEW stored \in Config, NEW body \in Config,
         ~Conflicts(base, stored), ~Conflicts(Merge(base, stored), body)
  PROVE  /\ ~Conflicts(base, Update(stored, body))
         /\ Merge(Merge(base, stored), body) = Merge(base, Update(stored, body))
<1>1. ASSUME NEW p \in Profiles
      PROVE  /\ base[p] # None /\ stored[p] # None => base[p] = stored[p]
             /\ Merge(base, stored)[p] # None /\ body[p] # None =>
                  Merge(base, stored)[p] = body[p]
  BY DEF Conflicts
<1> QED BY <1>1 DEF Conflicts, Merge, Update, Config

LEMMA AppendStores ==
  ASSUME NEW base \in Config, NEW stored \in Config, NEW body \in Config,
         Creates(base, body)
  PROVE  Update(stored, body) # Empty
BY DEF Creates, Update, Empty, Config

----------------------------------------------------------------------------
(* The write path.                                                         *)

\* The models RestartIsInvisible is about.
Covered(m) == world.baked[m] = Empty \/ world.ops = {"add"}

\* The store is ahead of the registry for the model being mutated.
Pending(m) == pc = "mutate" /\ job.model = m

\* Only a DELETE tears store and registry apart.
AppendsKeepWhole == world.ops = {"add"} => torn = {}

\* No stored config is dropped by a restart.
Compatible == \A m \in Models : Covered(m) => ~Conflicts(world.baked[m], store[m])

\* Where no write is half-way, the registry is what a restart rebuilds ...
Rebuilt == \A m \in Models \ torn : Covered(m) /\ ~Pending(m) =>
             registry[m] = Merge(world.baked[m], store[m])

\* ... and a model without a document is the image's.
Bare == \A m \in Models \ torn : store[m] = Empty /\ ~Pending(m) =>
          registry[m] = world.baked[m]

\* What validation established still holds when the document is written.
Validated ==
  pc = "persist" =>
    LET current == registry[job.model] IN
    /\ job.op = "add" => ~Conflicts(current, job.body) /\ Creates(current, job.body)
    /\ job.op = "replace" => job.body # Empty
    /\ job.op = "delete" => job.body = Empty

\* Between the document and the registry, the document says what the registry
\* is about to become.
Ahead ==
  pc = "mutate" =>
    LET m == job.model IN
    /\ job.op = "add" =>
         /\ store[m] # Empty
         /\ m \notin torn /\ Covered(m) =>
              Merge(registry[m], job.body) = Merge(world.baked[m], store[m])
    /\ job.op = "replace" => store[m] = job.body /\ job.body # Empty
    /\ job.op = "delete" => store[m] = Empty

WriterInv == HasStore => /\ AppendsKeepWhole /\ Compatible /\ Rebuilt /\ Bare
                         /\ Validated /\ Ahead

LEMMA InitWriterInv == ASSUME Init, TypeInv PROVE WriterInv
<1> USE DEF Init, WriterInit, TypeInv, TypeOK, WriterTypeOK, Catalog
<1>1. AppendsKeepWhole /\ Validated /\ Ahead
  BY DEF AppendsKeepWhole, Validated, Ahead
<1>2. Compatible /\ Rebuilt /\ Bare
  BY MergeEmpty DEF Compatible, Rebuilt, Bare
<1> QED BY <1>1, <1>2 DEF WriterInv

\* The steps after the registry's, and the requests that end without it, leave
\* everything WriterInv is about alone.
LEMMA SettledWriterInv ==
  ASSUME WriterInv, UNCHANGED <<world, store, registry, torn>>, pc # "mutate",
         pc' \notin {"persist", "mutate"}
  PROVE  WriterInv'
BY DEF WriterInv, AppendsKeepWhole, Compatible, Rebuilt, Bare, Validated, Ahead,
       Covered, Pending

LEMMA LockWriterInv ==
  ASSUME TypeInv, WriterInv, LockAndValidate PROVE WriterInv'
<1>1. Validated'
  BY DEF LockAndValidate, Accepted, Validated, TypeInv, TypeOK, WriterTypeOK, AllOps
<1> QED BY <1>1 DEF LockAndValidate, WriterInv, AppendsKeepWhole, Compatible, Rebuilt,
                    Bare, Ahead, Covered, Pending

LEMMA PersistWriterInv == ASSUME TypeInv, WriterInv, Persist PROVE WriterInv'
<1> SUFFICES ASSUME HasStore
             PROVE  /\ AppendsKeepWhole' /\ Compatible' /\ Rebuilt' /\ Bare'
                    /\ Validated' /\ Ahead'
  BY DEF WriterInv
<1> DEFINE m == job.model
<1>1. /\ AppendsKeepWhole /\ Compatible /\ Rebuilt /\ Bare /\ Validated
      /\ job \in Job /\ job.op \in world.ops
      /\ m \in Models /\ job.body \in Config
      /\ world.baked[m] \in Config /\ store[m] \in Config
      /\ registry[m] \in Config
  BY DEF WriterInv, Persist, TypeInv, TypeOK, WriterTypeOK, Holding, JobHeld, Job,
         Catalog
<1>2. /\ UNCHANGED <<world, registry, job, torn>>
      /\ pc = "persist" /\ pc' = "mutate"
      /\ store'[m] = Persisted(store[m], job)
      /\ \A n \in Models \ {m} : store'[n] = store[n]
  BY <1>1 DEF Persist, TypeInv, TypeOK, WriterTypeOK, Catalog
<1>3. ASSUME Covered(m), job.op = "add", m \notin torn
      PROVE  /\ ~Conflicts(world.baked[m], store'[m])
             /\ Merge(registry[m], job.body) = Merge(world.baked[m], store'[m])
  <2>1. registry[m] = Merge(world.baked[m], store[m]) /\ ~Pending(m)
    BY <1>1, <1>2, <1>3 DEF Rebuilt, Pending
  <2>2. /\ ~Conflicts(world.baked[m], store[m])
        /\ ~Conflicts(Merge(world.baked[m], store[m]), job.body)
    BY <1>1, <1>2, <1>3, <2>1 DEF Compatible, Validated
  <2> QED BY <1>1, <1>2, <1>3, <2>1, <2>2, AppendCommutes DEF Persisted
<1>4. AppendsKeepWhole' /\ Validated'
  BY <1>1, <1>2 DEF AppendsKeepWhole, Validated
<1>5. Rebuilt' /\ Bare'
  BY <1>1, <1>2 DEF Rebuilt, Bare, Covered, Pending
<1>6. Compatible'
  <2> SUFFICES ASSUME NEW n \in Models, Covered(n)
               PROVE  ~Conflicts(world.baked[n], store'[n])
    BY <1>2 DEF Compatible, Covered
  <2>1. CASE n # m
    BY <1>1, <1>2, <2>1 DEF Compatible
  <2>2. CASE n = m /\ world.baked[m] = Empty
    BY <2>2 DEF Conflicts, Empty
  <2>3. CASE n = m /\ world.ops = {"add"}
    BY <1>1, <1>3, <2>3 DEF AppendsKeepWhole
  <2> QED BY <2>1, <2>2, <2>3 DEF Covered
<1>7. Ahead'
  <2>1. job.op = "add" => store'[m] # Empty
    BY <1>1, <1>2, AppendStores DEF Validated, Persisted
  <2>2. job.op = "add" /\ m \notin torn /\ Covered(m) =>
          Merge(registry[m], job.body) = Merge(world.baked[m], store'[m])
    BY <1>3
  <2>3. /\ job.op = "replace" => store'[m] = job.body /\ job.body # Empty
        /\ job.op = "delete" => store'[m] = Empty
    BY <1>1, <1>2 DEF Validated, Persisted
  <2> QED BY <1>2, <2>1, <2>2, <2>3 DEF Ahead, Covered
<1> QED BY <1>4, <1>5, <1>6, <1>7

LEMMA MutateWriterInv == ASSUME TypeInv, WriterInv, Mutate PROVE WriterInv'
<1> SUFFICES ASSUME HasStore
             PROVE  /\ AppendsKeepWhole' /\ Compatible' /\ Rebuilt' /\ Bare'
                    /\ Validated' /\ Ahead'
  BY DEF WriterInv
<1> DEFINE m == job.model
<1>1. /\ AppendsKeepWhole /\ Compatible /\ Rebuilt /\ Bare /\ Ahead
      /\ job \in Job /\ job.op \in world.ops /\ job.op \in AllOps
      /\ m \in Models /\ job.body \in Config
      /\ world.baked[m] \in Config /\ store[m] \in Config
      /\ registry[m] \in Config
  BY DEF WriterInv, Mutate, TypeInv, TypeOK, WriterTypeOK, Holding, JobHeld, Job,
         Catalog
<1>2. /\ UNCHANGED <<world, store, job>>
      /\ pc = "mutate" /\ pc' = "bump"
      /\ \A n \in Models \ {m} : registry'[n] = registry[n]
      /\ torn' = IF job.op = "add" THEN torn ELSE torn \ {m}
  BY <1>1 DEF Mutate, TypeInv, TypeOK, WriterTypeOK, Catalog
<1>3. /\ job.op = "add" => registry'[m] = Merge(registry[m], job.body)
      /\ job.op = "replace" => registry'[m] = job.body
      /\ job.op = "delete" => registry'[m] = world.baked[m]
  BY <1>1 DEF Mutate, TypeInv, TypeOK, WriterTypeOK, Catalog
<1>4. AppendsKeepWhole' /\ Compatible' /\ Validated' /\ Ahead'
  BY <1>1, <1>2 DEF AppendsKeepWhole, Compatible, Covered, Validated, Ahead
<1>5. Bare'
  BY <1>1, <1>2, <1>3 DEF Bare, Pending, Ahead, AllOps
<1>6. Rebuilt'
  <2> SUFFICES ASSUME NEW n \in Models \ torn', Covered(n)
               PROVE  registry'[n] = Merge(world.baked[n], store[n])
    BY <1>2 DEF Rebuilt, Covered
  <2>1. CASE n # m
    BY <1>1, <1>2, <2>1 DEF Rebuilt, Pending
  <2>2. CASE n = m /\ job.op = "add"
    BY <1>1, <1>2, <1>3, <2>2 DEF Ahead
  <2>3. CASE n = m /\ job.op # "add"
    <3>1. world.baked[m] = Empty
      BY <1>1, <2>3 DEF Covered
    <3> QED BY <1>1, <1>2, <1>3, <2>3, <3>1, MergeEmpty DEF Ahead, AllOps
  <2> QED BY <2>1, <2>2, <2>3
<1> QED BY <1>4, <1>5, <1>6

LEMMA CancelWriterInv == ASSUME TypeInv, WriterInv, CancelDelete PROVE WriterInv'
<1> SUFFICES ASSUME HasStore
             PROVE  /\ AppendsKeepWhole' /\ Compatible' /\ Rebuilt' /\ Bare'
                    /\ Validated' /\ Ahead'
  BY DEF WriterInv
<1>1. world.ops # {"add"}
  BY DEF CancelDelete, TypeInv, Holding, JobHeld
<1>2. AppendsKeepWhole' /\ Compatible' /\ Validated' /\ Ahead'
  BY <1>1 DEF CancelDelete, WriterInv, AppendsKeepWhole, Compatible, Covered,
              Validated, Ahead
<1>3. Rebuilt' /\ Bare'
  BY DEF CancelDelete, WriterInv, Rebuilt, Bare, Covered, Pending
<1> QED BY <1>2, <1>3

LEMMA CrashWriterInv == ASSUME TypeInv, WriterInv, Crash PROVE WriterInv'
<1> SUFFICES ASSUME HasStore
             PROVE  /\ AppendsKeepWhole' /\ Compatible' /\ Rebuilt' /\ Bare'
                    /\ Validated' /\ Ahead'
  BY DEF WriterInv
<1>1. /\ UNCHANGED <<world, store>> /\ torn' = {} /\ pc' = "idle"
      /\ registry' = Restored(store)
  BY DEF Crash
<1>2. AppendsKeepWhole' /\ Compatible' /\ Validated' /\ Ahead'
  BY <1>1 DEF WriterInv, AppendsKeepWhole, Compatible, Covered, Validated, Ahead
<1>3. Rebuilt'
  BY <1>1 DEF WriterInv, Compatible, Rebuilt, Covered, Pending, Restored
<1>4. Bare'
  BY <1>1, MergeEmpty DEF Bare, Restored, TypeInv, TypeOK, WriterTypeOK, Catalog
<1> QED BY <1>2, <1>3, <1>4

LEMMA WriterStepInv == ASSUME TypeInv, WriterInv, WriterNext PROVE WriterInv'
<1>1. ASSUME PersistFails \/ IncrementEpoch \/ IncrementAfterReadError \/ IncrementFails
             \/ Publish \/ PublishFails
      PROVE  WriterInv'
  <2>1. /\ UNCHANGED <<world, store, registry, torn>> /\ pc # "mutate"
        /\ pc' \notin {"persist", "mutate"}
    BY <1>1 DEF PersistFails, IncrementEpoch, IncrementAfterReadError,
                IncrementFails, Publish, PublishFails
  <2> QED BY <2>1, SettledWriterInv
<1> QED BY <1>1, LockWriterInv, PersistWriterInv, MutateWriterInv, CancelWriterInv,
           CrashWriterInv
        DEF WriterNext, WriterStep, WriterFault

\* The worker reads the control plane and changes nothing in it but the wire.
LEMMA WorkerKeepsWriter ==
  ASSUME Subscriber \/ Reconciler \/ WorkerFault
  PROVE  UNCHANGED <<world, store, registry, epoch, pc, job, torn>>
BY DEF Subscriber, Reconciler, WorkerFault, writerVars, LoseDelta, ReceiveDelta,
       ApplyDelta, ApplyDeltaFails, BootPoll, BootPollFails, Tick, PollEpoch,
       PollEpochUnreadable, PollPrint, PollFails, Compare, FetchExport,
       FetchExportUnreadable, FetchFails, ApplyExport, ApplyExportFails,
       RestartBackend

LEMMA StepWriterInv == ASSUME TypeInv, WriterInv, [Next]_vars PROVE WriterInv'
<1>1. CASE Writer
  BY <1>1, WriterStepInv DEF Writer
<1>2. ASSUME UNCHANGED <<world, store, registry, pc, job, torn>> PROVE WriterInv'
  BY <1>2 DEF WriterInv, AppendsKeepWhole, Compatible, Rebuilt, Bare, Validated,
              Ahead, Covered, Pending
<1>3. CASE UNCHANGED vars
  BY <1>2, <1>3 DEF vars, writerVars
<1> QED BY <1>1, <1>2, <1>3, WorkerKeepsWriter DEF Next

\* The invariant of the write path holds of the control plane with a worker.
THEOREM WriterInvariant == Spec => [](TypeInv /\ WriterInv)
<1>1. Init => TypeInv /\ WriterInv
  BY InitTypes, InitWriterInv
<1>2. TypeInv /\ WriterInv /\ [Next]_vars => (TypeInv /\ WriterInv)'
  BY StepTypes, StepWriterInv
<1> QED BY <1>1, <1>2, PTL DEF Spec

LEMMA RestartRebuilds == TypeInv /\ WriterInv => RestartIsInvisible
BY DEF WriterInv, RestartIsInvisible, Compatible, Rebuilt, Covered, Pending, Restored

\* A restart between two writes changes nothing a client or a worker can see,
\* whatever was written, lost or cancelled before it.
THEOREM RestartInvisible == Spec => []RestartIsInvisible
BY RestartRebuilds, WriterInvariant, PTL

LEMMA ExportServesRegistry == TypeInv /\ WriterInv => ExportIsRegistry
<1>1. ASSUME TypeInv, WriterInv, pc = "idle", NEW m \in Whole
      PROVE  Exported[m] = registry[m]
  <2>1. m \in Models /\ m \notin torn /\ ~Pending(m)
    BY <1>1 DEF Whole, Pending
  <2>2. CASE HasStore /\ store[m] # Empty
    <3>1. world.baked[m] = Empty /\ store[m] \in Config
      BY <1>1, <2>1, <2>2 DEF Whole, TypeInv, TypeOK, WriterTypeOK, Catalog
    <3>2. registry[m] = store[m]
      BY <1>1, <2>1, <2>2, <3>1, MergeEmpty DEF WriterInv, Rebuilt, Covered
    <3> QED BY <2>1, <2>2, <3>2 DEF Exported
  <2>3. CASE HasStore /\ store[m] = Empty
    <3>1. registry[m] = world.baked[m]
      BY <1>1, <2>1, <2>3 DEF WriterInv, Bare
    <3> QED BY <2>1, <2>3, <3>1 DEF Exported
  <2>4. CASE ~HasStore
    BY <2>1, <2>4 DEF Exported
  <2> QED BY <2>2, <2>3, <2>4
<1> QED BY <1>1 DEF ExportIsRegistry

\* Between two writes an export carries the catalog its hashes cover.
THEOREM ExportsRegistry == Spec => []ExportIsRegistry
BY ExportServesRegistry, WriterInvariant, PTL

----------------------------------------------------------------------------
(* Appends.                                                                *)

\* Every profile of c is in d.
Below(c, d) == \A p \in Profiles : c[p] # None => c[p] = d[p]

LEMMA BelowTransitive ==
  ASSUME NEW c, NEW d, NEW e, Below(c, d), Below(d, e) PROVE Below(c, e)
BY DEF Below

LEMMA MergeAbove ==
  ASSUME NEW base \in Config, NEW body \in Config
  PROVE  /\ Below(base, Merge(base, body))
         /\ ~Conflicts(base, body) => Below(body, Merge(base, body))
BY DEF Below, Merge, Conflicts, Config

\* The image's profiles are served, and what is served survives a restart.
Durable == \A m \in Models : /\ Below(world.baked[m], registry[m])
                             /\ Below(registry[m], Merge(world.baked[m], store[m]))

\* What the worker has, and what is on its way to it, is in the registry.
WorkerBelow == \A m \in Ours : Below(wreg[m], registry[m])
WireBelow == \A i \in 1..Len(wire) : Below(wire[i].config, registry[wire[i].model])
NoteBelow == spc = "apply" => Below(note.config, registry[note.model])
SnapBelow == rpc = "apply" => \A m \in Ours : Below(snap.models[m], registry[m])

AppendInv == AppendOnly /\ HasStore =>
  Durable /\ WorkerBelow /\ WireBelow /\ NoteBelow /\ SnapBelow

IInv == TypeInv /\ WriterInv /\ AppendInv

LEMMA InitAppendInv == ASSUME Init, TypeInv PROVE AppendInv
<1> USE DEF Init, WriterInit, WorkerInit
<1>1. Durable
  <2>1. \A m \in Models : world.baked[m] \in Config
    BY DEF TypeInv, TypeOK, WriterTypeOK, Catalog
  <2> QED BY <2>1, MergeEmpty DEF Durable, Below
<1>2. WorkerBelow
  BY DEF WorkerBelow, WorkerBaked, Scope, Below
<1>3. WireBelow /\ NoteBelow /\ SnapBelow
  BY DEF WireBelow, NoteBelow, SnapBelow
<1> QED BY <1>1, <1>2, <1>3 DEF AppendInv

\* A settled model without half-way write stores nothing it does not serve.
LEMMA StoreBelow ==
  ASSUME IInv, AppendOnly, HasStore, NEW m \in Models, pc # "mutate"
  PROVE  Below(store[m], registry[m])
<1>1. /\ registry[m] = Merge(world.baked[m], store[m])
      /\ ~Conflicts(world.baked[m], store[m])
  BY DEF IInv, WriterInv, AppendOnly, AppendsKeepWhole, Compatible, Rebuilt, Covered,
         Pending
<1>2. world.baked[m] \in Config /\ store[m] \in Config
  BY DEF IInv, TypeInv, TypeOK, WriterTypeOK, Catalog
<1> QED BY <1>1, <1>2, MergeAbove

\* The registry only grows, across crashes too.
LEMMA RegistryGrows ==
  ASSUME IInv, AppendOnly, HasStore, WriterNext
  PROVE  /\ \A m \in Models : Below(registry[m], registry'[m])
         /\ Durable'
<1>0. /\ \A m \in Models : /\ world.baked[m] \in Config /\ store[m] \in Config
                          /\ registry[m] \in Config
      /\ Durable
  BY DEF IInv, AppendInv, TypeInv, TypeOK, WriterTypeOK, Catalog
<1>1. CASE Persist
  <2>1. UNCHANGED <<world, registry>> /\ pc' = "mutate" /\ job' = job
    BY <1>1 DEF Persist
  <2>2. job \in Job /\ job.op = "add" /\ job.model \in Models /\ job.body \in Config
    BY <1>1 DEF Persist, IInv, TypeInv, Holding, JobHeld, AppendOnly, Job
  <2>3. WriterInv' /\ torn' = {} /\ store' \in Catalog
    BY <1>1, WriterStepInv, WriterTypes
       DEF IInv, WriterNext, WriterStep, WriterInv, AppendsKeepWhole, AppendOnly,
           WriterTypeOK, Persist
  <2>4. ASSUME NEW m \in Models
        PROVE  Below(registry[m], Merge(world.baked[m], store'[m]))
    <3>1. CASE m = job.model
      <4>1. Merge(registry[m], job.body) = Merge(world.baked[m], store'[m])
        BY <2>1, <2>2, <2>3, <3>1 DEF WriterInv, Ahead, Covered, AppendOnly
      <4> QED BY <1>0, <2>2, <4>1, MergeAbove
    <3>2. CASE m # job.model
      <4>1. registry[m] = Merge(world.baked[m], store'[m])
        BY <2>1, <2>2, <2>3, <3>2
           DEF WriterInv, Rebuilt, Covered, Pending, AppendOnly
      <4> QED BY <4>1 DEF Below
    <3> QED BY <3>1, <3>2
  <2> QED BY <1>0, <2>1, <2>4 DEF Durable, Below
<1>2. CASE Mutate
  <2>1. UNCHANGED <<world, store>> /\ pc = "mutate" /\ pc' = "bump"
    BY <1>2 DEF Mutate
  <2>2. job \in Job /\ job.op = "add" /\ job.model \in Models /\ job.body \in Config
    BY <1>2 DEF Mutate, IInv, TypeInv, Holding, JobHeld, AppendOnly, Job
  <2>3. ASSUME NEW m \in Models
        PROVE  registry'[m] = IF m = job.model THEN Merge(registry[m], job.body)
                                               ELSE registry[m]
    BY <1>2, <2>2 DEF Mutate, IInv, TypeInv, TypeOK, WriterTypeOK, Catalog
  <2>4. \A m \in Models : Below(registry[m], registry'[m])
    BY <1>0, <2>2, <2>3, MergeAbove DEF Below
  <2>5. WriterInv' /\ torn' = {}
    BY <1>2, WriterStepInv
       DEF IInv, WriterNext, WriterStep, WriterInv, AppendsKeepWhole, AppendOnly, Mutate
  <2>6. \A m \in Models : registry'[m] = Merge(world.baked[m], store[m])
    BY <2>1, <2>5 DEF WriterInv, Rebuilt, Covered, Pending, AppendOnly
  <2> QED BY <1>0, <2>1, <2>4, <2>6, BelowTransitive DEF Durable, Below
<1>3. CASE Crash
  <2>1. UNCHANGED <<world, store>>
    BY <1>3 DEF Crash
  <2>2. \A m \in Models : registry'[m] = Merge(world.baked[m], store[m])
    BY <1>3 DEF Crash, Restored, IInv, WriterInv, Compatible, Covered, AppendOnly
  <2> QED BY <1>0, <2>1, <2>2, MergeAbove DEF Durable, Below
<1>4. CASE UNCHANGED <<world, store, registry>>
  BY <1>0, <1>4 DEF Durable, Below
<1>5. Persist \/ Mutate \/ Crash \/ UNCHANGED <<world, store, registry>>
  BY DEF WriterNext, WriterStep, WriterFault, LockAndValidate, IncrementEpoch, Publish,
         PersistFails, CancelDelete, IncrementAfterReadError, IncrementFails, PublishFails
<1> QED BY <1>1, <1>2, <1>3, <1>4, <1>5

LEMMA WriterAppendInv == ASSUME IInv, Writer, WriterTypeOK' PROVE AppendInv'
<1> SUFFICES ASSUME AppendOnly, HasStore PROVE AppendInv'
  <2>1. world' = world
    BY DEF Writer, WriterNext, WriterStep, WriterFault, LockAndValidate, Persist,
           Mutate, IncrementEpoch, Publish, PersistFails, CancelDelete,
           IncrementAfterReadError, IncrementFails, PublishFails, Crash
  <2> QED BY <2>1 DEF AppendInv, AppendOnly
<1>1. Durable' /\ \A m \in Models : Below(registry[m], registry'[m])
  BY RegistryGrows DEF Writer
<1>2. WorkerBelow /\ WireBelow /\ NoteBelow /\ SnapBelow
  BY DEF IInv, AppendInv
<1>3. UNCHANGED <<wreg, spc, note, rpc, snap>>
  BY DEF Writer, stateVars, subVars, reconVars
<1>4. WorkerBelow' /\ SnapBelow'
  BY <1>1, <1>2, <1>3, WorkerAssumption DEF WorkerBelow, SnapBelow, Below
<1>5. NoteBelow'
  <2>1. spc = "apply" => note.model \in Models
    BY DEF IInv, TypeInv, Holding, Delta
  <2> QED BY <1>1, <1>2, <1>3, <2>1 DEF NoteBelow, Below
<1>6. WireBelow'
  <2>1. \A i \in 1..Len(wire) : wire[i].model \in Models
    <3>1. wire \in Seq(Delta)
      BY DEF IInv, TypeInv, TypeOK, WriterTypeOK
    <3>2. \A i \in 1..Len(wire) : wire[i] \in Delta
      BY <3>1
    <3> QED BY <3>2 DEF Delta
  <2>2. \A i \in 1..Len(wire) : Below(wire[i].config, registry'[wire[i].model])
    BY <1>1, <1>2, <2>1 DEF WireBelow, Below
  <2>3. CASE Publish
    <3> DEFINE d == [epoch |-> epoch, model |-> job.model,
                     config |-> DeltaConfig, catalog |-> registry]
    <3>1. wire' = Append(wire, d) /\ registry' = registry /\ pc = "publish"
      BY <2>3 DEF Publish
    <3>2. job \in Job /\ job.op = "add" /\ job.model \in Models
      BY <3>1 DEF IInv, TypeInv, Holding, JobHeld, AppendOnly, Job
    <3>3. Below(d.config, registry[d.model])
      BY <3>1, <3>2, StoreBelow DEF DeltaConfig
    <3>4. /\ wire \in Seq(Delta) /\ Len(wire') = Len(wire) + 1
          /\ \A i \in 1..Len(wire) : wire'[i] = wire[i]
          /\ wire'[Len(wire) + 1] = d
      BY <3>1 DEF IInv, TypeInv, TypeOK, WriterTypeOK
    <3> HIDE DEF d
    <3> QED BY <2>2, <3>1, <3>3, <3>4 DEF WireBelow
  <2>4. CASE UNCHANGED wire
    BY <2>2, <2>4 DEF WireBelow
  <2> QED BY <2>3, <2>4
          DEF Writer, WriterNext, WriterStep, WriterFault, LockAndValidate, Persist,
              Mutate, IncrementEpoch, PersistFails, CancelDelete,
              IncrementAfterReadError, IncrementFails, PublishFails, Crash
<1> QED BY <1>1, <1>4, <1>5, <1>6 DEF AppendInv

\* An export shows nothing that is not served.
LEMMA ExportBelow ==
  ASSUME IInv, AppendOnly, HasStore, pc = "idle", NEW m \in Models
  PROVE  Below(Exported[m], registry[m])
<1>1. Below(store[m], registry[m]) /\ Below(world.baked[m], registry[m])
  BY StoreBelow DEF IInv, AppendInv, Durable
<1>2. Exported[m] \in {Empty, store[m], world.baked[m], registry[m]}
  BY DEF Exported
<1> QED BY <1>1, <1>2 DEF Below, Empty

LEMMA WorkerAppendInv ==
  ASSUME IInv, Subscriber \/ Reconciler \/ WorkerFault PROVE AppendInv'
<1>0. UNCHANGED <<world, store, registry, pc>>
  BY WorkerKeepsWriter
<1> SUFFICES ASSUME AppendOnly, HasStore
             PROVE  Durable' /\ WorkerBelow' /\ WireBelow' /\ NoteBelow' /\ SnapBelow'
  BY <1>0 DEF AppendInv, AppendOnly
<1>1. Durable /\ WorkerBelow /\ WireBelow /\ NoteBelow /\ SnapBelow
  BY DEF IInv, AppendInv
<1>2. Durable'
  BY <1>0, <1>1 DEF Durable
<1>3. wire \in Seq(Delta) /\ wreg \in Scoped
  BY DEF IInv, TypeInv, TypeOK, WriterTypeOK
<1>4. CASE ReceiveDelta \/ LoseDelta
  <2>1. wire # <<>> /\ wire' = Tail(wire) /\ UNCHANGED <<wreg, rpc, snap>>
    BY <1>4 DEF ReceiveDelta, LoseDelta, stateVars, reconVars
  <2>2. /\ Len(wire') = Len(wire) - 1
        /\ \A i \in 1..Len(wire') : wire'[i] = wire[i + 1] /\ i + 1 \in 1..Len(wire)
        /\ 1 \in 1..Len(wire) /\ Head(wire) = wire[1]
    BY <1>3, <2>1
  <2>3. WireBelow'
    BY <1>0, <1>1, <2>2 DEF WireBelow
  <2>4. NoteBelow'
    BY <1>0, <1>1, <1>4, <2>2 DEF WireBelow, NoteBelow, ReceiveDelta, LoseDelta, subVars
  <2> QED BY <1>0, <1>1, <1>2, <2>1, <2>3, <2>4 DEF WorkerBelow, SnapBelow
<1>5. CASE ApplyDelta \/ ApplyDeltaFails
  <2>1. spc = "apply" /\ spc' = "idle" /\ UNCHANGED <<wire, rpc, snap>>
    BY <1>5 DEF ApplyDelta, ApplyDeltaFails, writerVars, reconVars
  <2>2. wreg' \in {wreg, [wreg EXCEPT ![note.model] = note.config]}
    BY <1>5 DEF ApplyDelta, ApplyDeltaFails, stateVars
  <2>3. WorkerBelow'
    BY <1>0, <1>1, <1>3, <2>1, <2>2 DEF WorkerBelow, NoteBelow, Scoped
  <2> QED BY <1>0, <1>1, <1>2, <2>1, <2>3 DEF WireBelow, NoteBelow, SnapBelow
<1>6. CASE FetchExport \/ FetchExportUnreadable
  <2>1. /\ pc = "idle" /\ snap'.models = Scope(Exported)
        /\ UNCHANGED <<wire, wreg, spc, note>>
    BY <1>6 DEF FetchExport, FetchExportUnreadable, WriteLockFree, writerVars, stateVars,
                subVars
  <2>2. SnapBelow'
    BY <1>0, <2>1, ExportBelow, WorkerAssumption DEF SnapBelow, Scope
  <2> QED BY <1>0, <1>1, <1>2, <2>1, <2>2 DEF WireBelow, NoteBelow, WorkerBelow
<1>7. CASE ApplyExport \/ ApplyExportFails
  <2>1. /\ rpc = "apply" /\ rpc' = "tick" /\ wreg' \in {wreg, snap.models}
        /\ UNCHANGED <<wire, spc, note>>
    BY <1>7 DEF ApplyExport, ApplyExportFails, writerVars, subVars, stateVars
  <2> QED BY <1>0, <1>1, <1>2, <2>1
          DEF WireBelow, NoteBelow, WorkerBelow, SnapBelow
<1>8. CASE RestartBackend
  <2>1. /\ wreg' = WorkerBaked
        /\ UNCHANGED <<wire, spc, note, rpc, snap>>
    BY <1>8 DEF RestartBackend, subVars, reconVars
  <2> QED BY <1>0, <1>1, <1>2, <2>1, WorkerAssumption
          DEF WireBelow, NoteBelow, WorkerBelow, SnapBelow, Durable, WorkerBaked, Scope
<1>9. CASE /\ UNCHANGED <<wire, wreg, spc, note, snap>>
           /\ rpc' # "apply"
  BY <1>0, <1>1, <1>2, <1>9 DEF WireBelow, NoteBelow, WorkerBelow, SnapBelow
<1>10. ASSUME \/ BootPoll \/ BootPollFails \/ Tick \/ PollEpoch \/ PollEpochUnreadable
              \/ PollPrint \/ PollFails \/ Compare \/ FetchFails
       PROVE  UNCHANGED <<wire, wreg, spc, note, snap>> /\ rpc' # "apply"
  BY <1>10 DEF BootPoll, BootPollFails, Tick, PollEpoch, PollEpochUnreadable, PollPrint,
               PollFails, Compare, FetchFails, writerVars, stateVars, subVars
<1> QED BY <1>4, <1>5, <1>6, <1>7, <1>8, <1>9, <1>10
        DEF Subscriber, Reconciler, WorkerFault

\* With what is on its way to the worker added, it is inductive for appends.
THEOREM AppendInvariant == Spec => []IInv
<1>1. Init => IInv
  BY InitTypes, InitWriterInv, InitAppendInv DEF IInv
<1>2. IInv /\ [Next]_vars => IInv'
  <2> SUFFICES ASSUME IInv, [Next]_vars PROVE IInv'
    OBVIOUS
  <2>1. TypeInv' /\ WriterInv'
    BY StepTypes, StepWriterInv DEF IInv
  <2>2. CASE UNCHANGED vars
    BY <2>1, <2>2 DEF IInv, AppendInv, AppendOnly, Durable, WorkerBelow, WireBelow,
                      NoteBelow, SnapBelow, vars, writerVars, stateVars, subVars,
                      reconVars
  <2>3. WriterTypeOK'
    BY <2>1 DEF TypeInv, TypeOK
  <2> QED BY <2>1, <2>2, <2>3, WriterAppendInv, WorkerAppendInv DEF Next, IInv
<1> QED BY <1>1, <1>2, PTL DEF Spec

\* With append-only clients and a store, every profile a worker runs is one the
\* control plane has, whatever crashes, fails, is lost or arrives late.
THEOREM NeverAhead == Spec => []WorkerNeverAhead
<1>1. IInv => WorkerNeverAhead
  BY DEF IInv, AppendInv, WorkerBelow, WorkerNeverAhead, Below
<1> QED BY <1>1, AppendInvariant, PTL
=============================================================================
