------------------------- MODULE ConfigFanoutProofs -------------------------
(***************************************************************************)
(* Proofs about ConfigFanout, for any number of adapter children, models,  *)
(* config versions, executors and fan-outs.                                *)
(***************************************************************************)
EXTENDS ConfigFanout, TLAPS

----------------------------------------------------------------------------
(* The operators the model is built from.                                  *)

\* Committing a request to a registry gives a registry.
LEMMA CommitType ==
  ASSUME NEW r \in Request, NEW reg \in Registry
  PROVE  Commit(r, reg) \in Registry
BY DEF Commit, Request, Registry

\* The hash of a registry is a hash.
LEMMA HashType ==
  ASSUME NEW reg \in Registry
  PROVE  ConfigHash(reg) \in Hashes
BY DEF ConfigHash, Hashes

\* Equal hashes mean equal registries: the empty hash is the hash of the
\* registry without configs only.
LEMMA HashInjective ==
  ASSUME NEW r1 \in Registry, NEW r2 \in Registry,
         ConfigHash(r1) = ConfigHash(r2)
  PROVE  r1 = r2
<1>1. CASE ConfigHash(r1) = NoHash
  <2>1. \A m \in Models : r1[m] = Absent /\ r2[m] = Absent
    BY <1>1, ConfigAssumption DEF ConfigHash
  <2> QED  BY <2>1 DEF Registry
<1>2. CASE ConfigHash(r1) # NoHash
  BY <1>2 DEF ConfigHash
<1> QED  BY <1>1, <1>2

\* What the control plane sends is a request.
LEMMA RequestsType == Requests \subseteq Request
BY DEF Requests, Deltas, Exports, Request

\* Committing twice is committing once (a retried fan-out is harmless).
LEMMA CommitIdempotent ==
  ASSUME NEW r \in Request, NEW reg \in Registry
  PROVE  Commit(r, Commit(r, reg)) = Commit(r, reg)
BY DEF Commit, Request, Registry

\* If one child ends up without any config, so does every child that commits
\* the same request: only an export can empty a registry.
LEMMA EmptiedTogether ==
  ASSUME NEW r \in Requests, NEW r1 \in Registry, NEW r2 \in Registry,
         ConfigHash(Commit(r, r1)) = NoHash
  PROVE  ConfigHash(Commit(r, r2)) = NoHash
<1>1. Commit(r, r1) \in Registry
  BY CommitType, RequestsType
<1>2. \A m \in Models : Commit(r, r1)[m] = Absent
  BY <1>1, ConfigAssumption DEF ConfigHash
<1>3. \A m \in r.scope : m \in Models => r.want[m] = Absent
  BY <1>2 DEF Commit
<1>4. r \in Exports
  <2>1. CASE r \in Exports
    BY <2>1
  <2>2. CASE r \in Deltas /\ \A m \in r.scope : r.want[m] # Absent
    <3>1. PICK m \in Models, w \in Registry : r = [scope |-> {m}, want |-> w]
      BY <2>2 DEF Deltas
    <3>2. m \in r.scope
      BY <3>1
    <3> QED  BY <1>3, <2>2, <3>2
  <2> QED  BY <2>1, <2>2 DEF Requests
<1>5. r.scope = Models
  BY <1>4 DEF Exports
<1>6. \A m \in Models : Commit(r, r2)[m] = Absent
  BY <1>3, <1>5 DEF Commit
<1> QED  BY <1>6 DEF ConfigHash

----------------------------------------------------------------------------
(* Type correctness.                                                       *)

\* Init establishes the type invariant.
LEMMA InitTypeOK == Init => TypeOK
<1> SUFFICES ASSUME Init PROVE TypeOK
  OBVIOUS
<1>1. advertised \in Hashes
  BY HashType, ConfigAssumption DEF Init, Hashes
<1>2. req \in Request
  BY ConfigAssumption DEF Init, Request
<1>3. beat \in Beat
  BY DEF Init, Beat, Hashes
<1>4. next \in 1..(NumChildren + 1)
  BY ChildrenAssumption DEF Init
<1> QED
  BY <1>1, <1>2, <1>3, <1>4, ConfigAssumption DEF Init, TypeOK, Hashes

\* Every step of every actor preserves the type invariant.
LEMMA NextTypeOK == TypeOK /\ [Next]_vars => TypeOK'
<1> SUFFICES ASSUME TypeOK, [Next]_vars PROVE TypeOK'
  OBVIOUS
<1> USE DEF TypeOK
<1>1. CASE LockApply
  BY <1>1, RequestsType DEF LockApply, poolVars, callVars
<1>2. CASE BeginConfigFanout
  BY <1>2 DEF BeginConfigFanout
<1>3. CASE HideChildren
  <2>1. ready' \in [Children -> BOOLEAN] /\ merged' \in Hashes
    BY <1>3 DEF HideChildren, Hashes
  <2>2. next' \in 1..(NumChildren + 1)
    BY <1>3, ChildrenAssumption DEF HideChildren, FirstChild
  <2> QED  BY <1>3, <2>1, <2>2 DEF HideChildren
<1>4. CASE ChildApplies
  <2>1. Commit(req, breg[next]) \in Registry
    BY <1>4, CommitType DEF ChildApplies
  <2>2. Reported(Commit(req, breg[next])) \subseteq Hashes
    BY <2>1, HashType DEF Reported, Hashes
  <2>3. breg' \in [Children -> Registry]
    BY <1>4, <2>1 DEF ChildApplies
  <2>4. merged' \in Hashes /\ applied' \in BOOLEAN
    BY <1>4, <2>2 DEF ChildApplies, Agrees
  <2>5. next' \in 1..(NumChildren + 1)
    BY <1>4, ChildrenAssumption DEF ChildApplies, Children
  <2> QED  BY <1>4, <2>3, <2>4, <2>5 DEF ChildApplies
<1>5. CASE ChildFails
  <2>1. Commit(req, breg[next]) \in Registry
    BY <1>5, CommitType DEF ChildFails
  <2>2. breg' \in [Children -> Registry]
    BY <1>5, <2>1 DEF ChildFails
  <2>3. next' \in 1..(NumChildren + 1)
    BY <1>5, ChildrenAssumption DEF ChildFails, Children
  <2> QED  BY <1>5, <2>2, <2>3 DEF ChildFails, NoteFailure
<1>6. CASE FanoutErrored
  BY <1>6 DEF FanoutErrored, callVars
<1>7. CASE FanoutRejected
  BY <1>7 DEF FanoutRejected, callVars
<1>8. CASE ClearQuarantine
  BY <1>8 DEF ClearQuarantine, callVars
<1>9. CASE RevealChildren
  BY <1>9 DEF RevealChildren, callVars
<1>10. CASE RetryFanout
  BY <1>10 DEF RetryFanout, poolVars, callVars
<1>11. CASE VerifyHash
  BY <1>11 DEF VerifyHash, poolVars, callVars
<1>12. ASSUME NEW x \in Executors, NEW c \in Placeable, StartBatch(x, c)
       PROVE  TypeOK'
  <2>1. exec' \in [Executors -> Batch \cup {NoBatch}]
    BY <1>12 DEF StartBatch, Batch, Placeable, Hashes
  <2> QED  BY <1>12, <2>1 DEF StartBatch, poolVars, callVars
<1>13. ASSUME NEW x \in Executors, NEW ok \in BOOLEAN, FinishBatch(x, ok)
       PROVE  TypeOK'
  BY <1>13 DEF FinishBatch, callVars
<1>14. ASSUME NEW c \in Children, ProbeSucceeds(c) PROVE TypeOK'
  BY <1>14 DEF ProbeSucceeds, callVars
<1>15. ASSUME NEW c \in Children, ProbeStores(c) PROVE TypeOK'
  BY <1>15 DEF ProbeStores, callVars
<1>16. ASSUME NEW c \in Children, ProbeRechecks(c) PROVE TypeOK'
  BY <1>16 DEF ProbeRechecks, AfterStore, poolVars, callVars
<1>17. ASSUME NEW c \in Children, ProbeUndoes(c) PROVE TypeOK'
  BY <1>17 DEF ProbeUndoes, callVars
<1>18. ASSUME NEW c \in Children, ProbeFails(c) PROVE TypeOK'
  BY <1>18 DEF ProbeFails, callVars
<1>19. CASE HeartbeatPings
  <2>1. beat' \in Beat
    BY <1>19, HashType DEF HeartbeatPings, Beat
  <2> QED  BY <1>19, <2>1 DEF HeartbeatPings, poolVars, callVars
<1>20. CASE HeartbeatChecks
  BY <1>20 DEF HeartbeatChecks, Beat, poolVars, callVars
<1>21. CASE HeartbeatAdopts
  BY <1>21 DEF HeartbeatAdopts, Beat, poolVars, callVars
<1>22. ASSUME NEW c \in Children, RestartChild(c) PROVE TypeOK'
  BY <1>22, ConfigAssumption DEF RestartChild, callVars
<1>23. CASE UNCHANGED vars
  BY <1>23 DEF vars, poolVars, callVars
<1> QED
  BY <1>1, <1>2, <1>3, <1>4, <1>5, <1>6, <1>7, <1>8, <1>9, <1>10, <1>11,
     <1>12, <1>13, <1>14, <1>15, <1>16, <1>17, <1>18, <1>19, <1>20, <1>21,
     <1>22, <1>23
  DEF Next, Fanout, Batches, Probes, Heartbeat

\* Every reachable state is well typed, whatever is lost, restarted or raced.
THEOREM TypeCorrect == Spec => []TypeOK
BY InitTypeOK, NextTypeOK, PTL DEF Spec

----------------------------------------------------------------------------
(* The quarantine.                                                         *)

\* What the holder of lock_apply knows about the quarantine flag and the
\* generation at each point of a fan-out: nobody else writes them.
FlagInv ==
  /\ wpc \in {"hide", "fanout", "errored"} => quarantined
  /\ wpc = "reveal" => ~quarantined
  /\ wpc \in {"hide", "fanout", "errored", "reveal", "verify"} => gen = generation

HidingInv == TypeOK /\ FlagInv /\ QuarantineHidesChildren

\* The flag, the generation and the ready flags stay in the relation the
\* quarantine promises, through every interleaving of fan-out, batches and
\* health successes.
LEMMA NextHidingInv == HidingInv /\ [Next]_vars => HidingInv'
<1> SUFFICES ASSUME HidingInv, [Next]_vars PROVE FlagInv' /\ QuarantineHidesChildren'
  BY NextTypeOK DEF HidingInv
<1> USE DEF HidingInv, TypeOK, FlagInv, QuarantineHidesChildren
<1>1. CASE LockApply
  BY <1>1 DEF LockApply, poolVars, callVars
<1>2. CASE BeginConfigFanout
  BY <1>2 DEF BeginConfigFanout
<1>3. CASE HideChildren
  BY <1>3 DEF HideChildren
<1>4. CASE ChildApplies
  BY <1>4 DEF ChildApplies
<1>5. CASE ChildFails
  BY <1>5 DEF ChildFails
<1>6. CASE FanoutErrored
  BY <1>6 DEF FanoutErrored, callVars
<1>7. CASE FanoutRejected
  BY <1>7 DEF FanoutRejected, callVars
<1>8. CASE ClearQuarantine
  BY <1>8 DEF ClearQuarantine, callVars
<1>9. CASE RevealChildren
  BY <1>9 DEF RevealChildren, callVars
<1>10. CASE RetryFanout
  BY <1>10 DEF RetryFanout, poolVars, callVars
<1>11. CASE VerifyHash
  BY <1>11 DEF VerifyHash, poolVars, callVars
<1>12. ASSUME NEW x \in Executors, NEW c \in Placeable, StartBatch(x, c)
       PROVE  FlagInv' /\ QuarantineHidesChildren'
  BY <1>12 DEF StartBatch, poolVars, callVars
<1>13. ASSUME NEW x \in Executors, NEW ok \in BOOLEAN, FinishBatch(x, ok)
       PROVE  FlagInv' /\ QuarantineHidesChildren'
  BY <1>13 DEF FinishBatch, callVars
<1>14. ASSUME NEW c \in Children, ProbeSucceeds(c)
       PROVE  FlagInv' /\ QuarantineHidesChildren'
  BY <1>14 DEF ProbeSucceeds, callVars
<1>15. ASSUME NEW c \in Children, ProbeStores(c)
       PROVE  FlagInv' /\ QuarantineHidesChildren'
  BY <1>15 DEF ProbeStores, callVars
<1>16. ASSUME NEW c \in Children, ProbeRechecks(c)
       PROVE  FlagInv' /\ QuarantineHidesChildren'
  BY <1>16 DEF ProbeRechecks, AfterStore, poolVars, callVars
<1>17. ASSUME NEW c \in Children, ProbeUndoes(c)
       PROVE  FlagInv' /\ QuarantineHidesChildren'
  BY <1>17 DEF ProbeUndoes, callVars
<1>18. ASSUME NEW c \in Children, ProbeFails(c)
       PROVE  FlagInv' /\ QuarantineHidesChildren'
  BY <1>18 DEF ProbeFails, callVars
<1>19. CASE Heartbeat
  BY <1>19 DEF Heartbeat, HeartbeatPings, HeartbeatChecks, HeartbeatAdopts,
               poolVars, callVars
<1>20. ASSUME NEW c \in Children, RestartChild(c)
       PROVE  FlagInv' /\ QuarantineHidesChildren'
  BY <1>20 DEF RestartChild, callVars
<1>21. CASE UNCHANGED vars
  BY <1>21 DEF vars, poolVars, callVars
<1> QED
  BY <1>1, <1>2, <1>3, <1>4, <1>5, <1>6, <1>7, <1>8, <1>9, <1>10, <1>11,
     <1>12, <1>13, <1>14, <1>15, <1>16, <1>17, <1>18, <1>19, <1>20, <1>21
  DEF Next, Fanout, Batches, Probes

\* Once a fan-out has hidden the children none of them looks ready until the
\* quarantine is lifted, but for the health success that raced with it and is
\* about to take its store back; this holds with failing, restarting and
\* hashless children too.
THEOREM QuarantineHolds == Spec => []QuarantineHidesChildren
<1>1. Init => HidingInv
  BY InitTypeOK DEF Init, HidingInv, FlagInv, QuarantineHidesChildren
<1>2. HidingInv => QuarantineHidesChildren
  BY DEF HidingInv
<1> QED  BY <1>1, <1>2, NextHidingInv, PTL DEF Spec

----------------------------------------------------------------------------
(* The execution barrier.                                                  *)

\* Exclusive and shared holders of the barrier exclude each other.
Barrier == wpc # "idle" => NoReader

StableInv == TypeOK /\ Barrier /\ RegistryStableDuringBatch

\* No step changes the registry under a running batch, but for the restart of
\* a backend process, which the history records.
LEMMA NextStableInv == StableInv /\ [Next]_vars => StableInv'
<1> SUFFICES ASSUME StableInv, [Next]_vars
             PROVE  Barrier' /\ RegistryStableDuringBatch'
  BY NextTypeOK DEF StableInv
<1> USE DEF StableInv, TypeOK, Barrier, RegistryStableDuringBatch, NoReader
<1>1. CASE LockApply
  BY <1>1 DEF LockApply, poolVars
<1>2. CASE ChildApplies \/ ChildFails
  \* The only steps of the sidecar that touch a registry: no batch is running.
  <2>1. NoReader /\ UNCHANGED <<wpc, exec>>
    BY <1>2 DEF ChildApplies, ChildFails
  <2> QED  BY <2>1
<1>3. CASE \/ BeginConfigFanout \/ HideChildren \/ FanoutErrored
           \/ FanoutRejected \/ ClearQuarantine \/ RevealChildren
           \/ RetryFanout \/ VerifyHash
  <2>1. wpc # "idle" /\ UNCHANGED <<breg, exec, faulty>>
    BY <1>3 DEF BeginConfigFanout, HideChildren, FanoutErrored, FanoutRejected,
                ClearQuarantine, RevealChildren, RetryFanout, VerifyHash, poolVars
  <2> QED  BY <2>1
<1>4. ASSUME NEW x \in Executors, NEW c \in Placeable, StartBatch(x, c)
      PROVE  Barrier' /\ RegistryStableDuringBatch'
  <2>1. wpc' = "idle" /\ UNCHANGED <<breg, faulty>>
    BY <1>4 DEF StartBatch, poolVars
  <2>2. PICK h \in {NoHash, advertised} :
          exec' = [exec EXCEPT ![x] = [child |-> c, hash |-> h,
                                       revision |-> breg[c]]]
    BY <1>4 DEF StartBatch
  <2> QED  BY <2>1, <2>2
<1>5. ASSUME NEW x \in Executors, NEW ok \in BOOLEAN, FinishBatch(x, ok)
      PROVE  Barrier' /\ RegistryStableDuringBatch'
  BY <1>5 DEF FinishBatch
<1>6. CASE Probes \/ Heartbeat \/ UNCHANGED vars
  <2>1. UNCHANGED <<breg, exec, wpc, faulty>>
    BY <1>6 DEF Probes, Heartbeat, vars, poolVars, ProbeSucceeds, ProbeStores,
                ProbeRechecks, ProbeUndoes, ProbeFails, HeartbeatPings,
                HeartbeatChecks, HeartbeatAdopts
  <2> QED  BY <2>1
<1>7. ASSUME NEW c \in Children, RestartChild(c)
      PROVE  Barrier' /\ RegistryStableDuringBatch'
  BY <1>7 DEF RestartChild
<1> QED
  BY <1>1, <1>2, <1>3, <1>4, <1>5, <1>6, <1>7 DEF Next, Fanout, Batches

\* A batch executes against one registry revision from its hash check to its
\* end: the write side of the barrier is held from before the first child is
\* touched until after the last.
THEOREM RegistryStable == Spec => []RegistryStableDuringBatch
<1>1. Init => StableInv
  BY InitTypeOK DEF Init, StableInv, Barrier, RegistryStableDuringBatch, NoReader
<1>2. StableInv => RegistryStableDuringBatch
  BY DEF StableInv
<1> QED  BY <1>1, <1>2, NextStableInv, PTL DEF Spec

----------------------------------------------------------------------------
(* Children that serve run the same registry.                              *)

\* A child that has committed the request and whose hash was folded into the
\* combined answer.
Done(c) == Commit(req, breg[c]) = breg[c] /\ ConfigHash(breg[c]) = merged

\* How far a fan-out that still may succeed has come.
FanoutInv ==
  /\ wpc # "idle" => req \in Requests
  /\ wpc = "fanout" /\ next = 1 => merged = NoHash
  /\ faulty = {} /\ wpc = "fanout" /\ ~failed /\ applied =>
       \A c \in Children : c < next => Done(c)
  /\ faulty = {} /\ wpc \in {"reveal", "verify"} =>
       \A c \in Children : ConfigHash(breg[c]) = merged

ServingInv == HidingInv /\ FanoutInv /\ UniformWhenServing

\* A further child that commits the request and agrees has the hash of the
\* children before it: merge_bundle_hash's tolerance for empty hashes hides
\* no difference, since only an export empties a registry.
LEMMA NextChildAgrees ==
  ASSUME ServingInv, ChildApplies, faulty' = {}, ~failed', applied'
  PROVE  \A c \in Children : c < next' => Done(c)'
<1> USE DEF ServingInv, HidingInv, TypeOK, FanoutInv
<1> DEFINE h == ConfigHash(Commit(req, breg[next]))
<1>1. /\ wpc = "fanout" /\ next \in Children /\ req \in Requests
      /\ breg[next] \in Registry /\ ~failed
      /\ breg' = [breg EXCEPT ![next] = Commit(req, breg[next])]
      /\ next' = next + 1 /\ req' = req
  BY DEF ChildApplies
<1>2. /\ merged' = IF merged = NoHash THEN h ELSE merged
      /\ applied /\ Agrees(h)
      /\ faulty = {}
  BY DEF ChildApplies, Reported
<1>3. \A c \in Children : c < next => Done(c)
  BY <1>1, <1>2
<1>4. merged' = h /\ (next # 1 => merged' = merged)
  <2>1. CASE next = 1
    BY <1>1, <1>2, <2>1
  <2>2. CASE next # 1
    <3>1. 1 \in Children /\ Done(1) /\ breg[1] \in Registry
      BY <1>1, <1>3, <2>2, ChildrenAssumption DEF Children
    <3>2. CASE merged = NoHash
      <4>1. h = NoHash
        BY <1>1, <3>1, <3>2, EmptiedTogether DEF Done
      <4> QED  BY <1>2, <3>2, <4>1
    <3>3. CASE merged # NoHash
      <4>1. h # NoHash
        BY <1>1, <3>1, <3>3, EmptiedTogether DEF Done
      <4> QED  BY <1>2, <3>3, <4>1 DEF Agrees
    <3> QED  BY <3>2, <3>3
  <2> QED  BY <2>1, <2>2
<1>5. ASSUME NEW c \in Children, c < next' PROVE Done(c)'
  <2>1. CASE c = next
    <3>1. Commit(req, breg[c]) \in Registry /\ req \in Request
      BY <1>1, <2>1, CommitType, RequestsType
    <3>2. Commit(req, Commit(req, breg[c])) = Commit(req, breg[c])
      BY <1>1, <2>1, <3>1, CommitIdempotent
    <3>3. breg'[c] = Commit(req, breg[c])
      BY <1>1, <2>1
    <3> QED  BY <1>1, <1>4, <2>1, <3>2, <3>3 DEF Done
  <2>2. CASE c # next
    <3>1. c < next /\ breg'[c] = breg[c]
      BY <1>1, <1>5, <2>2 DEF Children
    <3>2. merged' = merged
      BY <1>1, <1>4, <1>5, <3>1, ChildrenAssumption DEF Children
    <3> QED  BY <1>1, <1>3, <3>1, <3>2 DEF Done
  <2> QED  BY <2>1, <2>2
<1> QED  BY <1>5

\* No step leaves a serving pool with two registries, as long as children
\* report their hashes and do not restart.
LEMMA NextServingInv == ServingInv /\ [Next]_vars => ServingInv'
<1> SUFFICES ASSUME ServingInv, [Next]_vars
             PROVE  FanoutInv' /\ UniformWhenServing'
  BY NextHidingInv DEF ServingInv
<1> USE DEF ServingInv, HidingInv, TypeOK, FlagInv, FanoutInv, UniformWhenServing
<1>1. CASE LockApply
  BY <1>1 DEF LockApply, poolVars, callVars
<1>2. CASE BeginConfigFanout
  BY <1>2 DEF BeginConfigFanout
<1>3. CASE HideChildren
  BY <1>3 DEF HideChildren, FirstChild, Children
<1>4. CASE ChildApplies
  <2>1. quarantined' /\ wpc' = "fanout" /\ req' \in Requests /\ next' # 1
    BY <1>4 DEF ChildApplies, Children
  <2>2. faulty' = {} /\ ~failed' /\ applied' =>
          \A c \in Children : c < next' => Done(c)'
    BY <1>4, NextChildAgrees
  <2> QED  BY <2>1, <2>2
<1>5. CASE ChildFails
  <2>1. quarantined' /\ wpc' = "fanout" /\ req' \in Requests /\ next' # 1
    BY <1>5 DEF ChildFails, Children
  <2>2. failed'
    BY <1>5 DEF ChildFails, NoteFailure
  <2> QED  BY <2>1, <2>2
<1>6. CASE FanoutErrored
  BY <1>6 DEF FanoutErrored, callVars
<1>7. CASE FanoutRejected
  BY <1>7 DEF FanoutRejected, callVars
<1>8. CASE ClearQuarantine
  <2>1. \A c \in Children : c < next
    BY <1>8, ChildrenAssumption DEF ClearQuarantine, Children
  <2>2. faulty = {} => \A c \in Children : ConfigHash(breg[c]) = merged
    BY <1>8, <2>1 DEF ClearQuarantine, Done
  <2>3. faulty = {} => \A c, d \in Children : breg[c] = breg[d]
    BY <2>2, HashInjective
  <2> QED  BY <1>8, <2>2, <2>3 DEF ClearQuarantine, callVars
<1>9. CASE RevealChildren
  BY <1>9 DEF RevealChildren, callVars
<1>10. CASE RetryFanout
  BY <1>10 DEF RetryFanout, poolVars, callVars
<1>11. CASE VerifyHash
  BY <1>11 DEF VerifyHash, poolVars, callVars
<1>12. CASE Batches \/ Probes \/ Heartbeat \/ UNCHANGED vars
  <2>1. UNCHANGED <<breg, quarantined, wpc, req, next, failed, applied, merged,
                    faulty>>
    BY <1>12 DEF Batches, StartBatch, FinishBatch, Probes, Heartbeat, vars,
                 poolVars, callVars, ProbeSucceeds, ProbeStores, ProbeRechecks,
                 ProbeUndoes, ProbeFails, HeartbeatPings, HeartbeatChecks,
                 HeartbeatAdopts
  <2> QED  BY <2>1 DEF Done
<1>13. ASSUME NEW c \in Children, RestartChild(c)
       PROVE  FanoutInv' /\ UniformWhenServing'
  BY <1>13 DEF RestartChild, callVars
<1> QED
  BY <1>1, <1>2, <1>3, <1>4, <1>5, <1>6, <1>7, <1>8, <1>9, <1>10, <1>11,
     <1>12, <1>13 DEF Next, Fanout

\* The invariant holds initially: all children start from the image.
LEMMA InitServingInv == Init => ServingInv
BY InitTypeOK DEF Init, ServingInv, HidingInv, FlagInv, FanoutInv,
                  UniformWhenServing, QuarantineHidesChildren

\* Whenever the pool is not quarantined, all adapter children run the same
\* registry, however many fan-outs failed half-way, diverged or were retried.
THEOREM ChildrenUniform == Spec => []UniformWhenServing
<1>1. ServingInv /\ [Next]_vars => ServingInv'
  BY NextServingInv
<1>2. ServingInv => UniformWhenServing
  BY DEF ServingInv
<1> QED  BY <1>1, <1>2, InitServingInv, PTL DEF Spec

\* A hash the config path advertises is, at that step, the hash of the
\* registry of every child.
THEOREM VerifiedHash == Spec => VerifiedHashIsEveryChilds
<1>1. ServingInv /\ [Next]_vars => ServingInv'
  BY NextServingInv
<1>2. ServingInv /\ [Next]_vars =>
        [faulty = {} /\ wpc = "verify" /\ wpc' = "idle"
           /\ advertised' # advertised =>
           \A c \in Children : ConfigHash(breg[c]) = advertised']_vars
  <2> SUFFICES ASSUME ServingInv, Next, faulty = {},
                      wpc = "verify", wpc' = "idle", advertised' # advertised
               PROVE  \A c \in Children : ConfigHash(breg[c]) = advertised'
    OBVIOUS
  <2>1. VerifyHash
    BY DEF Next, Fanout, Batches, Probes, Heartbeat, LockApply,
           BeginConfigFanout, HideChildren, ChildApplies, ChildFails,
           FanoutErrored, FanoutRejected, ClearQuarantine, RevealChildren,
           RetryFanout, StartBatch, FinishBatch, ProbeSucceeds, ProbeStores,
           ProbeRechecks, ProbeUndoes, ProbeFails, HeartbeatPings,
           HeartbeatChecks, HeartbeatAdopts, RestartChild
  <2> QED  BY <2>1 DEF VerifyHash, ServingInv, FanoutInv
<1> QED  BY <1>1, <1>2, InitServingInv, PTL DEF Spec, VerifiedHashIsEveryChilds
=============================================================================
