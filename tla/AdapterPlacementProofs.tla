----------------------- MODULE AdapterPlacementProofs -----------------------
(***************************************************************************)
(* Proofs about AdapterPlacement, for any number of children, models,      *)
(* items and tasks: the composition implements ConfigFanout, so that what  *)
(* is proved there holds with placement and pins at work, and pins do not  *)
(* drift silently.                                                         *)
(***************************************************************************)
EXTENDS AdapterPlacement, TLAPS

----------------------------------------------------------------------------
(* Types of what placement and pins rest on.                               *)

Placement == [Models -> Children \cup {NoChild}]
Pinner == [pc : {"idle", "update", "place"}, current : SUBSET Models,
           revision : Nat, todo : SUBSET Models,
           byChild : [Children -> SUBSET Models], next : 1..(NumChildren + 1)]

TaskOK(t) ==
  /\ t.step \in {"free", "batch", "generate", "running", "ensure", "clear"}
  /\ t.step # "free" => t.model \in Models
  /\ t.step \in {"running", "ensure", "clear"} => t.child \in Children

\* Types of the placement map, the tasks and the pins.
FleetTypeOK ==
  /\ placements \in Placement
  /\ DOMAIN task = Executors
  /\ \A x \in Executors : TaskOK(task[x])
  /\ pinned \in SUBSET Models /\ pinRevision \in Nat
  /\ desired \in SUBSET Models
  /\ pinner \in Pinner
  /\ lastPushed \in SUBSET (SUBSET Models) /\ lastRevision \in Nat
  /\ childPins \in [Children -> SUBSET Models]

\* What a step may do to the placements: the revision never goes back, and as
\* long as it stands no pinned model moves.
PlacementStep ==
  /\ placements' \in Placement
  /\ pinRevision' \in Nat /\ pinRevision' >= pinRevision
  /\ pinRevision' = pinRevision =>
       \A m \in pinned : placements'[m] = placements[m]

\* child_for_model keeps to it, and returns a child.
LEMMA ChildForModelStep ==
  ASSUME FleetTypeOK, NEW m \in Models, NEW c, ChildForModel(m, c)
  PROVE  /\ PlacementStep /\ c \in Children
         /\ placements'[m] = c
         /\ pinRevision' = pinRevision /\ m \in pinned => Stays(m)
<1>1. c \in Children
  BY DEF ChildForModel, Stays, LeastLoaded, Placeable
<1>2. placements' = [placements EXCEPT ![m] = c]
  BY DEF ChildForModel
<1>3. CASE Stays(m)
  <2>1. c = placements[m] /\ pinRevision' = pinRevision
    BY <1>3 DEF ChildForModel
  <2> QED  BY <1>1, <1>2, <1>3, <2>1 DEF PlacementStep, FleetTypeOK, Placement
<1>4. CASE ~Stays(m)
  <2>1. pinRevision' \in {pinRevision + Bump(m), pinRevision + 2 * Bump(m)}
    BY <1>4 DEF ChildForModel
  <2>2. CASE m \in pinned
    <3>1. Bump(m) = 1
      BY <2>2 DEF Bump
    <3>2. pinRevision' > pinRevision /\ pinRevision' \in Nat
      BY <2>1, <3>1 DEF FleetTypeOK
    <3> QED  BY <1>1, <1>2, <3>2 DEF PlacementStep, FleetTypeOK, Placement
  <2>3. CASE m \notin pinned
    <3>1. Bump(m) = 0
      BY <2>3 DEF Bump
    <3>2. pinRevision' = pinRevision
      BY <2>1, <3>1 DEF FleetTypeOK
    <3> QED  BY <1>1, <1>2, <2>3, <3>2 DEF PlacementStep, FleetTypeOK, Placement
  <2> QED  BY <2>2, <2>3
<1> QED  BY <1>3, <1>4

\* So does clear_model_if_on_child.
LEMMA ClearModelStep ==
  ASSUME FleetTypeOK, NEW m \in Models, NEW c, ClearModelIfOnChild(m, c)
  PROVE  PlacementStep
<1>1. CASE placements[m] = c
  <2>1. /\ placements' = [placements EXCEPT ![m] = NoChild]
        /\ pinRevision' = pinRevision + Bump(m)
    BY <1>1 DEF ClearModelIfOnChild
  <2> QED  BY <2>1 DEF Bump, PlacementStep, FleetTypeOK, Placement
<1>2. CASE placements[m] # c
  BY <1>2 DEF ClearModelIfOnChild, placeVars, PlacementStep, FleetTypeOK
<1> QED  BY <1>1, <1>2

TasksOK == DOMAIN task = Executors /\ \A x \in Executors : TaskOK(task[x])

\* What a step other than those of the reconciler does: it keeps to
\* PlacementStep and leaves the reconciler and the pins alone, unless a child
\* restarts.
QuietStep ==
  /\ PlacementStep /\ TasksOK'
  /\ UNCHANGED <<pinned, desired, pinner, lastPushed, lastRevision>>
  /\ childPins' \in [Children -> SUBSET Models]
  /\ childPins' = childPins \/ "restart" \in faulty'

\* Leaving placements and tasks alone is a special case.
LEMMA StillStep ==
  ASSUME FleetTypeOK, UNCHANGED <<placeVars, task, pinVars>>
  PROVE  QuietStep
BY DEF QuietStep, PlacementStep, FleetTypeOK, TasksOK, placeVars, pinVars, Placement

\* The calls of a task are quiet steps.
LEMMA CallsQuiet == FleetTypeOK /\ Calls => QuietStep
<1> SUFFICES ASSUME FleetTypeOK, NEW x \in Executors,
                    \/ AcceptWork(x) \/ RunOnChild(x) \/ RefuseWork(x)
                    \/ \E ok \in BOOLEAN : ReturnFromChild(x, ok)
                    \/ EnsureModelReady(x) \/ EnsureReturns(x) \/ ClearFailed(x)
             PROVE  QuietStep
  BY DEF Calls
<1> DEFINE Sets(t) == task' = [task EXCEPT ![x] = t]
<1>1. TasksOK /\ TaskOK(task[x])
  BY DEF FleetTypeOK, TasksOK
<1>2. ASSUME NEW t, TaskOK(t), Sets(t), PlacementStep, UNCHANGED pinVars
      PROVE  QuietStep
  <2>1. TasksOK'
    BY <1>1, <1>2 DEF TasksOK
  <2> QED  BY <1>2, <2>1 DEF QuietStep, pinVars, FleetTypeOK
<1>3. ASSUME UNCHANGED placeVars PROVE PlacementStep
  BY <1>3 DEF placeVars, PlacementStep, FleetTypeOK
<1>4. TaskOK(Free)
  BY DEF TaskOK, Free
<1>5. CASE AcceptWork(x)
  <2>1. PICK m \in Models, kind \in {"batch", "generate"} : Sets(At(kind, m, NoChild))
    BY <1>5 DEF AcceptWork
  <2>2. TaskOK(At(kind, m, NoChild))
    BY DEF TaskOK, At
  <2> HIDE DEF Sets
  <2> QED  BY <1>2, <1>3, <1>5, <2>1, <2>2 DEF AcceptWork
<1>6. CASE RunOnChild(x)
  <2>1. task[x].model \in Models
    BY <1>1, <1>6 DEF RunOnChild, TaskOK
  <2>2. PICK c : ChildForModel(task[x].model, c) /\ Sets(At("running", task[x].model, c))
    BY <1>6 DEF RunOnChild
  <2>3. PlacementStep /\ c \in Children
    BY <2>1, <2>2, ChildForModelStep
  <2>4. TaskOK(At("running", task[x].model, c))
    BY <2>1, <2>3 DEF TaskOK, At
  <2> HIDE DEF Sets
  <2> QED  BY <1>2, <1>6, <2>2, <2>3, <2>4 DEF RunOnChild
<1>7. CASE RefuseWork(x)
  <2>1. task[x].model \in Models
    BY <1>1, <1>7 DEF RefuseWork, TaskOK
  <2>2. UNCHANGED placeVars \/ \E c : ChildForModel(task[x].model, c)
    BY <1>7 DEF RefuseWork
  <2>3. PlacementStep
    BY <1>3, <2>1, <2>2, ChildForModelStep
  <2>4. Sets(Free) /\ UNCHANGED pinVars
    BY <1>7 DEF RefuseWork
  <2> HIDE DEF Sets
  <2> QED  BY <1>2, <1>4, <2>3, <2>4
<1>8. ASSUME NEW ok \in BOOLEAN, ReturnFromChild(x, ok) PROVE QuietStep
  <2>1. TaskOK(At("clear", task[x].model, task[x].child))
    BY <1>1, <1>8 DEF ReturnFromChild, TaskOK, At
  <2>2. Sets(Free) \/ Sets(At("clear", task[x].model, task[x].child))
    BY <1>8 DEF ReturnFromChild
  <2>3. UNCHANGED <<placeVars, pinVars>>
    BY <1>8 DEF ReturnFromChild
  <2> HIDE DEF Sets
  <2> QED  BY <1>2, <1>3, <1>4, <2>1, <2>2, <2>3
<1>9. CASE EnsureModelReady(x)
  <2>1. PICK m \in Models, c \in Children : ChildForModel(m, c) /\ Sets(At("ensure", m, c))
    BY <1>9 DEF EnsureModelReady
  <2>2. PlacementStep /\ c \in Children
    BY <2>1, ChildForModelStep
  <2>3. TaskOK(At("ensure", m, c))
    BY <2>2 DEF TaskOK, At
  <2> HIDE DEF Sets
  <2> QED  BY <1>2, <1>9, <2>1, <2>2, <2>3 DEF EnsureModelReady
<1>10. CASE EnsureReturns(x)
  <2>1. TaskOK(At("clear", task[x].model, task[x].child))
    BY <1>1, <1>10 DEF EnsureReturns, TaskOK, At
  <2>2. Sets(Free) \/ Sets(At("clear", task[x].model, task[x].child))
    BY <1>10 DEF EnsureReturns
  <2>3. UNCHANGED <<placeVars, pinVars>>
    BY <1>10 DEF EnsureReturns
  <2> HIDE DEF Sets
  <2> QED  BY <1>2, <1>3, <1>4, <2>1, <2>2, <2>3
<1>11. CASE ClearFailed(x)
  <2>1. task[x].model \in Models
    BY <1>1, <1>11 DEF ClearFailed, TaskOK
  <2>2. PlacementStep
    BY <1>11, <2>1, ClearModelStep DEF ClearFailed
  <2>3. Sets(Free) /\ UNCHANGED pinVars
    BY <1>11 DEF ClearFailed
  <2> HIDE DEF Sets
  <2> QED  BY <1>2, <1>4, <2>2, <2>3
<1> QED  BY <1>5, <1>6, <1>7, <1>8, <1>9, <1>10, <1>11

\* So are those of the scheduler, of the config path and of the health probes,
\* and a restart of a child.
LEMMA OthersQuiet ==
  ASSUME FleetTypeOK,
         \/ FanoutStep \/ Scheduling \/ Calls \/ UNCHANGED allVars
         \/ \E c \in Children : RestartWithBaselinePins(c)
  PROVE  QuietStep
<1>1. CASE FanoutStep \/ UNCHANGED allVars
  BY <1>1, StillStep DEF FanoutStep, allVars, fleetVars
<1>2. CASE Calls
  BY <1>2, CallsQuiet
<1>3. ASSUME NEW i \in Items, Enqueue(i) PROVE QuietStep
  <2>1. PICK m \in Models, c \in Children : ChildForModel(m, c)
    BY <1>3 DEF Enqueue
  <2>2. PlacementStep
    BY <2>1, ChildForModelStep
  <2> QED  BY <1>3, <2>2 DEF Enqueue, QuietStep, TasksOK, FleetTypeOK, pinVars
<1>4. ASSUME NEW x \in Executors, FlushBatch(x) PROVE QuietStep
  <2>1. PICK t : /\ task' = [task EXCEPT ![x] = t]
                 /\ \E m \in Models : t \in {Free, At("batch", m, NoChild)}
    BY <1>4 DEF FlushBatch
  <2>2. TaskOK(t)
    BY <2>1 DEF TaskOK, Free, At
  <2>3. TasksOK'
    BY <2>1, <2>2 DEF TasksOK, FleetTypeOK
  <2>4. PlacementStep
    BY <1>4 DEF FlushBatch, placeVars, PlacementStep, FleetTypeOK
  <2> QED  BY <1>4, <2>3, <2>4 DEF FlushBatch, QuietStep, FleetTypeOK, pinVars
<1>5. ASSUME NEW c \in Children, RestartWithBaselinePins(c) PROVE QuietStep
  <2>1. "restart" \in faulty'
    BY <1>5 DEF RestartWithBaselinePins, RestartChild
  <2>2. childPins' \in [Children -> SUBSET Models]
    BY <1>5, PlacementAssumption DEF RestartWithBaselinePins, FleetTypeOK
  <2>3. PlacementStep /\ TasksOK'
    BY <1>5 DEF RestartWithBaselinePins, placeVars, PlacementStep, TasksOK, FleetTypeOK
  <2> QED  BY <1>5, <2>1, <2>2, <2>3 DEF RestartWithBaselinePins, QuietStep
<1> QED  BY <1>1, <1>2, <1>3, <1>4, <1>5 DEF Scheduling

\* The initial types.
LEMMA InitFleetType == PoolInit => FleetTypeOK
BY PlacementAssumption, ChildrenAssumption
   DEF PoolInit, FleetTypeOK, Placement, Pinner, Resting, TaskOK, Free, NoChild

\* Every step keeps the types.
LEMMA NextFleetType == FleetTypeOK /\ [PoolNext]_allVars => FleetTypeOK'
<1> SUFFICES ASSUME FleetTypeOK, [PoolNext]_allVars PROVE FleetTypeOK'
  OBVIOUS
<1>1. CASE QuietStep
  BY <1>1 DEF QuietStep, PlacementStep, TasksOK, FleetTypeOK
<1>2. Resting \in Pinner
  BY ChildrenAssumption DEF Resting, Pinner
<1>3. CASE GatewayRepins
  BY <1>3 DEF GatewayRepins, FleetTypeOK, placeVars
<1>4. CASE RefreshPins
  <2>1. pinner' \in Pinner
    BY <1>4, <1>2 DEF RefreshPins, FleetTypeOK, Pinner
  <2> QED  BY <1>4, <2>1 DEF RefreshPins, FleetTypeOK, placeVars
<1>5. CASE UpdatePinnedSet
  <2>1. pinner' \in Pinner /\ pinner.current \in SUBSET Models
    BY <1>5 DEF UpdatePinnedSet, FleetTypeOK, Pinner
  <2>2. pinRevision' \in Nat
    BY <1>5 DEF UpdatePinnedSet, FleetTypeOK
  <2> QED  BY <1>5, <2>1, <2>2 DEF UpdatePinnedSet, FleetTypeOK
<1>6. CASE PlacePin
  <2>1. PICK m \in pinner.todo, c \in Children :
          /\ ChildForModel(m, c)
          /\ pinner' = [pinner EXCEPT !.todo = @ \ {m}, !.byChild[c] = @ \cup {m}]
    BY <1>6 DEF PlacePin
  <2>2. m \in Models
    BY DEF FleetTypeOK, Pinner
  <2>3. PlacementStep
    BY <2>1, <2>2, ChildForModelStep
  <2>4. pinner' \in Pinner
    BY <2>1, <2>2 DEF FleetTypeOK, Pinner
  <2> QED  BY <1>6, <2>3, <2>4 DEF PlacePin, PlacementStep, FleetTypeOK
<1>7. CASE PushPins
  <2>0. pinner.next + 1 \in 1..(NumChildren + 1)
    BY <1>7, ChildrenAssumption DEF PushPins, Children
  <2>1. pinner' \in Pinner
    BY <1>7, <2>0 DEF PushPins, FleetTypeOK, Pinner
  <2>2. childPins' \in [Children -> SUBSET Models]
    BY <1>7 DEF PushPins, FleetTypeOK, Pinner
  <2> QED  BY <1>7, <2>1, <2>2 DEF PushPins, FleetTypeOK, placeVars
<1>8. CASE PushFails
  <2>1. childPins' \in [Children -> SUBSET Models]
    BY <1>8 DEF PushFails, FleetTypeOK, Pinner
  <2> QED  BY <1>8, <1>2, <2>1 DEF PushFails, FleetTypeOK, placeVars
<1>9. CASE RecordPush
  <2>1. pinner.current \in SUBSET Models /\ pinner.revision \in Nat
    BY DEF FleetTypeOK, Pinner
  <2> QED  BY <1>9, <1>2, <2>1 DEF RecordPush, RevisionPushed, FleetTypeOK, placeVars
<1> QED
  BY <1>1, <1>3, <1>4, <1>5, <1>6, <1>7, <1>8, <1>9, OthersQuiet DEF PoolNext, Pinning

----------------------------------------------------------------------------
(* The composition implements ConfigFanout.                                *)

\* Every step of the pool is a step of ConfigFanout or leaves it unchanged.
LEMMA PoolStep == FleetTypeOK /\ [PoolNext]_allVars => [Next]_vars
<1> SUFFICES ASSUME FleetTypeOK, [PoolNext]_allVars PROVE [Next]_vars
  OBVIOUS
<1>1. CASE FanoutStep
  BY <1>1 DEF FanoutStep, Next
<1>2. CASE Scheduling
  BY <1>2 DEF Scheduling, Enqueue, FlushBatch
<1>3. CASE Calls
  <2>1. PICK x \in Executors :
          \/ AcceptWork(x) \/ RunOnChild(x) \/ RefuseWork(x)
          \/ \E ok \in BOOLEAN : ReturnFromChild(x, ok)
          \/ EnsureModelReady(x) \/ EnsureReturns(x) \/ ClearFailed(x)
    BY <1>3 DEF Calls
  <2>2. CASE AcceptWork(x) \/ RefuseWork(x) \/ EnsureModelReady(x) \/ ClearFailed(x)
    BY <2>2 DEF AcceptWork, RefuseWork, EnsureModelReady, ClearFailed
  <2>3. CASE RunOnChild(x)
    BY <2>3 DEF RunOnChild, Next, Batches
  <2>4. CASE \E ok \in BOOLEAN : ReturnFromChild(x, ok)
    BY <2>4 DEF ReturnFromChild, Next, Batches
  <2>5. CASE EnsureReturns(x)
    <3>1. task[x].child \in Children
      BY <2>5 DEF EnsureReturns, FleetTypeOK, TaskOK
    <3> QED  BY <2>5, <3>1 DEF EnsureReturns, Next, Probes
  <2> QED  BY <2>1, <2>2, <2>3, <2>4, <2>5
<1>4. CASE Pinning
  <2>1. CASE PushPins
    BY <2>1 DEF PushPins, Next, Probes
  <2>2. CASE PushFails
    BY <2>2 DEF PushFails, Next, Probes
  <2>3. CASE GatewayRepins \/ RefreshPins \/ UpdatePinnedSet \/ PlacePin \/ RecordPush
    BY <2>3 DEF GatewayRepins, RefreshPins, UpdatePinnedSet, PlacePin, RecordPush
  <2> QED  BY <1>4, <2>1, <2>2, <2>3 DEF Pinning
<1>5. CASE \E c \in Children : RestartWithBaselinePins(c)
  BY <1>5 DEF RestartWithBaselinePins, Next
<1>6. CASE UNCHANGED allVars
  BY <1>6 DEF allVars
<1> QED  BY <1>1, <1>2, <1>3, <1>4, <1>5, <1>6 DEF PoolNext

\* With placement, scheduler and pins at work the pool still behaves as
\* ConfigFanout says; every theorem about ConfigFanout's Spec carries over.
THEOREM PoolImplementsFanout == PoolSpec => Spec
<1>1. PoolInit => Init
  BY DEF PoolInit
<1> QED  BY <1>1, PoolStep, InitFleetType, NextFleetType, PTL DEF PoolSpec, Spec

----------------------------------------------------------------------------
(* Pins do not drift.                                                      *)

Unrestarted == "restart" \notin faulty

\* What the last successful push put in force, as long as its revision stands.
InForce ==
  lastRevision = pinRevision =>
    \A pins \in lastPushed :
      /\ pinned = pins
      /\ \A m \in pins : placements[m] # NoChild
      /\ Unrestarted => \A c \in Children : childPins[c] = {m \in pins : placements[m] = c}

\* A refresh only starts if the last push is out of date, and the update of
\* the set makes it so for good.
OutOfDate ==
  /\ pinner.pc = "update" /\ lastRevision = pinRevision => pinner.current \notin lastPushed
  /\ pinner.pc = "place" => lastPushed = {} \/ lastRevision < pinRevision

\* A refresh starts with nothing placed and no child pushed to.
Fresh ==
  pinner.pc = "update" => pinner.next = 1 /\ \A c \in Children : pinner.byChild[c] = {}

\* The refresh under way: the models it has placed are where it has put them
\* while its revision stands, and the children before the next one have taken
\* its pins.
Underway ==
  pinner.pc = "place" =>
    /\ pinned = pinner.current /\ pinner.todo \subseteq pinner.current
    /\ pinner.revision = pinRevision =>
         \A m \in pinner.current \ pinner.todo : placements[m] # NoChild
    /\ pinner.revision = pinRevision =>
         \A c \in Children : pinner.byChild[c] =
           {m \in pinner.current \ pinner.todo : placements[m] = c}
    /\ pinner.next > 1 => pinner.todo = {}
    /\ Unrestarted => \A c \in Children : c < pinner.next => childPins[c] = pinner.byChild[c]

\* PinsInForce says nothing of a refresh under way, nor of the revision that
\* the next push will record: this invariant does.
PinInv ==
  /\ FleetTypeOK
  /\ lastRevision <= pinRevision
  /\ pinner.pc # "idle" => pinner.revision <= pinRevision
  /\ \A p, q \in lastPushed : p = q
  /\ InForce /\ OutOfDate /\ Fresh /\ Underway

\* A restart is remembered.
LEMMA RestartRemembered == [Next]_vars => (Unrestarted' => Unrestarted)
<1> SUFFICES ASSUME [Next]_vars, "restart" \in faulty PROVE "restart" \in faulty'
  BY DEF Unrestarted
<1>1. CASE Fanout
  BY <1>1 DEF Fanout, LockApply, BeginConfigFanout, HideChildren, ChildApplies,
              ChildFails, FanoutErrored, FanoutRejected, ClearQuarantine,
              RevealChildren, RetryFanout, VerifyHash
<1>2. CASE Batches \/ Probes
  BY <1>2 DEF Batches, StartBatch, FinishBatch, Probes, ProbeSucceeds, ProbeStores,
              ProbeRechecks, ProbeUndoes, ProbeFails
<1>3. CASE Heartbeat
  BY <1>3 DEF Heartbeat, HeartbeatPings, HeartbeatChecks, HeartbeatAdopts
<1>4. CASE (\E c \in Children : RestartChild(c)) \/ UNCHANGED vars
  BY <1>4 DEF RestartChild, vars
<1> QED  BY <1>1, <1>2, <1>3, <1>4 DEF Next

\* Whatever other calls do, what the reconciler knows stays true.
LEMMA QuietKeepsPins ==
  ASSUME PinInv, FleetTypeOK', QuietStep, Unrestarted' => Unrestarted
  PROVE  PinInv'
<1> USE DEF PinInv
<1>1. /\ UNCHANGED <<pinned, desired, pinner, lastPushed, lastRevision>>
      /\ Unrestarted' => childPins' = childPins
  BY DEF QuietStep, Unrestarted
<1>2. pinRevision \in Nat /\ pinRevision' \in Nat /\ pinRevision' >= pinRevision
      /\ lastRevision \in Nat /\ pinner.revision \in Nat
  BY DEF FleetTypeOK, Pinner, QuietStep, PlacementStep
<1>3. pinRevision' = pinRevision => \A m \in pinned : placements'[m] = placements[m]
  BY DEF QuietStep, PlacementStep
<1>4. InForce'
  <2> SUFFICES ASSUME lastRevision = pinRevision', NEW pins \in lastPushed
               PROVE  /\ pinned = pins
                      /\ \A m \in pins : placements'[m] # NoChild
                      /\ Unrestarted' => \A c \in Children :
                           childPins'[c] = {m \in pins : placements'[m] = c}
    BY <1>1 DEF InForce
  <2>1. pinRevision' = pinRevision
    BY <1>2
  <2>2. \A m \in pins : placements'[m] = placements[m]
    BY <1>3, <2>1 DEF InForce
  <2> QED  BY <1>1, <2>1, <2>2 DEF InForce
<1>5. OutOfDate'
  BY <1>1, <1>2 DEF OutOfDate
<1>6. Underway'
  <2> SUFFICES ASSUME pinner.pc = "place"
               PROVE  Underway'
    BY <1>1 DEF Underway
  <2>1. ASSUME pinner.revision = pinRevision'
        PROVE  /\ pinner.revision = pinRevision
               /\ \A m \in pinner.current : placements'[m] = placements[m]
    BY <1>2, <1>3, <2>1 DEF Underway
  <2> QED  BY <1>1, <2>1 DEF Underway
<1>7. Fresh'
  BY <1>1 DEF Fresh
<1> QED  BY <1>1, <1>2, <1>4, <1>5, <1>6, <1>7

\* The reconciler's own steps.
LEMMA PinningKeepsPins ==
  ASSUME PinInv, FleetTypeOK', Pinning, Unrestarted' => Unrestarted
  PROVE  PinInv'
<1> USE DEF PinInv
<1>1. /\ pinRevision \in Nat /\ lastRevision \in Nat
      /\ pinner \in Pinner /\ pinner.revision \in Nat
      /\ placements \in Placement /\ childPins \in [Children -> SUBSET Models]
      /\ Resting \in Pinner /\ Resting.pc = "idle"
  BY ChildrenAssumption DEF FleetTypeOK, Pinner, Resting
<1>2. CASE GatewayRepins
  BY <1>2 DEF GatewayRepins, placeVars, vars, InForce, OutOfDate, Fresh, Underway, Unrestarted
<1>3. CASE RefreshPins
  <2>1. /\ pinner'.pc = "update" /\ pinner'.current = desired /\ pinner'.revision = pinRevision
        /\ pinner'.next = 1 /\ \A c \in Children : pinner'.byChild[c] = {}
    BY <1>3 DEF RefreshPins, Resting
  <2>2. UNCHANGED <<placements, pinRevision, pinned, lastPushed, lastRevision, childPins, faulty>>
    BY <1>3 DEF RefreshPins, placeVars, vars
  <2>3. lastRevision = pinRevision => desired \notin lastPushed
    BY <1>3 DEF RefreshPins
  <2> QED  BY <1>1, <2>1, <2>2, <2>3 DEF InForce, OutOfDate, Fresh, Underway, Unrestarted
<1>4. CASE UpdatePinnedSet
  <2>1. /\ pinner.pc = "update" /\ pinned' = pinner.current
        /\ UNCHANGED <<placements, lastPushed, lastRevision, childPins, faulty>>
    BY <1>4 DEF UpdatePinnedSet, vars
  <2>2. /\ pinRevision' \in Nat /\ pinRevision' >= pinRevision
        /\ pinRevision' = pinRevision => pinned' = pinned
    BY <1>1, <1>4 DEF UpdatePinnedSet
  <2>3. /\ pinner'.pc = "place" /\ pinner'.current = pinner.current
        /\ pinner'.todo = pinner.current /\ pinner'.revision = pinner.revision
        /\ pinner'.next = pinner.next /\ pinner'.byChild = pinner.byChild
    BY <1>1, <1>4 DEF UpdatePinnedSet, Pinner
  <2>4. InForce'
    BY <1>1, <2>1, <2>2 DEF InForce, Unrestarted
  <2>5. lastPushed = {} \/ lastRevision < pinRevision'
    BY <1>1, <2>1, <2>2 DEF InForce, OutOfDate
  <2>6. Underway'
    BY <1>1, <2>1, <2>3 DEF Fresh, Underway, Children
  <2> QED  BY <1>1, <2>1, <2>2, <2>3, <2>4, <2>5, <2>6 DEF OutOfDate, Fresh
<1>5. CASE PlacePin
  <2>1. PICK m \in pinner.todo, c \in Children :
          /\ ChildForModel(m, c)
          /\ pinner' = [pinner EXCEPT !.todo = @ \ {m}, !.byChild[c] = @ \cup {m}]
    BY <1>5 DEF PlacePin
  <2>2. /\ pinner.pc = "place" /\ m \in Models /\ m \in pinned
        /\ UNCHANGED <<pinned, lastPushed, lastRevision, childPins, faulty>>
    BY <1>1, <1>5 DEF PlacePin, Underway, Pinner, vars
  <2>3. /\ PlacementStep /\ placements'[m] = c
        /\ pinRevision' = pinRevision => Stays(m)
    BY <2>1, <2>2, ChildForModelStep
  <2>4. /\ pinner'.pc = "place" /\ pinner'.current = pinner.current
        /\ pinner'.todo = pinner.todo \ {m} /\ pinner'.revision = pinner.revision
        /\ pinner'.next = pinner.next
        /\ \A d \in Children :
             pinner'.byChild[d] = IF d = c THEN pinner.byChild[d] \cup {m} ELSE pinner.byChild[d]
    <3> DEFINE B == [pinner.byChild EXCEPT ![c] = @ \cup {m}]
    <3>1. pinner' = [pinner EXCEPT !.todo = @ \ {m}, !.byChild = B]
      BY <1>1, <2>1 DEF Pinner
    <3>2. \A d \in Children :
            B[d] = IF d = c THEN pinner.byChild[d] \cup {m} ELSE pinner.byChild[d]
      BY <1>1 DEF Pinner
    <3> HIDE DEF B
    <3> QED  BY <1>1, <2>2, <3>1, <3>2 DEF Pinner
  <2>5. /\ pinRevision' \in Nat /\ pinRevision' >= pinRevision
        /\ pinRevision' = pinRevision => \A n \in pinned : placements'[n] = placements[n]
    BY <2>3 DEF PlacementStep
  <2>6. InForce'
    BY <1>1, <2>2, <2>5 DEF InForce, OutOfDate
  <2>7. pinner.next = 1
    BY <1>1, <2>2 DEF Underway, Pinner
  <2>8. ASSUME pinner.revision = pinRevision'
        PROVE  /\ pinner.revision = pinRevision
               /\ \A n \in pinner.current : placements'[n] = placements[n]
    BY <1>1, <2>2, <2>5, <2>8 DEF Underway
  <2>9. Underway'
    <3>1. pinned' = pinner'.current /\ pinner'.todo \subseteq pinner'.current
      BY <2>2, <2>4 DEF Underway
    <3>2. pinner'.current \ pinner'.todo = (pinner.current \ pinner.todo) \cup {m}
      BY <2>2, <2>4 DEF Underway
    <3>3. ASSUME pinner.revision = pinRevision', NEW n \in pinner'.current \ pinner'.todo
          PROVE  placements'[n] # NoChild
      BY <2>2, <2>3, <2>8, <3>2, <3>3 DEF Underway, NoChild, Children
    <3>4. ASSUME pinner.revision = pinRevision', NEW d \in Children
          PROVE  pinner'.byChild[d] =
                   {n \in pinner'.current \ pinner'.todo : placements'[n] = d}
      <4>1. \A n \in pinner.current : placements'[n] = placements[n]
        BY <2>8, <3>4
      <4>2. pinner.byChild[d] = {n \in pinner.current \ pinner.todo : placements[n] = d}
        BY <2>2, <2>8, <3>4 DEF Underway
      <4>3. pinner'.byChild[d] = IF d = c THEN pinner.byChild[d] \cup {m} ELSE pinner.byChild[d]
        BY <2>4
      <4> QED  BY <2>2, <2>3, <3>2, <4>1, <4>2, <4>3 DEF Underway
    <3> QED  BY <2>2, <2>4, <2>7, <3>1, <3>3, <3>4 DEF Underway, Children
  <2> QED  BY <1>1, <2>2, <2>4, <2>5, <2>6, <2>9 DEF OutOfDate, Fresh
<1>6. CASE PushPins
  <2>1. /\ pinner.pc = "place" /\ pinner.todo = {} /\ pinner.next \in Children
        /\ childPins' = [childPins EXCEPT ![pinner.next] = pinner.byChild[pinner.next]]
        /\ UNCHANGED <<placements, pinRevision, pinned, lastPushed, lastRevision, faulty>>
    BY <1>6 DEF PushPins, ProbeSucceeds, placeVars
  <2>2. /\ pinner'.pc = "place" /\ pinner'.current = pinner.current
        /\ pinner'.todo = pinner.todo /\ pinner'.revision = pinner.revision
        /\ pinner'.byChild = pinner.byChild /\ pinner'.next = pinner.next + 1
    BY <1>1, <1>6 DEF PushPins, Pinner
  <2>3. InForce' /\ OutOfDate'
    BY <1>1, <2>1, <2>2 DEF InForce, OutOfDate
  <2>4. ASSUME Unrestarted', NEW c \in Children, c < pinner.next + 1
        PROVE  childPins'[c] = pinner.byChild[c]
    <3>1. c = pinner.next \/ c < pinner.next
      BY <2>1, <2>4, ChildrenAssumption DEF Children
    <3>2. c # pinner.next => childPins'[c] = childPins[c]
      BY <1>1, <2>1
    <3>3. c = pinner.next => childPins'[c] = pinner.byChild[c]
      BY <1>1, <2>1
    <3> QED  BY <2>1, <2>4, <3>1, <3>2, <3>3 DEF Underway
  <2>5. Underway'
    BY <2>1, <2>2, <2>4 DEF Underway
  <2> QED  BY <1>1, <2>1, <2>2, <2>3, <2>5 DEF Fresh
<1>7. CASE PushFails
  <2>1. /\ pinner.pc = "place" /\ pinner' = Resting
        /\ UNCHANGED <<placements, pinRevision, pinned, lastPushed, lastRevision, faulty>>
    BY <1>7 DEF PushFails, ProbeFails, placeVars
  <2> QED  BY <1>1, <2>1 DEF InForce, OutOfDate, Fresh, Underway
<1>8. CASE RecordPush
  <2>1. /\ pinner.pc = "place" /\ pinner.todo = {} /\ pinner.next = NumChildren + 1
        /\ lastPushed' = {pinner.current} /\ lastRevision' = pinner.revision
        /\ pinner' = Resting
        /\ UNCHANGED <<placements, pinRevision, pinned, childPins, faulty>>
    BY <1>8 DEF RecordPush, RevisionPushed, placeVars, vars
  <2>2. \A c \in Children : c < pinner.next
    BY <2>1, ChildrenAssumption DEF Children
  <2>3. pinner.current \ pinner.todo = pinner.current
    BY <2>1
  <2>4. InForce'
    BY <2>1, <2>2, <2>3 DEF InForce, Underway, Unrestarted
  <2> QED  BY <1>1, <2>1, <2>4 DEF OutOfDate, Fresh, Underway
<1> QED  BY <1>2, <1>3, <1>4, <1>5, <1>6, <1>7, <1>8 DEF Pinning

\* When the reconciler has nothing left to push, each child pins exactly the
\* pinned models it serves (set_pinned_models, child_for_model and
\* clear_model_if_on_child in any order, with failed pushes in between).
THEOREM PinsHold == PoolSpec => []PinsInForce
<1>1. PoolInit => PinInv
  <2> SUFFICES ASSUME PoolInit PROVE PinInv
    OBVIOUS
  <2>1. FleetTypeOK
    BY InitFleetType
  <2>2. pinner.pc = "idle"
    BY DEF PoolInit, Resting
  <2> QED  BY <2>1, <2>2 DEF PoolInit, PinInv, InForce, OutOfDate, Fresh, Underway
<1>2. PinInv /\ [PoolNext]_allVars => PinInv'
  <2> SUFFICES ASSUME PinInv, [PoolNext]_allVars PROVE PinInv'
    OBVIOUS
  <2>1. FleetTypeOK /\ FleetTypeOK'
    BY NextFleetType DEF PinInv
  <2>2. Unrestarted' => Unrestarted
    BY <2>1, PoolStep, RestartRemembered
  <2>3. CASE Pinning
    BY <2>1, <2>2, <2>3, PinningKeepsPins
  <2>4. CASE ~Pinning
    BY <2>1, <2>2, <2>4, OthersQuiet, QuietKeepsPins DEF PoolNext
  <2> QED  BY <2>3, <2>4
<1>3. PinInv => PinsInForce
  BY DEF PinInv, InForce, PinsInForce, Unrestarted
<1> QED  BY <1>1, <1>2, <1>3, PTL DEF PoolSpec
=============================================================================
