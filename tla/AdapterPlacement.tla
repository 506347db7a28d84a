-------------------------- MODULE AdapterPlacement --------------------------
(***************************************************************************)
(* The rest of AdapterWorkerPool: which child serves which model, how much *)
(* work each child has (the figures choose_child_index balances), and the  *)
(* pinned models that the PinnedReconciler copies from the gateway to the  *)
(* children.  Placement reads the ready flags that the config fan-out, the *)
(* probes and the calls of ConfigFanout write; the calls modelled here     *)
(* (batches, generations, EnsureModelReady, pinned-set pushes) are those   *)
(* which ConfigFanout has as batches and health successes.                 *)
(*                                                                         *)
(* child_for_model runs under the placements lock and is one step; it      *)
(* reads the ready flags as one snapshot.                                  *)
(***************************************************************************)
EXTENDS ConfigFanout, FiniteSetsExt

CONSTANTS Items, NoItem,     \* scheduler items, an item that is not queued
          Costs,             \* what an item may cost
          PinBaseline,       \* SIE_PINNED_MODELS of the deployment
          MaxRevision        \* bound on the assignment revisions explored

ASSUME PlacementAssumption == PinBaseline \subseteq Models
ASSUME LoadAssumption == Costs \subseteq Nat /\ MaxRevision \in Nat

NoChild == 0   \* "not placed"

VARIABLES
  placements,    \* model -> child, or NoChild
  models,        \* child -> AdapterWorkerChild.models
  pendingItems,  \* child -> pending_items
  pendingCost,   \* child -> pending_cost
  inflight,      \* child -> inflight_batches
  item,          \* item -> its SchedulerMeta while it is queued
  task,          \* dispatcher task -> the call it makes for a model
  pinned,        \* pinned_models
  pinRevision,   \* pinned_assignment_revision
  desired,       \* the pins the gateway's pools assign to this worker
  pinner,        \* the PinnedReconciler's refresh
  lastPushed,    \* last_pushed: at most one set of models
  lastRevision,  \* last_pushed_assignment_revision
  childPins      \* child -> the pinned models of that Python process

loadVars == <<pendingItems, pendingCost, inflight, item>>
placeVars == <<placements, models, pinRevision>>
pinVars == <<pinned, desired, pinner, lastPushed, lastRevision, childPins>>
fleetVars == <<placeVars, loadVars, task, pinVars>>
allVars == <<vars, fleetVars>>

\* A task is free, holds a formed batch or a generation, runs it on a child,
\* waits for EnsureModelReady, or has a placement to clear after a failure.
Free == [step |-> "free", model |-> NoItem, child |-> NoChild]
At(step, m, c) == [step |-> step, model |-> m, child |-> c]

Resting == [pc |-> "idle", current |-> {}, revision |-> 0, todo |-> {},
            byChild |-> [c \in Children |-> {}], next |-> 1]

PoolInit ==
  /\ Init
  /\ placements = [m \in Models |-> NoChild]
  /\ models = [c \in Children |-> {}]
  /\ pendingItems = [c \in Children |-> 0]
  /\ pendingCost = [c \in Children |-> 0]
  /\ inflight = [c \in Children |-> 0]
  /\ item = [i \in Items |-> NoItem]
  /\ task = [x \in Executors |-> Free]
  /\ pinned = {} /\ pinRevision = 0
  /\ desired \in SUBSET Models
  /\ pinner = Resting
  /\ lastPushed = {} /\ lastRevision = 0
  /\ childPins = [c \in Children |-> PinBaseline]

----------------------------------------------------------------------------
(* Placement.                                                              *)

\* choose_child_index compares the children by this tuple, least first.  The
\* unready penalty comes before it: only Placeable children are compared.
Load(c) == <<Cardinality(models[c]), pendingCost[c], pendingItems[c], inflight[c], c>>

Precedes(c, d) ==
  \E k \in 1..5 : /\ Load(c)[k] < Load(d)[k]
                  /\ \A j \in 1..(k - 1) : Load(c)[j] = Load(d)[j]

LeastLoaded == {c \in Placeable : \A d \in Placeable \ {c} : Precedes(c, d)}

\* A placed model stays where it is while that child is ready, or none is.
Stays(m) == placements[m] \in Placeable

\* mark_pinned_assignment_changed_if_needed
Bump(m) == IF m \in pinned THEN 1 ELSE 0

\* child_for_model returns c: the removal from an unready child and the new
\* placement each count as a change of the pinned assignment.
ChildForModel(m, c) ==
  /\ c \in IF Stays(m) THEN {placements[m]} ELSE LeastLoaded
  /\ placements' = [placements EXCEPT ![m] = c]
  /\ models' = [d \in Children |-> IF d = c THEN models[d] \cup {m}
                                   ELSE IF d = placements[m] THEN models[d] \ {m}
                                   ELSE models[d]]
  /\ pinRevision' = IF Stays(m) THEN pinRevision
                    ELSE IF placements[m] = NoChild THEN pinRevision + Bump(m)
                    ELSE pinRevision + 2 * Bump(m)
  /\ pinRevision' <= MaxRevision

\* clear_model_if_on_child: only if nobody has moved the model since.
ClearModelIfOnChild(m, c) ==
  IF placements[m] = c
    THEN /\ placements' = [placements EXCEPT ![m] = NoChild]
         /\ models' = [models EXCEPT ![c] = @ \ {m}]
         /\ pinRevision' = pinRevision + Bump(m)
         /\ pinRevision' <= MaxRevision
    ELSE UNCHANGED placeVars

----------------------------------------------------------------------------
(* Scheduler items and the pressure they put on a child.                   *)

\* record_model_pending_enqueue: the item remembers the child it was charged
\* to.
Enqueue(i) ==
  /\ item[i] = NoItem
  /\ \E m \in Models, c \in Children, cost \in Costs :
       /\ ChildForModel(m, c)
       /\ item' = [item EXCEPT ![i] = [model |-> m, child |-> c, cost |-> cost]]
       /\ pendingItems' = [pendingItems EXCEPT ![c] = @ + 1]
       /\ pendingCost' = [pendingCost EXCEPT ![c] = @ + cost]
  /\ UNCHANGED <<vars, inflight, task, pinVars>>

CostOf(I) == MapThenSumSet(LAMBDA i : item[i].cost, I)

\* atomic_add_floor_zero
FloorZero(n) == IF n < 0 THEN 0 ELSE n

\* Mutant of ChargedTo: off the child the model is placed on now.
ChargedToPlacement(c, I) == {i \in I : placements[item[i].model] = c}

\* worker_child_index: the items of I charged to child c.
ChargedTo(c, I) == {i \in I : item[i].child = c}

\* release_scheduler_pressure: each item off the child it was charged to.
Release(I) ==
  /\ pendingItems' = [c \in Children |->
                        FloorZero(pendingItems[c] - Cardinality(ChargedTo(c, I)))]
  /\ pendingCost' = [c \in Children |->
                       FloorZero(pendingCost[c] - CostOf(ChargedTo(c, I)))]

\* process_scheduler_batch takes the items of a flushed batch: they are off
\* the books before the task waits for the barrier.  If every item turns out
\* to be cancelled there is nothing left to run.
FlushBatch(x) ==
  /\ task[x] = Free
  /\ \E m \in Models, I \in SUBSET Items \ {{}} :
       /\ \A i \in I : item[i] # NoItem /\ item[i].model = m
       /\ Release(I)
       /\ item' = [i \in Items |-> IF i \in I THEN NoItem ELSE item[i]]
       /\ \E t \in {Free, At("batch", m, NoChild)} : task' = [task EXCEPT ![x] = t]
  /\ UNCHANGED <<vars, placeVars, inflight, pinVars>>

----------------------------------------------------------------------------
(* Calls to a child.                                                       *)

\* A generation, or a batch of the handlers that bypass the scheduler.
AcceptWork(x) ==
  /\ task[x] = Free
  /\ \E m \in Models, kind \in {"batch", "generate"} :
       task' = [task EXCEPT ![x] = At(kind, m, NoChild)]
  /\ UNCHANGED <<vars, placeVars, loadVars, pinVars>>

\* The batch or generation gets the barrier and starts on the model's child.
RunOnChild(x) ==
  /\ task[x].step \in {"batch", "generate"}
  /\ \E c \in Placeable :
       /\ ChildForModel(task[x].model, c)
       /\ StartBatch(x, c)
       /\ task' = [task EXCEPT ![x] = At("running", task[x].model, c)]
       /\ inflight' = [inflight EXCEPT ![c] = @ + 1]
  /\ UNCHANGED <<pendingItems, pendingCost, item, pinVars>>

\* Refused while the pool is quarantined, a batch after child_for_model, a
\* generation before; or because the config hash has changed.
RefuseWork(x) ==
  /\ task[x].step \in {"batch", "generate"}
  /\ wpc = "idle"
  /\ \/ UNCHANGED placeVars
     \/ /\ quarantined /\ task[x].step = "batch"
        /\ \E c \in Children : ChildForModel(task[x].model, c)
  /\ task' = [task EXCEPT ![x] = Free]
  /\ UNCHANGED <<vars, loadVars, pinVars>>

\* The call returns; after a failure the child is not ready any more, and the
\* placement of the model is cleared next.  (A generation leaves the count of
\* calls in flight only when that is done.)
ReturnFromChild(x, ok) ==
  /\ task[x].step = "running"
  /\ FinishBatch(x, ok)
  /\ inflight' = [inflight EXCEPT ![task[x].child] = @ - 1]
  /\ task' = [task EXCEPT ![x] = IF ok THEN Free
                                         ELSE At("clear", task[x].model, task[x].child)]
  /\ UNCHANGED <<placeVars, pendingItems, pendingCost, item, pinVars>>

\* ensure_model_ready_on_placed_child takes no barrier; while the pool is
\* quarantined it is refused.
EnsureModelReady(x) ==
  /\ task[x] = Free /\ ~quarantined
  /\ \E m \in Models, c \in Children :
       /\ ChildForModel(m, c)
       /\ task' = [task EXCEPT ![x] = At("ensure", m, c)]
  /\ UNCHANGED <<vars, loadVars, pinVars>>

EnsureReturns(x) ==
  /\ task[x].step = "ensure"
  /\ \/ /\ ProbeSucceeds(task[x].child)
        /\ task' = [task EXCEPT ![x] = Free]
     \/ /\ ProbeFails(task[x].child)
        /\ task' = [task EXCEPT ![x] = At("clear", task[x].model, task[x].child)]
  /\ UNCHANGED <<placeVars, loadVars, pinVars>>

ClearFailed(x) ==
  /\ task[x].step = "clear"
  /\ ClearModelIfOnChild(task[x].model, task[x].child)
  /\ task' = [task EXCEPT ![x] = Free]
  /\ UNCHANGED <<vars, loadVars, pinVars>>

----------------------------------------------------------------------------
(* Pinned models.                                                          *)

\* The gateway's pools assign other pins to this worker.
GatewayRepins ==
  /\ desired' \in SUBSET Models \ {desired}
  /\ UNCHANGED <<vars, placeVars, loadVars, task, pinned, pinner, lastPushed,
                 lastRevision, childPins>>

\* refresh fetches the pools, reads the revision and compares both with the
\* last successful push.  A failed fetch changes nothing.
RefreshPins ==
  /\ pinner.pc = "idle"
  /\ lastPushed # {desired} \/ pinRevision # lastRevision
  /\ pinner' = [Resting EXCEPT !.pc = "update", !.current = desired,
                               !.revision = pinRevision]
  /\ UNCHANGED <<vars, placeVars, loadVars, task, pinned, desired, lastPushed,
                 lastRevision, childPins>>

\* update_pinned_model_set
UpdatePinnedSet ==
  /\ pinner.pc = "update"
  /\ pinned' = pinner.current
  /\ pinRevision' = IF pinned # pinner.current THEN pinRevision + 1 ELSE pinRevision
  /\ pinRevision' <= MaxRevision
  /\ pinner' = [pinner EXCEPT !.pc = "place", !.todo = pinner.current]
  /\ UNCHANGED <<vars, placements, models, loadVars, task, desired, lastPushed,
                 lastRevision, childPins>>

\* pinned_models_by_child: one model at a time, each under the lock.
PlacePin ==
  /\ pinner.pc = "place"
  /\ \E m \in pinner.todo, c \in Children :
       /\ ChildForModel(m, c)
       /\ pinner' = [pinner EXCEPT !.todo = @ \ {m}, !.byChild[c] = @ \cup {m}]
  /\ UNCHANGED <<vars, loadVars, task, pinned, desired, lastPushed,
                 lastRevision, childPins>>

\* set_pinned_models pushes to one child after the other ...
PushPins ==
  /\ pinner.pc = "place" /\ pinner.todo = {} /\ pinner.next \in Children
  /\ childPins' = [childPins EXCEPT ![pinner.next] = pinner.byChild[pinner.next]]
  /\ ProbeSucceeds(pinner.next)
  /\ pinner' = [pinner EXCEPT !.next = @ + 1]
  /\ UNCHANGED <<placeVars, loadVars, task, pinned, desired, lastPushed,
                 lastRevision>>

\* ... and gives up at the first failure, whether or not the child has taken
\* its pins.
PushFails ==
  /\ pinner.pc = "place" /\ pinner.todo = {} /\ pinner.next \in Children
  /\ \E pins \in {childPins[pinner.next], pinner.byChild[pinner.next]} :
       childPins' = [childPins EXCEPT ![pinner.next] = pins]
  /\ ProbeFails(pinner.next)
  /\ pinner' = Resting
  /\ UNCHANGED <<placeVars, loadVars, task, pinned, desired, lastPushed,
                 lastRevision>>

\* Mutant of RevisionPushed: the revision is read after the push.
RevisionPushedLate == pinRevision

\* The revision that goes with the push: read before it.
RevisionPushed == pinner.revision

RecordPush ==
  /\ pinner.pc = "place" /\ pinner.todo = {} /\ pinner.next = NumChildren + 1
  /\ lastPushed' = {pinner.current}
  /\ lastRevision' = RevisionPushed
  /\ pinner' = Resting
  /\ UNCHANGED <<vars, placeVars, loadVars, task, pinned, desired, childPins>>

----------------------------------------------------------------------------
(* The other steps of ConfigFanout.                                        *)

\* Whatever a child answers to a config request, a probe or a ping leaves the
\* placements alone.
FanoutStep ==
  /\ Fanout \/ Probes \/ Heartbeat
  /\ UNCHANGED fleetVars

RestartWithBaselinePins(c) ==
  /\ RestartChild(c)
  /\ childPins' = [childPins EXCEPT ![c] = PinBaseline]
  /\ UNCHANGED <<placeVars, loadVars, task, pinned, desired, pinner, lastPushed,
                 lastRevision>>

Scheduling == (\E i \in Items : Enqueue(i)) \/ (\E x \in Executors : FlushBatch(x))
Calls == \E x \in Executors :
           \/ AcceptWork(x) \/ RunOnChild(x) \/ RefuseWork(x)
           \/ \E ok \in BOOLEAN : ReturnFromChild(x, ok)
           \/ EnsureModelReady(x) \/ EnsureReturns(x) \/ ClearFailed(x)
Pinning == GatewayRepins \/ RefreshPins \/ UpdatePinnedSet \/ PlacePin
           \/ PushPins \/ PushFails \/ RecordPush

PoolNext == \/ FanoutStep \/ Scheduling \/ Calls \/ Pinning
            \/ \E c \in Children : RestartWithBaselinePins(c)

PoolSpec == PoolInit /\ [][PoolNext]_allVars

----------------------------------------------------------------------------
(* Properties.                                                             *)

\* No silent drift of pins: when the reconciler has nothing left to push,
\* every pinned model is placed, and each child pins exactly the pinned models
\* it serves, whichever calls moved models and whichever pushes failed half
\* way.  A child that restarts loses its pins without the sidecar's knowing.
PinsInForce ==
  lastRevision = pinRevision /\ "restart" \notin faulty =>
    \A pins \in lastPushed :
      /\ \A m \in pins : placements[m] # NoChild
      /\ \A c \in Children : childPins[c] = {m \in pins : placements[m] = c}

Queued(c) == {i \in Items : item[i] # NoItem /\ item[i].child = c}

\* The figures that balance the children are exact: a child's models are those
\* placed on it, its pending items and cost those of the queued items charged
\* to it, although the model may have moved since, and its calls in flight
\* those that run on it.
LoadIsExact ==
  \A c \in Children :
    /\ models[c] = {m \in Models : placements[m] = c}
    /\ pendingItems[c] = Cardinality(Queued(c))
    /\ pendingCost[c] = CostOf(Queued(c))
    /\ inflight[c] = Cardinality({x \in Executors :
                                    task[x].step = "running" /\ task[x].child = c})
=============================================================================
