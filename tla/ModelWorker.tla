----------------------------- MODULE ModelWorker -----------------------------
(***************************************************************************)
(* The worker of one loaded model (core/worker/model_worker.py): requests  *)
(* are queued per LoRA, a background loop cuts batches and runs them one   *)
(* by one on the inference thread, the sidecar's pre-formed batches run    *)
(* from their own tasks, and stop() ends it all before the adapter is torn *)
(* down.  Meanwhile the registry loads and unloads LoRAs of the adapter    *)
(* (adapters/peft_lora_mixin.py), without the dispatch lock.               *)
(*                                                                         *)
(* Every coroutine runs until it awaits something; an action is what runs  *)
(* between two awaits.  Time is abstracted: a batch that may still grow    *)
(* may be cut at any moment (full, timed out, coalesced or immediate).     *)
(***************************************************************************)
EXTENDS OomRecovery, Naturals, FiniteSets, TLC

CONSTANTS Queued,      \* requests of the HTTP path
          Preformed,   \* requests of the sidecar path, one task each
          Loras,       \* the LoRAs, the base model among them
          Base,
          MaxBatchCost, MaxBatchRequests, MaxQueue,
          Workloads    \* what the requests ask for and which faults may happen

Requests == Queued \cup Preformed
Loop == "loop"

VARIABLES
  fut,       \* request -> its future, or what became of the submission
  partial,   \* request -> indices of the items that have a result
  pend,      \* LoRA -> BatchFormer._pending
  first,     \* LoRA -> BatchFormer._first_request_time, 0 when there is none
  arrived,   \* the queued requests in the order of their submission
  loop,      \* the process loop: "none", "select", "waits", "runs" or "ended"
  cut,       \* the batch the loop took and has not started, with its LoRA
  locked,    \* tasks that hold (the first) or wait for _adapter_dispatch_lock
  disp,      \* the dispatch under the lock
  active,    \* the adapter's _active_lora
  layers,    \* the LoRA whose layers its model really applies
  held,      \* its _loaded_loras
  adding,    \* load_lora: "no", "added" or, its layers turned off, "off"
  touched,   \* history: the dispatch may run under another LoRA than its own
  zombie,    \* the inference thread runs a pass whose task is gone
  orphans,   \* requests of the _in_flight registrations handed to stop()
  running,   \* _running
  closed,    \* _inference_executor.shutdown was called
  stop,      \* stop(): "no", "unwind", "join", "rejoin", "returned" or "raised"
  cancels,   \* cancellations of the task that runs this stop()
  torn,      \* the registry tore the adapter down
  lost,      \* history: requests of batches the loop cut and dropped
  world      \* what each request asks for, and the faults still to come

ask == world.ask   \* of the requests that come: items, their cost, LoRA, config, invalid ones
Cost == [r \in DOMAIN ask |-> ask[r].cost]
Config == [r \in DOMAIN ask |-> ask[r].config]
ItemsOf(r) == [i \in 1..ask[r].items |-> <<r, i>>]

queueVars == <<pend, first, arrived>>
loopVars  == <<loop, cut>>
loraVars  == <<active, layers, held, adding, touched>>
dispVars  == <<locked, disp, loraVars, zombie, orphans>>
stopVars  == <<running, closed, stop, cancels, torn>>
vars == <<fut, partial, queueVars, loopVars, dispVars, stopVars, lost, world>>

NoCut == [batch |-> <<>>, lora |-> Base]
NoDisp == [batch |-> <<>>, groups |-> <<>>, stack |-> <<>>, phase |-> "none",
           open |-> {}, drain |-> 0, lora |-> Base]
Faults == {"oom", "error", "abandon", "cancel", "stop", "hurry", "lora", "restart"}
NoBudget == [f \in Faults |-> 0]
Spend(f) == world.faults[f] > 0 /\ world' = [world EXCEPT !.faults[f] = @ - 1]

Init ==
  /\ fut = [r \in Requests |-> "none"]
  /\ partial = [r \in Requests |-> {}]
  /\ pend = [l \in Loras |-> <<>>]
  /\ first = [l \in Loras |-> 0]
  /\ arrived = <<>>
  /\ loop = "none" /\ cut = NoCut
  /\ locked = <<>> /\ disp = NoDisp /\ zombie = FALSE
  /\ orphans = {}
  /\ running = TRUE /\ closed = FALSE /\ stop = "no" /\ cancels = 0 /\ torn = FALSE
  /\ lost = {}
  /\ world \in Workloads
  /\ active = Base /\ layers = Base /\ held = world.held /\ adding = "no"
  /\ touched = FALSE

PendingCount == FoldFunction(LAMBDA q, n : Len(q) + n, 0, pend)

\* future.set_result and set_exception are only called on futures not done.
Settle(f, S, outcome) ==
  [r \in Requests |-> IF r \in S /\ f[r] = "pending" THEN outcome ELSE f[r]]

-----------------------------------------------------------------------------
(* The HTTP path.                                                          *)

\* _submit_to_batcher and BatchFormer.submit_many.
Enqueue(r) ==
  LET l == ask[r].lora IN
  /\ fut' = [fut EXCEPT ![r] = "pending"]
  /\ arrived' = Append(arrived, r)
  /\ first' = [first EXCEPT ![l] = IF @ = 0 THEN Len(arrived) + 1 ELSE @]
  /\ pend' = [pend EXCEPT ![l] = @ \o ItemsOf(r)]
  /\ loop' = IF loop = "none" THEN "select" ELSE loop

\* submit, submit_score and submit_extract.
Submit(r) ==
  /\ r \in DOMAIN ask /\ fut[r] = "none"
  /\ \/ running /\ PendingCount + ask[r].items <= MaxQueue /\ Enqueue(r)
     \/ /\ ~running \/ PendingCount + ask[r].items > MaxQueue
        /\ fut' = [fut EXCEPT ![r] = "refused"]
        /\ UNCHANGED <<queueVars, loop>>
  /\ UNCHANGED <<partial, cut, dispVars, stopVars, lost, world>>

\* The task awaiting the future is cancelled, and the future with it.
Abandon(r) ==
  /\ fut[r] = "pending" /\ Spend("abandon")
  /\ fut' = [fut EXCEPT ![r] = "cancelled"]
  /\ UNCHANGED <<partial, queueVars, loopVars, dispVars, stopVars, lost>>

\* What a queue looks like after a batch was cut from it.
CutFrom(l, maxItems) ==
  ExtractBatch(pend[l], Cost, MaxBatchCost, MaxBatchRequests, maxItems)
QueueAfter(l, rest) ==
  /\ pend' = [pend EXCEPT ![l] = rest]
  /\ first' = [first EXCEPT ![l] = IF rest = <<>> THEN 0 ELSE @]
  /\ UNCHANGED arrived

\* Mutant of Oldest: empty queues take part in the comparison.
OldestOfAll(l) == pend[l] # <<>> /\ \A k \in Loras : first[l] <= first[k]

\* _get_next_batch_fcfs: the queue that became non-empty first.
Oldest(l) ==
  /\ pend[l] # <<>>
  /\ \A k \in Loras : pend[k] = <<>> \/ first[l] <= first[k]

-----------------------------------------------------------------------------
(* Dispatching a batch.  Its task holds the lock throughout.               *)

Holder == Head(locked)

\* A group of the batch is next: its snapshot of done futures is taken.
NextGroup(d, f) ==
  [d EXCEPT !.stack = <<RunFrame(Head(d.groups))>>, !.phase = "submit",
            !.open = {r \in RequestsOf(Head(d.groups)) : f[r] = "pending"}]

\* _process_batch and the start of _dispatch_batch.
Dispatch(batch, lora, drain, f) ==
  NextGroup([NoDisp EXCEPT !.batch = batch, !.groups = GroupByConfig(batch, Config),
                           !.drain = drain, !.lora = lora], f)

\* set_active_lora raises for a LoRA the adapter does not hold, unless it holds
\* none at all: then it only warns, and the base model runs.
Refused(lora) == lora \notin {active, Base} /\ held # {} /\ lora \notin held

\* set_active_lora, which believes _active_lora.  It and load_lora may run into
\* each other: the layers are turned off between its two assignments.
SetActiveLora(lora) ==
  /\ \/ /\ IF lora = active \/ held = {} THEN UNCHANGED <<active, layers>>
           ELSE active' = lora /\ layers' = lora
        /\ UNCHANGED adding
     \/ /\ adding = "added" /\ lora # active
        /\ active' = lora /\ layers' = Base /\ adding' = "no"
  /\ touched' = (adding = "added" \/ (lora = active /\ lora # layers)
                   \/ (lora # Base /\ held = {}))
  /\ UNCHANGED held

\* set_active_lora, then the batch.
Begin(batch, lora, f) ==
  /\ ~Refused(lora)
  /\ SetActiveLora(lora)
  /\ disp' = Dispatch(batch, lora, 0, f)

\* The task that holds the lock leaves it.
Release == disp' = NoDisp /\ locked' = Tail(locked)

\* _run_handler_inference: hand the slice to the inference thread, which a
\* pool that was shut down refuses.
SubmitForward ==
  /\ disp.phase = "submit"
  /\ \/ ~closed /\ disp' = [disp EXCEPT !.phase = "forward"] /\ UNCHANGED fut
     \/ /\ closed
        /\ fut' = Settle(fut, RequestsOf(Head(disp.stack).items), "error")
        /\ disp' = [disp EXCEPT !.stack = Tail(@),
                      !.phase = IF Len(disp.stack) = 1 THEN "account" ELSE "submit"]
  /\ UNCHANGED <<partial, queueVars, loopVars, locked, loraVars, zombie, orphans,
                 stopVars, lost, world>>

Slice == Head(disp.stack).items

\* The rest of the group, or its accounting.
Resume(stack, evict) ==
  disp' = [disp EXCEPT !.stack = stack,
             !.phase = CASE evict -> "evict"
                         [] ~evict /\ stack = <<>> -> "account"
                         [] OTHER -> "submit"]
Recover(outcome, error) ==
  /\ Resume(outcome.stack, outcome.evict)
  /\ fut' = Settle(fut, RequestsOf(outcome.failed), error)

\* The forward pass ended; one task runs on the thread at a time.
Forward == disp.phase = "forward" /\ ~zombie
HasBadItem == \E i \in DOMAIN Slice : Slice[i][2] \in ask[Slice[i][1]].bad

ForwardOk ==
  /\ Forward /\ ~HasBadItem
  /\ partial' = [r \in Requests |->
       partial[r] \cup {Slice[i][2] : i \in {k \in DOMAIN Slice : Slice[k][1] = r}}]
  /\ Resume(Tail(disp.stack), FALSE)
  /\ UNCHANGED <<fut, queueVars, loopVars, locked, loraVars, zombie, orphans, stopVars,
                 lost, world>>
ForwardInvalid ==
  /\ Forward /\ HasBadItem
  /\ Recover(AfterInvalid(disp.stack), "invalid")
  /\ UNCHANGED <<partial, queueVars, loopVars, locked, loraVars, zombie, orphans,
                 stopVars, lost, world>>
ForwardOom ==
  /\ Forward /\ Spend("oom")
  /\ Recover(AfterOom(disp.stack), "exhausted")
  /\ UNCHANGED <<partial, queueVars, loopVars, locked, loraVars, zombie, orphans,
                 stopVars, lost>>
ForwardError ==
  /\ Forward /\ Spend("error")
  /\ Recover([stack |-> Tail(disp.stack), evict |-> FALSE, failed |-> Slice], "error")
  /\ UNCHANGED <<partial, queueVars, loopVars, locked, loraVars, zombie, orphans,
                 stopVars, lost>>

\* _try_evict_lru returned: retry, or go on to the next strategy.
EvictReturns(evicted) ==
  /\ disp.phase = "evict"
  /\ \/ evicted /\ Resume(disp.stack, FALSE) /\ UNCHANGED fut
     \/ ~evicted /\ Recover(AfterOom(disp.stack), "exhausted")
  /\ UNCHANGED <<partial, queueVars, loopVars, locked, loraVars, zombie, orphans,
                 stopVars, lost, world>>

\* A pass whose task is gone ends.
ZombieEnds ==
  /\ zombie /\ zombie' = FALSE
  /\ UNCHANGED <<fut, partial, queueVars, loopVars, locked, disp, loraVars, orphans,
                 stopVars, lost, world>>

-----------------------------------------------------------------------------
(* The end of a group, of a batch and of a drain.                          *)

\* The accounting asks every future of the group that was open for its
\* exception, which on a cancelled future raises.
Raises == \E r \in disp.open : fut[r] = "cancelled"

\* _complete_requests.
Completed(f) ==
  Settle(f, {r \in RequestsOf(disp.batch) : partial[r] = 1..ask[r].items}, "ok")

NextGroupStep ==
  /\ disp.phase = "account" /\ ~Raises /\ Len(disp.groups) > 1
  /\ disp' = NextGroup([disp EXCEPT !.groups = Tail(@)], fut)
  /\ UNCHANGED <<fut, partial, queueVars, loopVars, locked, loraVars, zombie, orphans,
                 stopVars, lost, world>>

BatchDone == disp.phase = "account" /\ ~Raises /\ Len(disp.groups) = 1

\* _drain_active_batcher: what was pending at entry, in batches of its own.
Backlog == IF disp.drain = 0 THEN Len(pend[disp.lora]) ELSE disp.drain - Len(disp.batch)
\* disp.drain is what was left before this batch: 0 for the one the loop cut.

LoopBatchDone ==
  /\ BatchDone /\ Holder = Loop
  /\ fut' = Completed(fut)
  /\ IF Backlog > 0
     THEN \E c \in {CutFrom(disp.lora, Backlog)} :
          /\ disp' = Dispatch(c.batch, disp.lora, Backlog, fut')
          /\ QueueAfter(disp.lora, c.rest)
          /\ UNCHANGED <<loop, locked>>
     ELSE Release /\ loop' = "select" /\ UNCHANGED queueVars
  /\ UNCHANGED <<partial, cut, loraVars, zombie, orphans, stopVars, lost, world>>

PreformedDone ==
  /\ BatchDone /\ Holder # Loop
  /\ fut' = Completed(fut) /\ Release
  /\ UNCHANGED <<partial, queueVars, loopVars, loraVars, zombie, orphans, stopVars, lost,
                 world>>

\* The CancelledError of a cancelled future ends the process loop: nothing of
\* the batch is completed, and no loop is started again.
LoopKilled ==
  /\ disp.phase = "account" /\ Raises /\ Holder = Loop
  /\ Release /\ loop' = "ended"
  /\ lost' = lost \cup RequestsOf(disp.batch)
  /\ UNCHANGED <<fut, partial, queueVars, cut, loraVars, zombie, orphans, stopVars, world>>

-----------------------------------------------------------------------------
(* The process loop.                                                       *)

\* get_batch returned; the lock is taken without an await when it is free.
CutBatch(l) ==
  /\ loop = "select" /\ stop = "no" /\ Oldest(l)
  /\ ~(locked = <<>> /\ Refused(l))
  /\ locked' = Append(locked, Loop)
  /\ \E c \in {CutFrom(l, Len(pend[l]))} :
     /\ QueueAfter(l, c.rest)
     /\ IF locked = <<>>
        THEN Begin(c.batch, l, fut) /\ loop' = "runs" /\ UNCHANGED cut
        ELSE /\ cut' = [batch |-> c.batch, lora |-> l] /\ loop' = "waits"
             /\ UNCHANGED <<disp, loraVars>>
  /\ UNCHANGED <<fut, partial, zombie, orphans, stopVars, lost, world>>

LoopGranted ==
  /\ loop = "waits" /\ stop = "no" /\ Holder = Loop
  /\ Begin(cut.batch, cut.lora, fut)
  /\ loop' = "runs" /\ cut' = NoCut
  /\ UNCHANGED <<fut, partial, queueVars, locked, zombie, orphans, stopVars, lost, world>>

\* set_active_lora raised in the loop, which logs the error and goes on: the
\* batch it cut is registered nowhere and nobody answers it.
LoopRefused ==
  /\ stop = "no"
  /\ \/ /\ loop = "select" /\ locked = <<>>
        /\ \E l \in Loras :
             /\ Oldest(l) /\ Refused(l)
             /\ \E c \in {CutFrom(l, Len(pend[l]))} :
                QueueAfter(l, c.rest) /\ lost' = lost \cup RequestsOf(c.batch)
        /\ UNCHANGED <<loopVars, locked>>
     \/ /\ loop = "waits" /\ Holder = Loop /\ Refused(cut.lora)
        /\ lost' = lost \cup RequestsOf(cut.batch)
        /\ loop' = "select" /\ cut' = NoCut /\ locked' = Tail(locked)
        /\ UNCHANGED queueVars
  /\ UNCHANGED <<fut, partial, disp, loraVars, zombie, orphans, stopVars, world>>

-----------------------------------------------------------------------------
(* The sidecar path: _submit_preformed_metadata_batch.                     *)

SubmitPreformed(p) ==
  /\ p \in DOMAIN ask /\ fut[p] = "none"
  /\ \/ /\ running /\ ~(locked = <<>> /\ Refused(ask[p].lora))
        /\ fut' = [fut EXCEPT ![p] = "pending"]
        /\ locked' = Append(locked, p)
        /\ IF locked = <<>> THEN Begin(ItemsOf(p), ask[p].lora, fut')
                            ELSE UNCHANGED <<disp, loraVars>>
     \/ /\ ~running \/ (locked = <<>> /\ Refused(ask[p].lora))
        /\ fut' = [fut EXCEPT ![p] = "refused"]
        /\ UNCHANGED <<locked, disp, loraVars>>
  /\ UNCHANGED <<partial, queueVars, loopVars, zombie, orphans, stopVars, lost, world>>

\* Mutant of PreformedGranted: the LoRA is set before the lock is waited for.
PreformedGrantedKeepingLora(p) ==
  /\ locked # <<>> /\ Holder = p /\ disp = NoDisp
  /\ disp' = Dispatch(ItemsOf(p), ask[p].lora, 0, fut)
  /\ UNCHANGED <<fut, partial, queueVars, loopVars, locked, loraVars, zombie, orphans,
                 stopVars, lost, world>>

\* The error of set_active_lora reaches the caller.
PreformedGranted(p) ==
  /\ locked # <<>> /\ Holder = p /\ disp = NoDisp
  /\ \/ Begin(ItemsOf(p), ask[p].lora, fut) /\ UNCHANGED <<fut, locked>>
     \/ /\ Refused(ask[p].lora)
        /\ fut' = [fut EXCEPT ![p] = "refused"] /\ locked' = Tail(locked)
        /\ UNCHANGED <<disp, loraVars>>
  /\ UNCHANGED <<partial, queueVars, loopVars, zombie, orphans, stopVars, lost, world>>

\* The task of a dispatch is cancelled at an await.
DispatchCancelled ==
  /\ disp.phase \in {"forward", "evict"}
  /\ zombie' = (zombie \/ disp.phase = "forward")
  /\ orphans' = IF running THEN orphans ELSE orphans \cup RequestsOf(disp.batch)
  /\ Release

\* The IPC server's drain cancels the request task.
CancelPreformed(p) ==
  /\ fut[p] = "pending" /\ Contains(locked, p) /\ Spend("cancel")
  /\ fut' = [fut EXCEPT ![p] = "cancelled"]
  /\ IF Holder = p /\ disp # NoDisp THEN DispatchCancelled
     ELSE locked' = Remove(locked, p) /\ UNCHANGED <<disp, zombie, orphans>>
  /\ UNCHANGED <<partial, queueVars, loopVars, loraVars, stopVars, lost>>

-----------------------------------------------------------------------------
(* The LoRAs of the adapter, loaded and unloaded by the registry.          *)

\* load_lora, in a thread of its own: PEFT adds the LoRA, and may turn its layers
\* on.  Bound: one load at a time.
LoraAdded(a) ==
  /\ adding = "no" /\ a \notin held \cup {Base} /\ Spend("lora")
  /\ adding' = "added" /\ held' = held \cup {a}
  /\ layers' \in {layers, a}
  /\ touched' = (touched \/ layers' # layers)
  /\ UNCHANGED <<fut, partial, queueVars, loopVars, locked, disp, active, zombie, orphans,
                 stopVars, lost>>

\* load_lora goes on: _active_lora is made invalid and the layers are turned off,
\* then it is set to None.
LoraReset ==
  /\ \/ adding = "added" /\ adding' = "off" /\ active' = "reset" /\ layers' = Base
     \/ adding = "off" /\ adding' = "no" /\ active' = Base /\ UNCHANGED layers
  /\ touched' = (touched \/ layers' # layers)
  /\ UNCHANGED <<fut, partial, queueVars, loopVars, locked, disp, held, zombie, orphans,
                 stopVars, lost, world>>

\* unload_lora, on the event loop: a LoRA that is active is made inactive first.
UnloadLora(a) ==
  /\ a \in held /\ Spend("lora")
  /\ held' = held \ {a}
  /\ active' = IF active = a THEN Base ELSE active
  /\ layers' = IF a \in {active, layers} THEN Base ELSE layers
  /\ touched' = (touched \/ layers' # layers)
  /\ UNCHANGED <<fut, partial, queueVars, loopVars, locked, disp, adding, zombie, orphans,
                 stopVars, lost>>

-----------------------------------------------------------------------------
(* stop() and the teardown after it.                                       *)

StopBegins ==
  /\ stop = "no" /\ Spend("stop")
  /\ running' = FALSE /\ stop' = "unwind" /\ cancels' = 0
  /\ UNCHANGED <<fut, partial, queueVars, loopVars, dispVars, closed, torn, lost>>

\* The cancelled process loop unwinds.
LoopUnwinds ==
  /\ stop = "unwind"
  /\ \/ loop = "select" /\ UNCHANGED <<cut, locked, disp, zombie, orphans, lost>>
     \/ /\ loop = "waits"
        /\ locked' = Remove(locked, Loop)
        /\ lost' = lost \cup RequestsOf(cut.batch) /\ cut' = NoCut
        /\ UNCHANGED <<disp, zombie, orphans>>
     \/ loop = "runs" /\ DispatchCancelled /\ UNCHANGED <<cut, lost>>
  /\ loop' = "ended"
  /\ UNCHANGED <<fut, partial, queueVars, loraVars, stopVars, world>>

\* _fail_queued_requests, then the executor takes no more work.
StopCollects ==
  /\ stop = "unwind" /\ loop \in {"none", "ended"}
  /\ fut' = Settle(fut, UNION {RequestsOf(pend[l]) : l \in Loras} \cup orphans, "drained")
  /\ pend' = [l \in Loras |-> <<>>] /\ first' = [l \in Loras |-> 0]
  /\ orphans' = {} /\ closed' = TRUE /\ stop' = "join"
  /\ UNCHANGED <<partial, arrived, loopVars, locked, disp, loraVars, zombie, running, cancels,
                 torn, lost, world>>

ThreadIdle == ~zombie /\ disp.phase # "forward"

\* _join_inference_executor.  Only the timeout of the drain is turned into a
\* TimeoutError, which _do_unload survives.
JoinEnds ==
  /\ ThreadIdle
  /\ \/ stop = "join" /\ stop' = "returned"
     \/ stop = "rejoin" /\ stop' = "raised"
     \/ stop = "rejoin" /\ cancels = 1 /\ stop' = "returned"
  /\ UNCHANGED <<fut, partial, queueVars, loopVars, dispVars, running, closed, cancels, torn,
                 lost, world>>

\* Mutant of StopHurried: the join is not shielded.
StopHurriedUnshielded ==
  /\ stop \in {"unwind", "join"} /\ Spend("hurry")
  /\ cancels' = cancels + 1
  /\ stop' = IF stop = "join" THEN "returned" ELSE stop
  /\ UNCHANGED <<fut, partial, queueVars, loopVars, dispVars, running, closed, torn, lost>>

\* The drain timeout, or a cancellation of the task that drains.  Awaiting the
\* process loop absorbs it, the join is awaited again once.
StopHurried ==
  /\ stop \in {"unwind", "join", "rejoin"} /\ Spend("hurry")
  /\ cancels' = cancels + 1
  /\ stop' = CASE stop = "unwind" -> "unwind" [] stop = "join" -> "rejoin"
               [] stop = "rejoin" -> "raised"
  /\ UNCHANGED <<fut, partial, queueVars, loopVars, dispVars, running, closed, torn, lost>>

\* _do_unload goes on to adapter.unload().
Teardown ==
  /\ stop = "returned" /\ ~torn /\ torn' = TRUE
  /\ UNCHANGED <<fut, partial, queueVars, loopVars, dispVars, running, closed, stop, cancels,
                 lost, world>>

\* A later _do_unload, after stop() raised and the model stayed: its worker does
\* not run, so it is not stopped again, and adapter.unload() follows at once.
UnloadAgain ==
  /\ stop = "raised" /\ ~torn /\ torn' = TRUE
  /\ UNCHANGED <<fut, partial, queueVars, loopVars, dispVars, running, closed, stop, cancels,
                 lost, world>>

\* start_worker of a model that stayed: the worker runs again, and the executor it
\* had takes no work.
StartAgain ==
  /\ stop = "raised" /\ ~torn /\ Spend("restart")
  /\ running' = TRUE /\ stop' = "no" /\ loop' = "none"
  /\ UNCHANGED <<fut, partial, queueVars, cut, dispVars, closed, cancels, torn, lost>>

-----------------------------------------------------------------------------
(* What runs without an await in between is not interleaved.               *)
AtAwait == disp.phase \notin {"submit", "account"}

DispatchStep ==
  SubmitForward \/ NextGroupStep \/ LoopBatchDone \/ PreformedDone \/ LoopKilled
ThreadStep ==
  \/ ForwardOk \/ ForwardInvalid \/ ForwardOom \/ ForwardError \/ ZombieEnds
  \/ \E evicted \in BOOLEAN : EvictReturns(evicted)
LoopStep ==
  AtAwait /\ ((\E l \in Loras : CutBatch(l)) \/ LoopGranted \/ LoopRefused \/ LoopUnwinds)
PreformedStep == AtAwait /\ \E p \in Preformed : PreformedGranted(p)
StopStep == AtAwait /\ (StopCollects \/ JoinEnds \/ Teardown)
Environment ==
  /\ AtAwait
  /\ \/ \E r \in Queued : Submit(r) \/ Abandon(r)
     \/ \E p \in Preformed : SubmitPreformed(p) \/ CancelPreformed(p)
     \/ StopBegins \/ StopHurried \/ UnloadAgain \/ StartAgain
     \/ \E a \in Loras : UnloadLora(a)
LoraLoad == (\E a \in Loras : LoraAdded(a)) \/ LoraReset

System == ThreadStep \/ DispatchStep \/ StopStep \/ PreformedStep \/ LoopStep
Next == System \/ LoraLoad \/ Environment

\* The event loop does not stop while a task is ready, and a forward pass and a call
\* of the registry come to an end.  Which of them goes first is left open.
Fairness == WF_vars(System)

Spec == Init /\ [][Next]_vars /\ Fairness

-----------------------------------------------------------------------------
\* The loop was ended by a cancelled future while the worker runs.
Killed == loop = "ended" /\ stop = "no"
Owed(r) == fut[r] = "pending"
Forgotten(r) == r \in lost \/ Killed

\* The LoRA that a forward pass applies is that of every item in it, whichever task
\* runs it and however their batches alternate.  The dispatch lock does not keep the
\* registry away: exempt is a batch under which a load or an unload changed the
\* layers, one whose set_active_lora a load ran into, or had left with an
\* _active_lora that is not what the layers are, and one that asks an adapter for a
\* LoRA when it holds none.
ForwardUnderItsLora ==
  disp.phase = "forward" =>
    touched \/ \A i \in DOMAIN Slice : ask[Slice[i][1]].lora = layers

\* Retrying, splitting and isolating neither repeat nor forget an item: an item
\* of the group is either still to be run, once, or it has its result, or its
\* request was failed.  No request is failed as invalid for the item of another.
RecoveryAccountsForItems ==
  /\ disp.groups # <<>> =>
       LET group == Head(disp.groups)
           todo == FoldLeft(LAMBDA acc, f : acc \o f.items, <<>>, disp.stack)
       IN  /\ IsInjective(todo)
           /\ \A i \in DOMAIN todo : todo[i][2] \notin partial[todo[i][1]]
           /\ \A i \in DOMAIN group :
                \/ Contains(todo, group[i])
                \/ group[i][2] \in partial[group[i][1]]
                \/ fut[group[i][1]] # "pending"
  /\ \A r \in Requests : fut[r] = "invalid" => ask[r].bad # {}

\* The adapter is torn down only when the inference thread is idle, and stays
\* idle: neither the drain timeout nor any other single cancellation makes the drain
\* skip the forward pass that runs.  A second one does: stop() raises, the model
\* stays, and the next unload does not stop its worker again.
NoTeardownUnderForward == torn /\ ~ThreadIdle => stop = "raised" /\ cancels >= 2

\* Every request the worker accepted is answered, and a stop of the worker, which
\* answers the last of them, comes to an end.  Not answered are the requests of a
\* batch the loop cut and then dropped, because it was stopped while it waited for
\* the dispatch lock, because the LoRA had been unloaded since, or because a future
\* of the batch was cancelled; and all those behind the last.
EveryRequestAnswered ==
  /\ \A r \in Requests : Owed(r) ~> (~Owed(r) \/ Forgotten(r))
  /\ (stop # "no") ~> (stop = "raised" \/ torn)
=============================================================================
