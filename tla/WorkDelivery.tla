---------------------------- MODULE WorkDelivery ----------------------------
(***************************************************************************)
(* The gateway side of queued encode, score and extract requests, composed *)
(* with the workers of WorkerDispatch: publishing the items of a request,  *)
(* the durability monitor, the one-shot fallback of direct dispatch to the *)
(* pool, the result collector, and the ways a request is abandoned         *)
(* (timeout, disconnect, expiry sweep).  PayloadStore has the payloads.    *)
(*                                                                         *)
(* A publish either reaches the stream in the step that issues it or never *)
(* does, and the publisher learns which when it awaits the ack; the broker *)
(* may store an item and lose its ack.  Removing the collector from        *)
(* pending_results decides all races for the end of a request.             *)
(***************************************************************************)
EXTENDS WorkerDispatch

CONSTANT Direct  \* requests sent to one worker's private subject

ASSUME RouteAssumption == Direct \subseteq Requests

VARIABLES
  handler,      \* idle, publish, fallback (direct publish failed), wait, and
                \* then what the client was told: results or failed
  published,    \* items published in this phase of the handler
  pending,      \* pending_results
  got,          \* collector.results
  channel,      \* the oneshot between collector and handler
  durable,      \* the durability monitor: pending, ok, failed, aborted
  timer,        \* the fallback task: off, armed, publish, acks, done
  batch,        \* items the fallback task took
  republished,  \* direct_fallback_republished
  confirmed,    \* direct_fallback_republished_indices
  abandoned     \* requests finish_abandoned_work has not got to yet

collector == <<pending, got, republished, confirmed>>
ending == <<channel, abandoned>>
task == <<timer, batch>>
stream == <<tries, runs, inbox, signals, worked, lost>>
gwVars == <<handler, published, durable, collector, ending, task>>
vars == <<workVars, gwVars>>

ForAll(v) == [r \in Requests |-> v]

Init ==
  /\ WorkInit
  /\ handler = ForAll("idle") /\ published = ForAll({})
  /\ pending = {} /\ got = ForAll({}) /\ channel = ForAll("open")
  /\ durable = ForAll("pending") /\ timer = ForAll("off") /\ batch = ForAll({})
  /\ republished = {} /\ confirmed = ForAll({}) /\ abandoned = {}

Publishing(r) == handler[r] \in {"publish", "fallback"}

\* The subject the handler publishes on.
Target(r) == IF r \in Direct /\ handler[r] = "publish" THEN "direct" ELSE "pool"

\* The broker stored the copies of these items.
Stored(r, S, route) == \A i \in S : at[<<r, i, route>>] # "absent"

----------------------------------------------------------------------------
(* The end of a request.                                                   *)

\* The collector goes with all it holds, if it is still there.  Whoever
\* removed it goes on to finish_abandoned_work, or does not.
Remove(r, abandon) ==
  /\ pending' = pending \ {r}
  /\ got' = [got EXCEPT ![r] = {}]
  /\ republished' = republished \ {r}
  /\ confirmed' = [confirmed EXCEPT ![r] = {}]
  /\ abandoned' = IF r \in pending /\ abandon THEN abandoned \cup {r} ELSE abandoned

\* The sender sends s, or closes the channel when it is dropped.
Send(r, s) == channel' = IF r \in pending THEN [channel EXCEPT ![r] = s] ELSE channel

\* The handler is over, and with it all it waits for.
Finish(r, a) == /\ handler' = [handler EXCEPT ![r] = a]
                /\ published' = [published EXCEPT ![r] = {}]
                /\ durable' = [durable EXCEPT ![r] = "pending"]
                /\ channel' = [channel EXCEPT ![r] = "open"]

\* It ends without results: its guard abandons the request.
GiveUp(r) == Finish(r, "failed") /\ Remove(r, TRUE)

\* publish_work_cancel reaches every sidecar.
SendCancel(r) ==
  /\ r \in abandoned /\ abandoned' = abandoned \ {r}
  /\ signals' = signals \cup {Signal("request", w, r) : w \in Workers}
  /\ UNCHANGED <<at, tries, runs, inbox, worked, lost, faults>>
  /\ UNCHANGED <<handler, published, durable, collector, channel, task>>

----------------------------------------------------------------------------
(* publish_work                                                            *)

\* The collector is in place before the first item is published.
Submit(r) ==
  /\ handler[r] = "idle"
  /\ handler' = [handler EXCEPT ![r] = "publish"]
  /\ pending' = pending \cup {r}
  /\ UNCHANGED <<workVars, published, durable, got, republished, confirmed, ending, task>>

\* Put copies in the stream; the broker may store only some of them.
Enqueue(C) ==
  \E S \in SUBSET C :
    /\ at' = [c \in Copies |-> IF c \in S THEN "queued" ELSE at[c]]
    /\ IF S = C THEN UNCHANGED faults ELSE Fault

PublishSingle(r, i) ==
  /\ Publishing(r) /\ i \notin published[r]
  /\ Enqueue({<<r, i, Target(r)>>})
  /\ published' = [published EXCEPT ![r] = @ \cup {i}]
  /\ UNCHANGED <<stream, handler, durable, collector, ending, task>>

\* A publish fails.  Direct work is published again on the pool subject;
\* otherwise publish_work returns the error and its guard cleans up.
PublishFails(r) ==
  /\ Publishing(r) /\ published[r] # Items
  /\ IF Target(r) = "direct"
     THEN /\ handler' = [handler EXCEPT ![r] = "fallback"]
          /\ published' = [published EXCEPT ![r] = {}]
          /\ UNCHANGED <<durable, collector, ending>>
     ELSE GiveUp(r)
  /\ UNCHANGED <<workVars, task>>

\* All items are published: wait, with the fallback timer armed.
Handoff(r) ==
  /\ handler[r] = "publish" /\ published[r] = Items
  /\ handler' = [handler EXCEPT ![r] = "wait"]
  /\ timer' = [timer EXCEPT ![r] = IF r \in Direct THEN "armed" ELSE "off"]
  /\ UNCHANGED <<workVars, published, durable, collector, ending, batch>>

\* mark_direct_fallback_confirmed, then batch_cancel to the direct worker.
Confirm(r, S) ==
  /\ republished' = IF r \in pending THEN republished \cup {r} ELSE republished
  /\ confirmed' = IF r \in pending THEN [confirmed EXCEPT ![r] = @ \cup S] ELSE confirmed
  /\ signals' = signals \cup {Signal("direct", DirectWorker, r)}

\* The pool copies replace a direct publish that failed, once all are durable.
FallbackHandoff(r) ==
  /\ handler[r] = "fallback" /\ published[r] = Items /\ Stored(r, Items, "pool")
  /\ Confirm(r, Items)
  /\ handler' = [handler EXCEPT ![r] = "wait"]
  /\ durable' = [durable EXCEPT ![r] = "ok"]
  /\ timer' = [timer EXCEPT ![r] = "armed"]
  /\ UNCHANGED <<at, tries, runs, inbox, worked, lost, faults>>
  /\ UNCHANGED <<published, pending, got, ending, batch>>

\* An ack of the pool publish fails or times out.
FallbackFails(r) ==
  /\ handler[r] = "fallback" /\ published[r] = Items
  /\ Finish(r, "failed") /\ Remove(r, FALSE)
  /\ IF Stored(r, Items, "pool") THEN Fault ELSE UNCHANGED faults
  /\ UNCHANGED <<at, stream, task>>

----------------------------------------------------------------------------
(* The durability monitor and the fallback task, detached from the handler.*)

InitialRoute(r) == IF r \in Direct THEN "direct" ELSE "pool"

\* The initial acks arrive, or one fails or times out.
AcksDone(r) ==
  /\ handler[r] = "wait" /\ durable[r] = "pending"
  /\ \/ /\ Stored(r, Items, InitialRoute(r))
        /\ durable' = [durable EXCEPT ![r] = "ok"] /\ UNCHANGED faults
     \/ /\ durable' = [durable EXCEPT ![r] = "failed"]
        /\ IF Stored(r, Items, InitialRoute(r)) THEN Fault ELSE UNCHANGED faults
  /\ UNCHANGED <<at, stream, handler, published, collector, ending, task>>

\* abort_pending_dispatch, after the handler was notified.
Abort(r) ==
  /\ durable[r] = "failed"
  /\ durable' = [durable EXCEPT ![r] = "aborted"]
  /\ Remove(r, FALSE) /\ Send(r, "closed")
  /\ UNCHANGED <<workVars, handler, published, task>>

Missing(r) == Items \ got[r]

\* republish_pending_result_to_pool takes the items that are still missing.
TimerFires(r) ==
  /\ timer[r] = "armed"
  /\ IF r \in pending /\ r \notin republished /\ Missing(r) # {}
     THEN /\ timer' = [timer EXCEPT ![r] = "publish"]
          /\ batch' = [batch EXCEPT ![r] = Missing(r)]
          /\ republished' = republished \cup {r}
     ELSE timer' = [timer EXCEPT ![r] = "done"] /\ UNCHANGED <<batch, republished>>
  /\ UNCHANGED <<workVars, handler, published, durable, pending, got, confirmed, ending>>

\* It publishes their cached bytes on the pool subject.  An error on the way
\* leaves the rest unpublished.
Republish(r) ==
  /\ timer[r] = "publish"
  /\ Enqueue({<<r, i, "pool">> : i \in batch[r]})
  /\ timer' = [timer EXCEPT ![r] = "acks"]
  /\ UNCHANGED <<stream, handler, published, durable, collector, ending, batch>>

\* Mutant of Durable: the fallback counts as durable once it is published.
DurableUnacked(r) == TRUE

\* await_batch_direct_fallback_acks
Durable(r) == Stored(r, batch[r], "pool")

\* Only a durable fallback replaces the direct work.
RepublishAcked(r) ==
  /\ timer[r] = "acks" /\ Durable(r)
  /\ Confirm(r, batch[r])
  /\ timer' = [timer EXCEPT ![r] = "done"] /\ batch' = [batch EXCEPT ![r] = {}]
  /\ UNCHANGED <<at, tries, runs, inbox, worked, lost, faults>>
  /\ UNCHANGED <<handler, published, durable, pending, got, ending>>

RepublishFails(r) ==
  /\ timer[r] = "acks"
  /\ IF Stored(r, batch[r], "pool") THEN Fault ELSE UNCHANGED faults
  /\ timer' = [timer EXCEPT ![r] = "done"] /\ batch' = [batch EXCEPT ![r] = {}]
  /\ UNCHANGED <<at, stream, handler, published, durable, collector, ending>>

----------------------------------------------------------------------------
(* The collector.                                                          *)

\* store_result_if_missing: neither a duplicate nor a stale direct result.
Accepts(m) ==
  /\ ReqOf(m) \in pending /\ ItemOf(m) \notin got[ReqOf(m)]
  /\ m[3] = "direct" => ItemOf(m) \notin confirmed[ReqOf(m)]

\* Mutant of Complete: the first result completes the request.
CompleteEarly(S) == S # {}

\* collector.results.iter().all
Complete(S) == S = Items

\* handle_result: the last result completes the request.
HandleResult(m) ==
  LET r == ReqOf(m)
      results == IF Accepts(m) THEN got[r] \cup {ItemOf(m)} ELSE got[r]
  IN
  /\ m \in inbox /\ inbox' = inbox \ {m}
  /\ IF r \in pending /\ Complete(results)
     THEN Remove(r, FALSE) /\ Send(r, "results")
     ELSE /\ got' = [got EXCEPT ![r] = results]
          /\ UNCHANGED <<pending, republished, confirmed, ending>>
  /\ UNCHANGED <<at, tries, runs, signals, worked, lost, faults>>
  /\ UNCHANGED <<handler, published, durable, task>>

\* A chunked result fails validation: the whole request fails.
RejectChunks(m) ==
  /\ m \in inbox /\ ReqOf(m) \in pending /\ Fault
  /\ inbox' = inbox \ {m}
  /\ Remove(ReqOf(m), TRUE) /\ Send(ReqOf(m), "rejected")
  /\ UNCHANGED <<at, tries, runs, signals, worked, lost>>
  /\ UNCHANGED <<handler, published, durable, task>>

\* cleanup_expired: the collector is past its deadline.
Expire(r) ==
  /\ r \in pending /\ Remove(r, TRUE) /\ Send(r, "closed")
  /\ UNCHANGED <<workVars, handler, published, durable, task>>

----------------------------------------------------------------------------
(* The waiting handler: durability first, then results, then the timeout.  *)

Undurable(r) == durable[r] \in {"failed", "aborted"}
Ready(r) == channel[r] \in {"results", "rejected"} /\ durable[r] = "ok"

ReturnResults(r) ==
  /\ handler[r] = "wait" /\ Ready(r)
  /\ Finish(r, IF channel[r] = "results" THEN "results" ELSE "failed")
  /\ UNCHANGED <<workVars, collector, abandoned, task>>

\* 503, 504 with a closed channel, or 504 after request_timeout.
ReturnFailure(r) ==
  /\ handler[r] = "wait"
  /\ Undurable(r) \/ channel[r] = "closed" \/ ~Ready(r)
  /\ GiveUp(r)
  /\ UNCHANGED <<workVars, task>>

\* The client disconnects and the handler is dropped.
Disconnect(r) ==
  /\ Publishing(r) \/ handler[r] = "wait"
  /\ GiveUp(r)
  /\ UNCHANGED <<workVars, task>>

----------------------------------------------------------------------------
Gateway(r) ==
  \/ Submit(r) \/ \E i \in Items : PublishSingle(r, i)
  \/ PublishFails(r) \/ Handoff(r) \/ FallbackHandoff(r) \/ FallbackFails(r)
  \/ AcksDone(r) \/ Abort(r)
  \/ TimerFires(r) \/ Republish(r) \/ RepublishAcked(r) \/ RepublishFails(r)
  \/ ReturnResults(r) \/ ReturnFailure(r) \/ Disconnect(r) \/ Expire(r) \/ SendCancel(r)

Next == \/ WorkNext /\ UNCHANGED gwVars
        \/ \E r \in Requests : Gateway(r)
        \/ \E m \in inbox : HandleResult(m) \/ RejectChunks(m)

Spec == Init /\ [][Next]_vars

----------------------------------------------------------------------------
(* Properties.                                                             *)

\* Something can still produce the result the collector waits for: a copy
\* the broker will deliver again, or a result the collector would accept.
CanArrive(r, i) ==
  \E q \in Routes : \/ at[<<r, i, q>>] \in {"queued", "out"}
                    \/ <<r, i, q>> \in inbox /\ Accepts(<<r, i, q>>)

\* A request whose publish is durable never waits for an item that cannot
\* arrive any more, unless the transport lost its result or gave its copy
\* up: cancels, stale direct results, the fallback and redeliveries never
\* drop the last copy of an item.
NoItemStranded ==
  \A r \in pending : handler[r] = "wait" /\ durable[r] = "ok" =>
    \A i \in Missing(r) : <<r, i>> \in lost \/ CanArrive(r, i)

\* The client gets one answer, and an answer with results means that
\* workers produced an outcome for every item, whatever is redelivered,
\* duplicated, dropped as stale or abandoned on the way.
Status(r) == IF handler[r] \in {"idle", "results", "failed"} THEN handler[r] ELSE "open"
Reply == INSTANCE RequestReply WITH status <- [r \in Requests |-> Status(r)]
ImplementsRequestReply == Reply!Spec
=============================================================================
