---------------------------- MODULE PayloadStore ----------------------------
(***************************************************************************)
(* Offloaded payloads of encode, score and extract requests.  The gateway  *)
(* writes an item that is too large for the queue to an object store and   *)
(* publishes a reference; when the request is over it deletes what it      *)
(* wrote.  Cleanup passes run detached, several at a time, and may fail or *)
(* be cancelled half-way; a sweep every ten seconds retries the rest.      *)
(*                                                                         *)
(* A write whose future was dropped may still land in the store, long      *)
(* after the request is over.                                              *)
(***************************************************************************)
EXTENDS Naturals

CONSTANTS Requests, Items, MaxFaults

ASSUME FaultAssumption == MaxFaults \in Nat

VARIABLES
  phase,    \* the handler of a request: idle, publish, retry (on the pool
            \* subject, after a direct publish failed), over
  pending,  \* pending_results
  step,     \* publish_single of each item: todo, put, stored, sent
  byRef,    \* items published by reference
  adrift,   \* writes whose future was dropped, which may still land
  blobs,    \* what the store holds
  tracked,  \* offloaded_payload_keys
  due,      \* requests with a cleanup handed to a task that did not start
  visit,    \* the keys that the cleanup passes of each task still visit
  gone,     \* the key that a pass deleted and did not retire yet
  late,     \* blobs written when nothing would delete them any more (history)
  faults    \* failed deletes and cancelled passes so far

publishing == <<phase, pending, step, byRef>>
pass == <<visit, gone>>
cleaning == <<due, pass>>
vars == <<publishing, adrift, blobs, tracked, cleaning, late, faults>>

Keys == Requests \X Items
ReqOf(k) == k[1]
KeysOf(r) == {k \in Keys : ReqOf(k) = r}
Steps == {"todo", "put", "stored", "sent"}

\* Two cleanups of a request can overlap: that of its end, and the sweep's.
Tasks == {"end", "sweep"}
Passes == Requests \X Tasks

Init ==
  /\ phase = [r \in Requests |-> "idle"] /\ pending = {}
  /\ step = [k \in Keys |-> "todo"] /\ byRef = {}
  /\ adrift = {} /\ blobs = {} /\ tracked = {}
  /\ due = {} /\ visit = [p \in Passes |-> {}] /\ gone = [p \in Passes |-> {}]
  /\ late = {} /\ faults = 0

Fault == faults < MaxFaults /\ faults' = faults + 1

Publishing(r) == phase[r] \in {"publish", "retry"}
InFlight(r) == {k \in KeysOf(r) : step[k] = "put"}

----------------------------------------------------------------------------
(* The store.                                                              *)

\* Nothing will delete a blob that lands now: its request is over, and its
\* key is forgotten or about to be.
Unreachable(k) == /\ ReqOf(k) \notin pending
                  /\ k \notin tracked \/ \E p \in Passes : k \in gone[p]

Written(k) ==
  /\ blobs' = blobs \cup {k}
  /\ late' = IF Unreachable(k) THEN late \cup {k} ELSE late

\* A dropped write lands, or it never does.
Land(k) ==
  /\ k \in adrift /\ adrift' = adrift \ {k}
  /\ Written(k) \/ UNCHANGED <<blobs, late>>
  /\ UNCHANGED <<publishing, tracked, cleaning, faults>>

----------------------------------------------------------------------------
(* publish_work and publish_single                                         *)

Submit(r) ==
  /\ phase[r] = "idle"
  /\ phase' = [phase EXCEPT ![r] = "publish"]
  /\ pending' = pending \cup {r}
  /\ UNCHANGED <<step, byRef, adrift, blobs, tracked, cleaning, late, faults>>

\* Mutant of Recorded: the write starts without its key being recorded.
RecordedNot(k) == tracked

\* record_offloaded_payload_key, before the write starts.
Recorded(k) == tracked \cup {k}

\* An item above the threshold; the others travel inline and are left out.
Offload(k) ==
  /\ Publishing(ReqOf(k)) /\ step[k] = "todo"
  /\ step' = [step EXCEPT ![k] = "put"]
  /\ tracked' = Recorded(k)
  /\ UNCHANGED <<phase, pending, byRef, adrift, blobs, cleaning, late, faults>>

PutSucceeds(k) ==
  /\ Publishing(ReqOf(k)) /\ step[k] = "put"
  /\ step' = [step EXCEPT ![k] = "stored"]
  /\ Written(k)
  /\ UNCHANGED <<phase, pending, byRef, adrift, tracked, cleaning, faults>>

\* The item travels inline; the write may have reached the store all the same.
PutFails(k) ==
  /\ Publishing(ReqOf(k)) /\ step[k] = "put"
  /\ step' = [step EXCEPT ![k] = "sent"]
  /\ Written(k) \/ UNCHANGED <<blobs, late>>
  /\ UNCHANGED <<phase, pending, byRef, adrift, tracked, cleaning, faults>>

Publish(k) ==
  /\ Publishing(ReqOf(k)) /\ step[k] = "stored"
  /\ byRef' = byRef \cup {k}
  /\ step' = [step EXCEPT ![k] = "sent"]
  /\ UNCHANGED <<phase, pending, adrift, blobs, tracked, cleaning, late, faults>>

\* A direct publish fails; its siblings are dropped where they are, and all
\* items are published again, with the same keys.
Retry(r) ==
  /\ phase[r] = "publish" /\ \E k \in KeysOf(r) : step[k] # "sent"
  /\ phase' = [phase EXCEPT ![r] = "retry"]
  /\ adrift' = adrift \cup InFlight(r)
  /\ step' = [k \in Keys |-> IF k \in KeysOf(r) THEN "todo" ELSE step[k]]
  /\ UNCHANGED <<pending, byRef, blobs, tracked, cleaning, late, faults>>

Handoff(r) ==
  /\ Publishing(r) /\ \A k \in KeysOf(r) : step[k] = "sent"
  /\ phase' = [phase EXCEPT ![r] = "over"]
  /\ UNCHANGED <<pending, step, byRef, adrift, blobs, tracked, cleaning, late, faults>>

\* The collector is removed, if it is still there, and a cleanup is handed
\* to a task; a full queue of cleanups sheds it.
Remove(r) ==
  /\ pending' = pending \ {r}
  /\ due' \in {due, due \cup {r}}

\* The publish fails for good or the client leaves: writes go adrift.
Drop(r) ==
  /\ Publishing(r)
  /\ phase' = [phase EXCEPT ![r] = "over"]
  /\ adrift' = adrift \cup InFlight(r)
  /\ step' = [k \in Keys |-> IF k \in InFlight(r) THEN "todo" ELSE step[k]]
  /\ Remove(r)
  /\ UNCHANGED <<byRef, blobs, tracked, pass, late, faults>>

\* Completion, timeout, disconnect, rejection, failed durability or expiry,
\* which race; an expired request may still be publishing.
End(r) ==
  /\ phase[r] # "idle" /\ Remove(r)
  /\ UNCHANGED <<phase, step, byRef, adrift, blobs, tracked, pass, late, faults>>

----------------------------------------------------------------------------
(* cleanup_offloaded_payloads                                              *)

Idle(p) == visit[p] = {} /\ gone[p] = {}

\* A pass takes a snapshot of the tracked keys.
Start(r, t) ==
  /\ Idle(<<r, t>>)
  /\ visit' = [visit EXCEPT ![<<r, t>>] = tracked \cap KeysOf(r)]
  /\ UNCHANGED <<publishing, adrift, blobs, tracked, gone, late, faults>>

StartCleanup(r) == r \in due /\ due' = due \ {r} /\ Start(r, "end")

\* Mutant of Orphaned: the sweep takes every request with tracked keys.
OrphanedOrNot(r) == tracked \cap KeysOf(r) # {}

\* collect_orphaned_offloaded_payload_requests
Orphaned(r) == r \notin pending /\ tracked \cap KeysOf(r) # {}

\* cleanup_expired
Sweep(r) == Orphaned(r) /\ Start(r, "sweep") /\ UNCHANGED due

\* The store deletes the key ...
Delete(p, k) ==
  /\ gone[p] = {} /\ k \in visit[p]
  /\ visit' = [visit EXCEPT ![p] = @ \ {k}]
  /\ gone' = [gone EXCEPT ![p] = {k}]
  /\ blobs' = blobs \ {k} /\ late' = late \ {k}
  /\ UNCHANGED <<publishing, adrift, tracked, due, faults>>

\* ... and the pass retires it.
Retire(p) ==
  /\ gone[p] # {}
  /\ tracked' = tracked \ gone[p]
  /\ gone' = [gone EXCEPT ![p] = {}]
  /\ UNCHANGED <<publishing, adrift, blobs, due, visit, late, faults>>

\* Mutant of Kept: a failed delete retires its key as well.
KeptNot(k) == tracked \ {k}

\* A failed delete keeps its key for the next sweep.
Kept(k) == tracked

DeleteFails(p, k) ==
  /\ gone[p] = {} /\ k \in visit[p] /\ Fault
  /\ visit' = [visit EXCEPT ![p] = @ \ {k}]
  /\ tracked' = Kept(k)
  /\ UNCHANGED <<publishing, adrift, blobs, due, gone, late>>

\* The pass is dropped at a delete, which may have been carried out: its time
\* is up, or the handler that runs it is gone.
Cancel(p) ==
  /\ ~Idle(p) /\ Fault
  /\ visit' = [visit EXCEPT ![p] = {}] /\ gone' = [gone EXCEPT ![p] = {}]
  /\ UNCHANGED <<publishing, adrift, blobs, tracked, due, late>>

----------------------------------------------------------------------------
Handler(k) == \/ Offload(k) \/ PutSucceeds(k) \/ PutFails(k)
              \/ Publish(k) \/ Land(k)
Request(r) == \/ Submit(r) \/ Retry(r) \/ Handoff(r) \/ Drop(r) \/ End(r)
              \/ StartCleanup(r) \/ Sweep(r)
Cleanup(p) == \/ Retire(p) \/ Cancel(p)
              \/ \E k \in Keys : Delete(p, k) \/ DeleteFails(p, k)

Next == \/ \E k \in Keys : Handler(k)
        \/ \E r \in Requests : Request(r)
        \/ \E p \in Passes : Cleanup(p)

\* The sweep runs every ten seconds, and a running pass visits every key.
Fairness ==
  /\ \A r \in Requests : WF_vars(Sweep(r))
  /\ \A p \in Passes : WF_vars(Retire(p) \/ \E k \in Keys : Delete(p, k))

Spec == Init /\ [][Next]_vars /\ Fairness

----------------------------------------------------------------------------
(* Properties.                                                             *)

\* Every variable has its type, and a cleanup pass visits the keys of one
\* request, which is over: no pass runs for a request that still waits.
TypeOK ==
  /\ phase \in [Requests -> {"idle", "publish", "retry", "over"}]
  /\ step \in [Keys -> Steps]
  /\ pending \subseteq Requests /\ due \subseteq Requests
  /\ byRef \subseteq Keys /\ adrift \subseteq Keys /\ blobs \subseteq Keys
  /\ tracked \subseteq Keys /\ late \subseteq Keys
  /\ visit \in [Passes -> SUBSET Keys] /\ gone \in [Passes -> SUBSET Keys]
  /\ faults \in 0..MaxFaults
  /\ \A p \in Passes : /\ visit[p] \cup gone[p] \subseteq KeysOf(p[1])
                       /\ p[1] \in pending => Idle(p)

\* While a request waits for results, the payload of every item that was
\* published by reference is in the store, whatever cleanup is running: a
\* redelivered or republished item can always be fetched.
PayloadWhileWaiting ==
  \A k \in byRef : ReqOf(k) \in pending => k \in blobs

\* A blob in the store is tracked, so that some cleanup will find it, unless
\* it landed after its request was over and its key deleted: failed deletes,
\* cancelled passes and dropped handlers forget nothing.
NothingForgotten == blobs \subseteq tracked \cup late

\* The blob of a request that is over is deleted, even if its cleanup was
\* shed, cancelled or failed.
PayloadsReclaimed ==
  \A k \in Keys :
    k \in blobs \ late /\ ReqOf(k) \notin pending ~> k \notin blobs
=============================================================================
