------------------------------- MODULE PoolClient -------------------------------
(***************************************************************************)
(* The SDK client's side of a pool: create_pool, delete_pool, close and    *)
(* the background lease renewal, for the asyncio client and the threaded   *)
(* one.  Callers are tasks (threads) of one client acting on one pool; an  *)
(* await (or a released lock) is where another caller can run.             *)
(***************************************************************************)
EXTENDS PoolManager

CONSTANT Callers   \* tasks or threads that call the client, one call each

\* A creation starts at most one renewal task (thread), named after its caller.
RenewerOf(c) == <<c, "renew">>
Renewers == {RenewerOf(c) : c \in Callers}

ASSUME CallSlots == Calls = Callers \cup Renewers /\ "free" \notin Callers

VARIABLES
    entry,    \* _pools[name]: absent, a creation in flight, or a renewal task
    future,   \* per caller: the future of its _PoolCreationInFlight
    call,     \* per caller: where its call is
    renewer,  \* per renewal task: state, time of its last post, stop event
    lock,     \* _pools_lock, when held across an await or a join
    closed    \* the client's session is closed

clientVars == <<entry, future, call, renewer, lock, closed>>

NoEntry == [kind |-> "none", by |-> "none"]
\* The workload: each caller's call, and the time after which the program using
\* the client begins no call and lets no renewal be sent (a bound).
Script(c) == world.script[c]
InTime == now <= world.until
Asyncio == world.client = "async"
Wanted(c) == world.spec[c]

Ready == [pc |-> "ready", on |-> {}, starts |-> FALSE, ok |-> FALSE]
Off == [state |-> "off", at |-> 0, stop |-> FALSE]

At(c, pc) == call[c].pc = pc
To(c, pc) == call' = [call EXCEPT ![c].pc = pc]
Ended(c, ok) == call' = [call EXCEPT ![c] = [Ready EXCEPT !.pc = "ended", !.ok = ok]]

Free == lock = "free"

\* Nobody calls create_pool or delete_pool on a client that is being closed.
Begins(c, op) ==
    /\ At(c, "ready") /\ Script(c) = op /\ Free /\ InTime
    /\ \A d \in Callers : Script(d) = "close" => At(d, "ready")

Send(c, op, spec) == http' = [http EXCEPT ![c] = [NoCall EXCEPT !.op = op, !.spec = spec, !.step = "sent"]]

Answered(c) == http[c].step = "done"

\* The call fails: refused, the gateway died, the session closed, or it timed out.
CallFails(c) ==
    \/ UNCHANGED world /\ ((Answered(c) /\ ~http[c].ok) \/ http[c].step = "lost" \/ closed)
    \/ Spend("lost")

StartRenewal(c) ==
    /\ entry' = [kind |-> "task", by |-> RenewerOf(c)]
    /\ renewer' = [renewer EXCEPT ![RenewerOf(c)] = [state |-> "sleeping", at |-> now, stop |-> FALSE]]

gatewayOnly == <<now, pools, configMap, k8sLease, watch, expiry, assign, kept>>

(***************************************************************************)
(* asyncio client                                                          *)
(***************************************************************************)

Settled(creations) == \A o \in creations : future[o] # "pending"
\* Mutant: a creation that fails leaves its future pending.
SettleSuccess(c, outcome) == future' = [future EXCEPT ![c] = IF outcome = "ok" THEN outcome ELSE @]

Settle(c, outcome) == future' = [future EXCEPT ![c] = IF @ = "pending" THEN outcome ELSE @]

\* create_pool: wait for a creation in flight, or reserve the slot and post.
AsyncCreate(c) ==
    /\ Asyncio /\ Begins(c, "create")
    /\ IF entry.kind = "creating"
       THEN /\ call' = [call EXCEPT ![c].pc = "waiting", ![c].on = {entry.by}]
            /\ UNCHANGED <<entry, future, http>>
       ELSE LET reserved == entry.kind = "none"
            IN  /\ entry' = IF reserved THEN [kind |-> "creating", by |-> c] ELSE entry
                /\ future' = [future EXCEPT ![c] = IF reserved THEN "pending" ELSE @]
                /\ call' = [call EXCEPT ![c].pc = "posting", ![c].starts = reserved]
                /\ Send(c, "create", Wanted(c))
    /\ UNCHANGED <<world, renewer, lock, closed>> /\ UNCHANGED gatewayOnly

\* The waiting create shares the outcome of the creation it waited for.
AsyncCreateJoined(c) ==
    /\ Asyncio /\ At(c, "waiting") /\ Script(c) = "create"
    /\ Settled(call[c].on)
    /\ Ended(c, \A o \in call[c].on : future[o] = "ok")
    /\ UNCHANGED <<world, entry, future, renewer, lock, closed, http>> /\ UNCHANGED gatewayOnly

Mine(c) == entry = [kind |-> "creating", by |-> c]

\* Posted: the renewal starts only if the slot still holds this creation.
AsyncCreated(c) ==
    /\ Asyncio /\ At(c, "posting") /\ Script(c) = "create" /\ Free
    /\ Answered(c) /\ http[c].ok
    /\ IF call[c].starts /\ Mine(c)
       THEN StartRenewal(c)
       ELSE UNCHANGED <<entry, renewer>>
    /\ Settle(c, "ok")
    /\ Ended(c, TRUE)
    /\ UNCHANGED <<world, lock, closed, http>> /\ UNCHANGED gatewayOnly

\* Mutant: a failed create_pool drops whatever the client tracks.
ReleaseAny(c) == entry' = NoEntry

Release(c) == entry' = IF call[c].starts /\ Mine(c) THEN NoEntry ELSE entry

AsyncCreateFailed(c) ==
    /\ Asyncio /\ At(c, "posting") /\ Script(c) = "create" /\ Free
    /\ CallFails(c)
    /\ Release(c)
    /\ Settle(c, "failed")
    /\ Ended(c, FALSE)
    /\ UNCHANGED <<renewer, lock, closed, http>> /\ UNCHANGED gatewayOnly

\* The caller's task is cancelled while it awaits the post.
AsyncCreateCancelled(c) ==
    /\ Asyncio /\ At(c, "posting") /\ Script(c) = "create" /\ Free
    /\ Spend("cancel")
    /\ Release(c)
    /\ Settle(c, "cancelled")
    /\ Ended(c, FALSE)
    /\ UNCHANGED <<renewer, lock, closed, http>> /\ UNCHANGED gatewayOnly

CancelTask == renewer' = IF entry.kind = "task" THEN [renewer EXCEPT ![entry.by] = Off] ELSE renewer

\* Take the slot, whatever it holds; a renewal task is cancelled.
Pop ==
    /\ entry' = NoEntry
    /\ CancelTask

\* delete_pool: a creation in flight settles first, then the slot is taken.
AsyncDelete(c) ==
    /\ Asyncio /\ Begins(c, "delete")
    /\ IF entry.kind = "creating"
       THEN /\ call' = [call EXCEPT ![c].pc = "waiting", ![c].on = {entry.by}]
            /\ UNCHANGED <<entry, renewer>>
       ELSE Pop /\ To(c, "stopped")
    /\ UNCHANGED <<world, future, lock, closed, http>> /\ UNCHANGED gatewayOnly

AsyncDeleteWaited(c) ==
    /\ Asyncio /\ At(c, "waiting") /\ Script(c) = "delete" /\ Free
    /\ Settled(call[c].on)
    /\ Pop /\ To(c, "stopped")
    /\ UNCHANGED <<world, future, lock, closed, http>> /\ UNCHANGED gatewayOnly

\* The task of the waiting delete_pool is cancelled: the cancellation is suppressed
\* like that of the creation, and the slot taken from under a creation in flight.
AsyncDeleteCancelled(c) ==
    /\ Asyncio /\ At(c, "waiting") /\ Script(c) = "delete" /\ Free
    /\ Spend("cancel")
    /\ Pop /\ To(c, "stopped")
    /\ UNCHANGED <<future, lock, closed, http>> /\ UNCHANGED gatewayOnly

\* close: under the lock, cancel creations and renewal tasks...
AsyncClose(c) ==
    /\ Asyncio /\ Begins(c, "close")
    /\ future' = IF entry.kind = "creating" THEN [future EXCEPT ![entry.by] = "cancelled"] ELSE future
    /\ CancelTask
    /\ lock' = c
    /\ To(c, "clearing")
    /\ UNCHANGED <<world, entry, closed, http>> /\ UNCHANGED gatewayOnly

\* ...then forget every pool, release the lock and close the session.
AsyncClosed(c) ==
    /\ Asyncio /\ At(c, "clearing")
    /\ entry' = NoEntry
    /\ lock' = "free"
    /\ closed' = TRUE
    /\ Ended(c, TRUE)
    /\ UNCHANGED <<world, future, renewer, http>> /\ UNCHANGED gatewayOnly

(***************************************************************************)
(* threaded client                                                         *)
(***************************************************************************)

\* create_pool: whether the pool is tracked is read before the post, used after it.
SyncCreate(c) ==
    /\ ~Asyncio /\ Begins(c, "create")
    /\ call' = [call EXCEPT ![c].pc = "posting", ![c].starts = entry.kind = "none"]
    /\ Send(c, "create", Wanted(c))
    /\ UNCHANGED <<world, entry, future, renewer, lock, closed>> /\ UNCHANGED gatewayOnly

\* Mutant: the slot is not looked at again under the lock.
MayStartUnchecked(c) == call[c].starts

MayStart(c) == call[c].starts /\ entry.kind = "none"

SyncCreated(c) ==
    /\ ~Asyncio /\ At(c, "posting") /\ Script(c) = "create" /\ Free
    /\ Answered(c) /\ http[c].ok
    /\ IF MayStart(c) THEN StartRenewal(c) ELSE UNCHANGED <<entry, renewer>>
    /\ Ended(c, TRUE)
    /\ UNCHANGED <<world, future, lock, closed, http>> /\ UNCHANGED gatewayOnly

SyncCreateFailed(c) ==
    /\ ~Asyncio /\ At(c, "posting") /\ Script(c) = "create"
    /\ CallFails(c)
    /\ Ended(c, FALSE)
    /\ UNCHANGED <<entry, future, renewer, lock, closed, http>> /\ UNCHANGED gatewayOnly

\* Stop the tracked thread and join it with the lock held.
StopThread(c) ==
    /\ renewer' = IF entry.kind = "task" THEN [renewer EXCEPT ![entry.by].stop = TRUE] ELSE renewer
    /\ lock' = c
    /\ call' = [call EXCEPT ![c].pc = "joining",
                            ![c].on = IF entry.kind = "task" THEN {entry.by} ELSE {}]

SyncDelete(c) ==
    /\ ~Asyncio /\ Begins(c, "delete")
    /\ StopThread(c)
    /\ entry' = NoEntry
    /\ UNCHANGED <<world, future, closed, http>> /\ UNCHANGED gatewayOnly

SyncClose(c) ==
    /\ ~Asyncio /\ Begins(c, "close")
    /\ StopThread(c)
    /\ UNCHANGED <<world, entry, future, closed, http>> /\ UNCHANGED gatewayOnly

\* thread.join(timeout): the thread ended, or the join gave up on it.
Joined(c) ==
    \/ UNCHANGED world /\ \A r \in call[c].on : renewer[r].state = "off"
    \/ Spend("slow")

SyncDeleteJoined(c) ==
    /\ At(c, "joining") /\ Script(c) = "delete"
    /\ Joined(c)
    /\ lock' = "free"
    /\ To(c, "stopped")
    /\ UNCHANGED <<entry, future, renewer, closed, http>> /\ UNCHANGED gatewayOnly

SyncClosed(c) ==
    /\ At(c, "joining") /\ Script(c) = "close"
    /\ Joined(c)
    /\ entry' = NoEntry
    /\ lock' = "free"
    /\ closed' = TRUE
    /\ Ended(c, TRUE)
    /\ UNCHANGED <<future, renewer, http>> /\ UNCHANGED gatewayOnly

(***************************************************************************)
(* Both clients                                                            *)
(***************************************************************************)

\* delete_pool, once nothing renews the pool any more.
SendDelete(c) ==
    /\ At(c, "stopped")
    /\ Send(c, "delete", 0)
    /\ To(c, "deleting")
    /\ UNCHANGED <<world, entry, future, renewer, lock, closed>> /\ UNCHANGED gatewayOnly

Deleted(c) ==
    /\ At(c, "deleting")
    /\ \/ Answered(c) /\ http[c].ok /\ UNCHANGED world /\ Ended(c, TRUE)
       \/ CallFails(c) /\ Ended(c, FALSE)
    /\ UNCHANGED <<entry, future, renewer, lock, closed, http>> /\ UNCHANGED gatewayOnly

\* The renewal loop wakes and posts; the interval is one tick.
RenewalDue(r) ==
    /\ renewer[r].state = "sleeping" /\ ~renewer[r].stop
    /\ renewer[r].at < now /\ InTime
    /\ http[r].step \in {"idle", "done", "lost"}
    /\ renewer' = [renewer EXCEPT ![r].state = "posting", ![r].at = now]
    /\ Send(r, "renew", 0)
    /\ UNCHANGED <<world, entry, future, call, lock, closed>> /\ UNCHANGED gatewayOnly

\* Renewed, refused or failed: the loop goes on, whatever the answer was.
RenewalAnswered(r) ==
    /\ renewer[r].state = "posting"
    /\ (Answered(r) /\ UNCHANGED world) \/ CallFails(r)
    /\ renewer' = [renewer EXCEPT ![r].state = "sleeping"]
    /\ UNCHANGED <<entry, future, call, lock, closed, http>> /\ UNCHANGED gatewayOnly

\* A thread notices its stop event only between posts.
ThreadStops(r) ==
    /\ renewer[r].state = "sleeping" /\ renewer[r].stop
    /\ renewer' = [renewer EXCEPT ![r] = Off]
    /\ UNCHANGED <<world, entry, future, call, lock, closed, http>> /\ UNCHANGED gatewayOnly

\* The client's process ends: its tasks and threads with it, its posts perhaps not.
ClientExit ==
    /\ ~closed
    /\ Spend("exit")
    /\ closed' = TRUE
    /\ entry' = NoEntry
    /\ lock' = "free"
    /\ call' = [c \in Callers |-> [Ready EXCEPT !.pc = "ended"]]
    /\ renewer' = [r \in Renewers |-> Off]
    /\ UNCHANGED <<future, http>> /\ UNCHANGED gatewayOnly

ClientInit ==
    /\ entry = NoEntry
    /\ future = [c \in Callers |-> "none"]
    /\ call = [c \in Callers |-> Ready]
    /\ renewer = [r \in Renewers |-> Off]
    /\ lock = "free"
    /\ closed = FALSE

\* Steps of calls already begun, and of the renewal tasks.
ClientStep ==
    \/ \E c \in Callers :
          \/ AsyncCreateJoined(c) \/ AsyncCreated(c) \/ AsyncCreateFailed(c)
          \/ AsyncDeleteWaited(c) \/ AsyncClosed(c)
          \/ SyncCreated(c) \/ SyncCreateFailed(c) \/ SyncDeleteJoined(c) \/ SyncClosed(c)
          \/ SendDelete(c) \/ Deleted(c)
    \/ \E r \in Renewers : RenewalDue(r) \/ RenewalAnswered(r) \/ ThreadStops(r)

\* What a program using the client does, when it likes.
ClientBegins ==
    \/ \E c \in Callers :
          \/ AsyncCreate(c) \/ AsyncDelete(c) \/ AsyncClose(c)
          \/ AsyncCreateCancelled(c) \/ AsyncDeleteCancelled(c)
          \/ SyncCreate(c) \/ SyncDelete(c) \/ SyncClose(c)
    \/ ClientExit
================================================================================
