------------------------------- MODULE PoolLeases -------------------------------
(***************************************************************************)
(* One lease-owned pool, end to end: an SDK client that creates, renews    *)
(* and deletes it, the gateway replicas its calls reach, Kubernetes.  The  *)
(* load balancer may send each call to any replica.                        *)
(***************************************************************************)
EXTENDS PoolClient

CONSTANT Workloads   \* scenarios: who calls what, and which faults may happen

ASSUME WorldsSayWhoCalls == \A W \in Workloads : {"client", "script"} \subseteq DOMAIN W

vars == <<world, poolVars, clientVars>>

Init ==
    /\ world \in Workloads
    /\ PoolInit
    /\ ClientInit

Server == (GatewayStep \/ GatewayFault \/ Tick) /\ UNCHANGED clientVars

Next == Server \/ ClientStep \/ ClientBegins

\* Handlers, loops and callers go on and time passes; nobody has to begin a
\* call, and no fault has to happen.
Progress == ((GatewayStep \/ Tick) /\ UNCHANGED clientVars) \/ ClientStep

Spec == Init /\ [][Next]_vars
FairSpec == Spec /\ WF_vars(Progress)

\* A pool renewed in time, on a gateway that is alone and keeps nothing in
\* Kubernetes, is never taken away by the expiration loop (check_expired_leases):
\* only a pool created again between a sweep's check and its removal can be.
SoleGatewayKeepsRenewedPools ==
    ~world.k8s /\ kept.live => \E g \in Live : pools[g] # NoPool

\* The same promise wherever the renewals arrive: a pool created and then always
\* renewed within its TTL, on a replica and in the Lease, still exists somewhere.
RenewedPoolSurvives == kept.live /\ k8sLease = kept.at => \E g \in Live : pools[g] # NoPool

\* The client never renews one pool from two tasks or threads at once, whatever
\* the order of concurrent create_pool, delete_pool and close calls.  A thread
\* that has been told to stop does not count: when the join of it times out, its
\* last post may still be under way while the next thread is started.
AtMostOneRenewer ==
    \A r, q \in Renewers :
        (/\ renewer[r].state # "off" /\ ~renewer[r].stop
         /\ renewer[q].state # "off" /\ ~renewer[q].stop) => r = q

Begun(op) == \E c \in Callers : Script(c) = op /\ ~At(c, "ready")

\* Once a create_pool call returned, the pool is being renewed until somebody
\* deletes it or closes the client, however the other create_pool calls end.
CreatedPoolIsRenewed ==
    /\ \E c \in Callers : Script(c) = "create" /\ At(c, "ended") /\ call[c].ok
    /\ ~Begun("delete") /\ ~Begun("close") /\ ~closed
    => entry.kind = "task" /\ renewer[entry.by].state # "off"

\* Every create_pool, delete_pool and close call ends: nobody waits for ever on
\* a creation in flight, on the lock close holds, or on a thread to join.
CallersSettle == []<>(\A c \in Callers : At(c, "ready") \/ At(c, "ended"))

Abandoned ==
    /\ \A c \in Callers : At(c, "ended") \/ (At(c, "ready") /\ (Script(c) = "idle" \/ ~InTime))
    /\ \A r \in Renewers : renewer[r].state = "off" \/ (renewer[r].state = "sleeping" /\ ~InTime)
    /\ \A c \in Calls : http[c].step \in {"idle", "done", "lost"}
    /\ now + LeaseDuration < MaxNow

\* A pool nobody renews any more is released everywhere: every replica forgets
\* it and its Lease goes, also when a replica restarts or a Kubernetes call fails.
AbandonedPoolIsReleased ==
    Abandoned ~> (k8sLease = NoTime /\ \A g \in Live : pools[g] = NoPool)
================================================================================
