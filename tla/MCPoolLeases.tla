------------------------------ MODULE MCPoolLeases ------------------------------
(***************************************************************************)
(* Small instances of PoolLeases.  A tick is one renewal interval; a lease *)
(* lasts two.  Each workload fixes the callers' scripts and how often each *)
(* fault may happen.                                                       *)
(***************************************************************************)
EXTENDS PoolLeases, TLC

CONSTANTS g1, g2, a, b, d

MCCalls == {a, b, d} \cup {RenewerOf(a), RenewerOf(b), RenewerOf(d)}

NoFaults == [f \in {"k8s", "refuse", "reassign", "relist", "restart",
                    "lost", "cancel", "slow", "exit"} |-> 0]
Faults(fs) == [f \in DOMAIN NoFaults |-> IF f \in fs THEN 1 ELSE 0]

World(client, doA, doB, doD, replicas, k8s, until, faults) ==
    [client |-> client, script |-> (a :> doA @@ b :> doB @@ d :> doD),
     spec |-> (a :> 1 @@ b :> 2 @@ d :> 0), gateways |-> replicas, k8s |-> k8s,
     watching |-> k8s /\ (replicas = {g1, g2} \/ "relist" \in faults), prompt |-> replicas = {g1, g2},
     until |-> until, faults |-> Faults(faults)]

\* Concurrent calls of one client, one gateway without Kubernetes.
ClientRaces ==
    {World("async", "create", "create", "delete", {g1}, FALSE, 1, {f}) : f \in {"refuse", "lost", "cancel"}}
    \cup {World("async", "create", "create", "close", {g1}, FALSE, 1, {"cancel"}),
          World("sync", "create", "create", "delete", {g1}, FALSE, 1, {"refuse"}),
          World("sync", "create", "idle", "delete", {g1}, FALSE, 1, {"lost", "slow"}),
          World("sync", "create", "create", "close", {g1}, FALSE, 1, {"slow"})}

\* One gateway that keeps the pool in Kubernetes.
OneReplica ==
    {World("async", "create", "idle", "close", {g1}, TRUE, 1, {f}) : f \in {"k8s", "restart", "relist", "exit"}}
    \cup {World("async", "create", "create", "idle", {g1}, TRUE, 0, {"reassign"}),
          World("async", "create", "idle", "delete", {g1}, TRUE, 0, {"reassign", "k8s"})}

\* Two replicas that share it, without and with faults; calls end within a tick.
Shared == {World("async", "create", "idle", "idle", {g1, g2}, TRUE, 1, {})}

TwoReplicas ==
    Shared \cup {World("async", "create", "idle", "idle", {g1, g2}, TRUE, 1, {f}) : f \in {"k8s", "restart", "relist"}}

MCWorkloads == ClientRaces \cup OneReplica \cup TwoReplicas
================================================================================
