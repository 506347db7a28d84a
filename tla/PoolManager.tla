------------------------------ MODULE PoolManager ------------------------------
(***************************************************************************)
(* The gateway's pool manager and its Kubernetes backend, for one          *)
(* lease-owned dynamic pool (pools do not interact; static pools and the   *)
(* default pool have no lease).  Every gateway replica keeps the pool in   *)
(* memory with the time it was last renewed; a ConfigMap holds the shared  *)
(* copy, a Lease the shared renewal time, and a ConfigMap watch carries    *)
(* the changes to the replicas.  A handler drops the memory lock before    *)
(* its Kubernetes calls, so each call is a step of its own.                *)
(***************************************************************************)
EXTENDS Naturals, Sequences

CONSTANTS
    Gateways,       \* gateway replicas
    Calls,          \* slots for HTTP calls in flight: one per caller
    LeaseDuration,  \* a pool's TTL, in ticks
    MaxNow,         \* bound: the clock stops here
    Assignments,    \* worker assignments assign_workers may compute
    CasMaxRetries   \* CAS_MAX_RETRIES

ASSUME PoolConstants ==
    /\ LeaseDuration \in Nat
    /\ MaxNow \in Nat
    /\ CasMaxRetries \in Nat \ {0}
    /\ 0 \in Assignments

VARIABLES
    world,      \* the scenario: gateways in use, k8s, watching, prompt, faults
    now,        \* the clock
    pools,      \* per replica: the pool in memory, or NoPool
    configMap,  \* the pool's ConfigMap (with its resourceVersion), or NoPool
    k8sLease,   \* renewTime of the pool's Lease, or NoTime
    watch,      \* per replica: ConfigMap events not yet delivered
    expiry,     \* per replica: the lease expiration loop
    assign,     \* per replica: the worker reassignment loop
    http,       \* per slot: the HTTP call and how far its handler is
    kept        \* history: a pool created outside a sweep, then never left unrenewed

poolVars == <<now, pools, configMap, k8sLease, watch, expiry, assign, http, kept>>

NoPool == [spec |-> 0, renewed |-> 0, assigned |-> 0]
NoTime == MaxNow + 1
NoCall == [op |-> "none", spec |-> 0, step |-> "idle", at |-> "none", ok |-> FALSE, pool |-> NoPool]
NoAssign == [step |-> "idle", status |-> NoPool, read |-> NoPool, rv |-> 0, tries |-> 0]

Spend(f) ==
    /\ world.faults[f] > 0
    /\ world' = [world EXCEPT !.faults[f] = @ - 1]

Live == world.gateways

(***************************************************************************)
(* Kubernetes                                                              *)
(***************************************************************************)

Announce(event) == watch' = [g \in Gateways |-> IF g \in Live /\ world.watching
                                                THEN Append(watch[g], event) ELSE watch[g]]

SavePool(p) ==
    /\ configMap' = [pool |-> p, rv |-> configMap.rv + 1]
    /\ Announce([kind |-> "apply", pool |-> p])

DeleteConfigMap ==
    IF configMap.pool = NoPool
    THEN UNCHANGED <<configMap, watch>>
    ELSE /\ configMap' = [configMap EXCEPT !.pool = NoPool]
         /\ Announce([kind |-> "delete", pool |-> NoPool])

Goto(c, step) == http' = [http EXCEPT ![c].step = step, ![c].pool = IF step = "put" THEN @ ELSE NoPool]

\* Every backend call is best-effort: a failure is logged and the handler goes on.
KubernetesCall(effect, rest) ==
    \/ effect /\ UNCHANGED world
    \/ Spend("k8s") /\ rest

(***************************************************************************)
(* HTTP handlers                                                           *)
(***************************************************************************)

Sweepless == \A g \in Live : expiry[g].step = "idle"

\* create_pool on a replica: update or insert in memory, keep a clone for the save.
CreatePool(g, c) ==
    LET old == pools[g]
        changed == old.spec # http[c].spec
        p == [spec |-> http[c].spec, renewed |-> now,
              assigned |-> IF changed THEN 0 ELSE old.assigned]
    IN  /\ g \in Live
        /\ http[c].op = "create" /\ http[c].step = "sent"
        /\ pools' = [pools EXCEPT ![g] = p]
        /\ http' = [http EXCEPT ![c].at = g, ![c].ok = TRUE,
                                ![c].pool = IF world.k8s /\ changed THEN p ELSE NoPool,
                                ![c].step = IF ~world.k8s THEN "done" ELSE IF changed THEN "save" ELSE "lease"]
        /\ kept' = [kept EXCEPT !.at = now, !.live = @ \/ (old = NoPool /\ Sweepless)]
        /\ UNCHANGED <<world, now, configMap, k8sLease, watch, expiry, assign>>

\* A request the gateway rejects (unknown profile, static pool, missing GPUs) changes nothing.
RefuseCreate(c) ==
    /\ http[c].op = "create" /\ http[c].step = "sent"
    /\ Spend("refuse")
    /\ Goto(c, "done")
    /\ UNCHANGED <<now, pools, configMap, k8sLease, watch, expiry, assign, kept>>

PersistPool(c) ==
    /\ http[c].step = "save"
    /\ KubernetesCall(SavePool(http[c].pool), UNCHANGED <<configMap, watch>>)
    /\ Goto(c, "lease")
    /\ UNCHANGED <<now, pools, k8sLease, expiry, assign, kept>>

CreateOrRenewLease(c) ==
    /\ http[c].step = "lease"
    /\ KubernetesCall(k8sLease' = now, UNCHANGED k8sLease)
    /\ Goto(c, "done")
    /\ UNCHANGED <<now, pools, configMap, watch, expiry, assign, kept>>

DeletePool(g, c) ==
    LET removed == pools[g] # NoPool
    IN  /\ g \in Live
        /\ http[c].op = "delete" /\ http[c].step = "sent"
        /\ pools' = [pools EXCEPT ![g] = NoPool]
        /\ http' = [http EXCEPT ![c].at = g, ![c].ok = removed,
                                ![c].step = IF removed /\ world.k8s THEN "unsave" ELSE "done"]
        /\ kept' = [kept EXCEPT !.live = FALSE]
        /\ UNCHANGED <<world, now, configMap, k8sLease, watch, expiry, assign>>

DeletePoolConfigMap(c) ==
    /\ http[c].step = "unsave"
    /\ KubernetesCall(DeleteConfigMap, UNCHANGED <<configMap, watch>>)
    /\ Goto(c, "unlease")
    /\ UNCHANGED <<now, pools, k8sLease, expiry, assign, kept>>

DeletePoolLease(c) ==
    /\ http[c].step = "unlease"
    /\ KubernetesCall(k8sLease' = NoTime, UNCHANGED k8sLease)
    /\ Goto(c, "done")
    /\ UNCHANGED <<now, pools, configMap, watch, expiry, assign, kept>>

Renewed(p) == [p EXCEPT !.renewed = now]

\* renew_pool touches this replica's memory and the Lease, never the ConfigMap.
RenewPool(g, c) ==
    LET found == pools[g] # NoPool
    IN  /\ g \in Live
        /\ http[c].op = "renew" /\ http[c].step = "sent"
        /\ pools' = [pools EXCEPT ![g] = IF found THEN Renewed(@) ELSE @]
        /\ http' = [http EXCEPT ![c].at = g, ![c].ok = found,
                                ![c].pool = IF found /\ world.k8s THEN Renewed(@) ELSE @,
                                ![c].step = IF found /\ world.k8s THEN "get" ELSE "done"]
        /\ kept' = IF found THEN [kept EXCEPT !.at = now] ELSE kept
        /\ UNCHANGED <<world, now, configMap, k8sLease, watch, expiry, assign>>

\* renew_lease reads the Lease first; a missing one is an error, logged.
RenewLeaseGet(c) ==
    /\ http[c].step = "get"
    /\ KubernetesCall(Goto(c, IF k8sLease = NoTime THEN "done" ELSE "put"), Goto(c, "done"))
    /\ UNCHANGED <<now, pools, configMap, k8sLease, watch, expiry, assign, kept>>

\* The renewTime is the one taken before the read; server-side apply creates the
\* Lease again when it was deleted meanwhile.
RenewLeasePut(c) ==
    /\ http[c].step = "put"
    /\ KubernetesCall(k8sLease' = http[c].pool.renewed, UNCHANGED k8sLease)
    /\ Goto(c, "done")
    /\ UNCHANGED <<now, pools, configMap, watch, expiry, assign, kept>>

(***************************************************************************)
(* check_expired_leases, run by every replica                              *)
(***************************************************************************)

\* Mutant: the pool expires when its TTL is reached, not when it is passed.
OverdueAtTtl(t) == now >= t + LeaseDuration

Overdue(t) == now > t + LeaseDuration

SetExpiry(g, step) == expiry' = [expiry EXCEPT ![g] = [step |-> step, mine |-> FALSE]]

\* Under the read lock: is the pool in this replica's memory past its TTL?
CheckExpired(g) ==
    LET mine == pools[g] # NoPool /\ Overdue(pools[g].renewed)
    IN  /\ g \in Live /\ expiry[g].step = "idle"
        /\ mine \/ (world.k8s /\ k8sLease # NoTime /\ Overdue(k8sLease))
        /\ expiry' = [expiry EXCEPT ![g] = [step |-> IF world.k8s THEN "list" ELSE "remove", mine |-> mine]]
        /\ UNCHANGED <<world, now, pools, configMap, k8sLease, watch, assign, http, kept>>

\* list_expired_leases; when the list fails only this replica's own verdict counts.
ListExpired(g) ==
    LET listed == k8sLease # NoTime /\ Overdue(k8sLease)
        onOwn == SetExpiry(g, IF expiry[g].mine THEN "remove" ELSE "idle")
    IN  /\ expiry[g].step = "list"
        /\ KubernetesCall(IF listed /\ ~expiry[g].mine THEN SetExpiry(g, "held?") ELSE onOwn, onOwn)
        /\ UNCHANGED <<now, pools, configMap, k8sLease, watch, assign, http, kept>>

\* Mutant: a Lease whose pool this replica does not hold is left alone.
ClassifyOnlyHeld(g) ==
    /\ expiry[g].step = "held?"
    /\ SetExpiry(g, IF pools[g] # NoPool THEN "remove" ELSE "idle")
    /\ UNCHANGED <<world, now, pools, configMap, k8sLease, watch, assign, http, kept>>

\* An expired Lease of a pool this replica holds expires it; otherwise it is an orphan.
ClassifyExpired(g) ==
    /\ expiry[g].step = "held?"
    /\ SetExpiry(g, IF pools[g] # NoPool THEN "remove" ELSE "unsave")
    /\ UNCHANGED <<world, now, pools, configMap, k8sLease, watch, assign, http, kept>>

\* The pool is taken out of memory without a second look at its renewal time.
RemoveExpired(g) ==
    /\ expiry[g].step = "remove"
    /\ pools' = [pools EXCEPT ![g] = NoPool]
    /\ SetExpiry(g, IF world.k8s THEN "unsave" ELSE "idle")
    /\ UNCHANGED <<world, now, configMap, k8sLease, watch, assign, http, kept>>

DeleteExpiredConfigMap(g) ==
    /\ expiry[g].step = "unsave"
    /\ KubernetesCall(DeleteConfigMap, UNCHANGED <<configMap, watch>>)
    /\ SetExpiry(g, "unlease")
    /\ UNCHANGED <<now, pools, k8sLease, assign, http, kept>>

DeleteExpiredLease(g) ==
    /\ expiry[g].step = "unlease"
    /\ KubernetesCall(k8sLease' = NoTime, UNCHANGED k8sLease)
    /\ SetExpiry(g, "idle")
    /\ UNCHANGED <<now, pools, configMap, watch, assign, http, kept>>

(***************************************************************************)
(* assign_workers and the status write it persists                         *)
(***************************************************************************)

\* The assignment changed: memory first, then the status, renewal time included.
AssignWorkers(g, workers) ==
    LET p == [pools[g] EXCEPT !.assigned = workers]
    IN  /\ g \in Live /\ assign[g].step = "idle"
        /\ pools[g] # NoPool /\ workers # pools[g].assigned
        /\ Spend("reassign")
        /\ pools' = [pools EXCEPT ![g] = p]
        /\ assign' = [assign EXCEPT ![g] = IF world.k8s THEN [NoAssign EXCEPT !.step = "get", !.status = p] ELSE NoAssign]
        /\ UNCHANGED <<now, configMap, k8sLease, watch, expiry, http, kept>>

\* update_pool_status reads the ConfigMap and its resourceVersion...
ReadPoolStatus(g) ==
    LET read == IF configMap.pool = NoPool THEN NoAssign
                ELSE [assign[g] EXCEPT !.step = "patch", !.read = configMap.pool, !.rv = configMap.rv]
    IN  /\ assign[g].step = "get"
        /\ KubernetesCall(assign' = [assign EXCEPT ![g] = read], assign' = [assign EXCEPT ![g] = NoAssign])
        /\ UNCHANGED <<now, pools, configMap, k8sLease, watch, expiry, http, kept>>

Current(a) == configMap.pool # NoPool /\ configMap.rv = a.rv

\* ...and patches it only at that resourceVersion, retrying a conflict.
PatchPoolStatus(g) ==
    LET as == assign[g]
        again == configMap.pool # NoPool /\ as.tries + 1 < CasMaxRetries
        patched == [as.status EXCEPT !.spec = as.read.spec]
    IN  /\ as.step = "patch"
        /\ IF Current(as)
           THEN KubernetesCall(SavePool(patched), UNCHANGED <<configMap, watch>>)
           ELSE UNCHANGED <<world, configMap, watch>>
        /\ assign' = [assign EXCEPT ![g] = IF ~Current(as) /\ again
                                           THEN [as EXCEPT !.step = "get", !.tries = @ + 1] ELSE NoAssign]
        /\ UNCHANGED <<now, pools, k8sLease, expiry, http, kept>>

(***************************************************************************)
(* The ConfigMap watch                                                     *)
(***************************************************************************)

\* apply_remote_pool: older renewals are ignored; at equal times only a new status is taken.
ApplyRemotePool(mine, p) ==
    IF mine # NoPool /\ (\/ p.renewed < mine.renewed
                         \/ p.renewed = mine.renewed /\ p.spec # mine.spec)
    THEN mine ELSE p

\* One event: apply_remote_pool, or remove_remote_pool.
WatchEvent(g) ==
    /\ g \in Live /\ watch[g] # <<>>
    /\ pools' = [pools EXCEPT ![g] = IF Head(watch[g]).kind = "delete" THEN NoPool
                                     ELSE ApplyRemotePool(@, Head(watch[g]).pool)]
    /\ watch' = [watch EXCEPT ![g] = Tail(@)]
    /\ UNCHANGED <<world, now, configMap, k8sLease, expiry, assign, http, kept>>

Relisted == IF world.watching /\ configMap.pool # NoPool
            THEN <<[kind |-> "apply", pool |-> configMap.pool]>> ELSE <<>>

\* The watch breaks and restarts from a list: deletions in between are not reported.
WatchRelist(g) ==
    /\ g \in Live /\ world.watching
    /\ Spend("relist")
    /\ watch' = [watch EXCEPT ![g] = Relisted]
    /\ UNCHANGED <<now, pools, configMap, k8sLease, expiry, assign, http, kept>>

\* A replica restarts: its memory and tasks are gone, restore_from_k8s lists the ConfigMaps.
Restart(g) ==
    /\ g \in Live
    /\ Spend("restart")
    /\ pools' = [pools EXCEPT ![g] = configMap.pool]
    /\ watch' = [watch EXCEPT ![g] = Relisted]
    /\ expiry' = [expiry EXCEPT ![g] = [step |-> "idle", mine |-> FALSE]]
    /\ assign' = [assign EXCEPT ![g] = NoAssign]
    /\ http' = [c \in Calls |-> IF http[c].at = g /\ http[c].step # "done"
                                THEN [http[c] EXCEPT !.step = "lost"] ELSE http[c]]
    /\ UNCHANGED <<now, configMap, k8sLease, kept>>

\* Nothing a handler, a sweep or the watch still has to do.
Idle ==
    /\ Sweepless
    /\ \A g \in Live : watch[g] = <<>>
    /\ \A c \in Calls : http[c].step \in {"idle", "done", "lost"}

\* In a prompt world no Kubernetes call or watch event takes as long as a tick.
Tick ==
    /\ now < MaxNow
    /\ world.prompt => Idle
    /\ now' = now + 1
    /\ kept' = [kept EXCEPT !.live = @ /\ now + 1 <= kept.at + LeaseDuration]
    /\ UNCHANGED <<world, pools, configMap, k8sLease, watch, expiry, assign, http>>

PoolInit ==
    /\ now = 0
    /\ pools = [g \in Gateways |-> NoPool]
    /\ configMap = [pool |-> NoPool, rv |-> 0]
    /\ k8sLease = NoTime
    /\ watch = [g \in Gateways |-> <<>>]
    /\ expiry = [g \in Gateways |-> [step |-> "idle", mine |-> FALSE]]
    /\ assign = [g \in Gateways |-> NoAssign]
    /\ http = [c \in Calls |-> NoCall]
    /\ kept = [live |-> FALSE, at |-> 0]

\* Steps of handlers and loops that nothing but Kubernetes can delay.
GatewayStep ==
    \/ \E c \in Calls :
          \/ \E g \in Gateways : CreatePool(g, c) \/ DeletePool(g, c) \/ RenewPool(g, c)
          \/ PersistPool(c) \/ CreateOrRenewLease(c)
          \/ DeletePoolConfigMap(c) \/ DeletePoolLease(c)
          \/ RenewLeaseGet(c) \/ RenewLeasePut(c)
    \/ \E g \in Gateways :
          \/ CheckExpired(g) \/ ListExpired(g) \/ ClassifyExpired(g) \/ RemoveExpired(g)
          \/ DeleteExpiredConfigMap(g) \/ DeleteExpiredLease(g)
          \/ ReadPoolStatus(g) \/ PatchPoolStatus(g)
          \/ WatchEvent(g)

\* What the environment brings about: nothing obliges it to.
GatewayFault ==
    \/ \E c \in Calls : RefuseCreate(c)
    \/ \E g \in Gateways :
          \/ \E workers \in Assignments : AssignWorkers(g, workers)
          \/ WatchRelist(g) \/ Restart(g)
================================================================================
