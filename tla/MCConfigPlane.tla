--------------------------- MODULE MCConfigPlane ---------------------------
(* One control plane with a worker, with a gateway, or alone.  Two models are
   of the worker's pool, one of another.                                    *)
EXTENDS GatewayConfig
CONSTANTS a, b, c, p, q, x, y

With(prof, content) == [Empty EXCEPT ![prof] = content]
NoBaked == [m \in Models |-> Empty]
OneBaked == [NoBaked EXCEPT ![a] = With(p, x)]

\* The worker's side under appends to its own models and to another pool's.
Appends == [worker |-> TRUE, gateway |-> FALSE, seeded |-> FALSE,
            baked |-> NoBaked, ops |-> {"add"},
            models |-> {a, b, c}, bodies |-> {With(p, x)},
            faults |-> {"crash", "epoch_write", "http"},
            maxWrites |-> 3, maxFaults |-> 1]

\* Fewer writes and more faults.
Failures == [Appends EXCEPT !.maxWrites = 2, !.maxFaults = 2,
                            !.faults = @ \cup {"publish", "ipc", "store_write"}]

\* Edits that can restore an earlier catalog.
Edits == [Appends EXCEPT !.ops = AllOps, !.models = {a},
                         !.bodies = {With(p, x), With(p, y), Empty},
                         !.faults = {"publish", "http", "cancel"}]

\* Appends to a model of the image, under the faults nothing reports.
Unnoticed == [Appends EXCEPT !.baked = OneBaked, !.models = {a, b},
                             !.bodies = {With(p, x), With(q, x)},
                             !.faults = {"crash", "epoch_read", "startup_http",
                                         "startup_ipc", "backend_restart"},
                             !.maxWrites = 2, !.maxFaults = 2]

\* The control plane alone, with every write and every fault of its own.
WritesOnly == [Appends EXCEPT !.worker = FALSE, !.ops = AllOps, !.models = {a, b},
                              !.bodies = Config,
                              !.faults = {"crash", "store_write", "epoch_read",
                                          "epoch_write", "publish", "cancel"},
                              !.maxWrites = 3, !.maxFaults = 2]

\* The gateway's side, without a seed, under appends to one model.
GatewayAppends == [Appends EXCEPT !.worker = FALSE, !.gateway = TRUE,
                                  !.models = {a},
                                  !.bodies = {With(p, x), [With(p, x) EXCEPT ![q] = x]},
                                  !.faults = {"epoch_write"},
                                  !.maxWrites = 2]

\* The same with a seed: a model of the image is replaced and put back.
GatewayEdits == [GatewayAppends EXCEPT !.seeded = TRUE, !.baked = OneBaked,
                                       !.ops = {"replace", "delete"},
                                       !.bodies = {With(q, x), Empty},
                                       !.faults = {"http", "gateway_restart"}]

\* An epoch file that fails under the gateway's polls.
GatewayEpochs == [GatewayAppends EXCEPT !.bodies = {With(p, x)}, !.maxWrites = 1,
                                        !.faults = {"epoch_read"}]

MCWorkloads == {Appends, Failures, Edits, Unnoticed, WritesOnly, GatewayAppends,
                GatewayEdits, GatewayEpochs}

\* Two appends and no fault: the subject and the export race.
LateDelta == {[GatewayAppends EXCEPT !.faults = {}]}
=============================================================================
