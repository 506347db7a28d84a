------------------------- MODULE MCAdapterPlacement -------------------------
(* ConfigFanout by itself, with every request the control plane can send   *)
(* (focus "config"), and the whole pool.  Placements depend on the ready   *)
(* flags but not on what a fan-out carries: one export of the baked        *)
(* configs is enough there (focus "load", without pins), or none, since    *)
(* failed and successful calls set the same flags (focus "pins", without   *)
(* scheduler items).                                                       *)
EXTENDS AdapterPlacement, TLC
CONSTANTS m1, m2, v1
VARIABLE focus

MCBaseline == [m \in Models |-> IF m = m1 THEN v1 ELSE Absent]
MCPinBaseline == {m2}

\* One export of the baked configs at most, and no heartbeats.
LoadNext == /\ \/ (Fanout \/ Probes) /\ UNCHANGED fleetVars
               \/ Scheduling \/ Calls
            /\ req'.want = Baseline /\ req'.scope \in {{}, Models}
            /\ faulty' = {} /\ generation' <= 1

\* Calls that find the model unservable move it; those for m1 are enough.
PinNext == /\ \/ \E x \in Executors : EnsureModelReady(x) \/ EnsureReturns(x) \/ ClearFailed(x)
              \/ Pinning
              \/ Probes /\ UNCHANGED fleetVars
           /\ \A x \in Executors : task'[x].model \in {m1, NoItem}
           /\ desired' \in {{m1}, {m1, m2}}

ConfigNext == \/ FanoutStep
              \/ Batches /\ UNCHANGED fleetVars
              \/ \E c \in Children : RestartWithBaselinePins(c)

MCInit == /\ PoolInit
          /\ focus \in {"config", "load", "pins"}
          /\ desired = (IF focus = "pins" THEN {m1} ELSE {})
          /\ focus # "config" => advertised = NoHash

\* One health success at a time: each child's race with the fan-out is its own.
OneProbe == Cardinality({c \in Children : probe'[c] # "idle"}) <= 1

MCNext ==
  /\ focus' = focus
  /\ \/ focus = "config" /\ ConfigNext
     \/ focus = "load" /\ LoadNext
     \/ focus = "pins" /\ PinNext
  /\ OneProbe

MCSpec == MCInit /\ [][MCNext]_<<allVars, focus>>
=============================================================================
