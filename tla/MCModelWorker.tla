---------------------------- MODULE MCModelWorker ----------------------------
(***************************************************************************)
(* Three queued requests, the first with two items of twice the cost, and  *)
(* a pre-formed one.                                                       *)
(***************************************************************************)
EXTENDS ModelWorker

CONSTANTS r1, r2, r3, p1, base, lora, other

MCQueued == {r1, r2, r3}
MCPreformed == {p1}
MCLoras == {base, lora, other}
MCStrategy == <<"cache_clear", "evict_lru", "split_batch">>

A(items, cost, l, config, bad) ==
  [items |-> items, cost |-> cost, lora |-> l, config |-> config, bad |-> bad]
Pre == p1 :> A(2, 1, lora, "a", {})
\* Two LoRAs; one request with an invalid item in a batch with another.
TwoLoras == (r1 :> A(2, 2, base, "a", {})) @@ (r2 :> A(1, 1, base, "a", {1}))
              @@ (r3 :> A(1, 1, lora, "a", {})) @@ Pre
\* One queue, two configurations in a batch.
TwoConfigs == (r1 :> A(2, 2, base, "a", {})) @@ (r2 :> A(1, 1, base, "a", {}))
                @@ (r3 :> A(1, 1, base, "b", {}))

F(oom, error, abandon, cancel, halt, hurry) ==
  [NoBudget EXCEPT !["oom"] = oom, !["error"] = error, !["abandon"] = abandon,
                   !["cancel"] = cancel, !["stop"] = halt, !["hurry"] = hurry]
\* The LoRA of two requests, and another, come and go.
Reloads == [NoBudget EXCEPT !["lora"] = 2]
Restarts == [NoBudget EXCEPT !["stop"] = 2, !["hurry"] = 2, !["restart"] = 1]

W(what, faults, loras) == [ask |-> what, faults |-> faults, held |-> loras]
MCWorkloads ==
  {W(TwoLoras, f, {lora}) : f \in {F(0, 0, 0, 1, 1, 2), F(2, 0, 0, 0, 0, 0)}}
  \cup {W(TwoLoras, Reloads, loras) : loras \in {{lora}, {lora, other}}}
  \cup {W(TwoConfigs, f, {}) :
     f \in {F(4, 0, 0, 0, 0, 0), F(2, 1, 0, 0, 1, 0), F(0, 0, 1, 0, 1, 0), Restarts}}
=============================================================================
