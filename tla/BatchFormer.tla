----------------------------- MODULE BatchFormer -----------------------------
(***************************************************************************)
(* How a batch is cut from the pending items of one queue (core/batcher.py *)
(* BatchFormer._extract_batch) and put into groups that can share a        *)
(* forward pass (core/worker/model_worker.py _group_by_inference_config).  *)
(* An item is a pair of its request and its index in it; what an item      *)
(* costs and which config it runs with are functions of its request.       *)
(***************************************************************************)
EXTENDS Naturals, Sequences, SequencesExt, FiniteSetsExt, TLC

\* pending.sort by cost: a stable sort.
SortByCost(items, cost) ==
  LET Of(i) == cost[items[i][1]]
      Before(i, k) == Of(i) < Of(k) \/ (Of(i) = Of(k) /\ i < k)
      order == SortSeq([i \in DOMAIN items |-> i], Before)
  IN  [i \in DOMAIN items |-> items[order[i]]]

TotalCost(items, cost) ==
  FoldLeft(LAMBDA sum, item : sum + cost[item[1]], 0, items)

\* _extract_batch: how many of the cheapest items go.  The first one always
\* goes; the others while the limits hold.
TakeCount(sorted, cost, maxCost, maxRequests, maxItems) ==
  Max({k \in 1..Len(sorted) :
         \/ k = 1
         \/ /\ k <= maxRequests /\ k <= maxItems
            /\ TotalCost(SubSeq(sorted, 1, k), cost) <= maxCost})

\* The batch, and what stays pending.
ExtractBatch(pending, cost, maxCost, maxRequests, maxItems) ==
  LET sorted == SortByCost(pending, cost)
      n == TakeCount(sorted, cost, maxCost, maxRequests, maxItems)
  IN  [batch |-> SubSeq(sorted, 1, n), rest |-> SubSeq(sorted, n + 1, Len(sorted))]

\* _group_by_inference_config: one group per config key, in the order in which
\* the keys first appear.
GroupByConfig(items, key) ==
  LET firsts == SelectSeq([i \in DOMAIN items |-> i],
                  LAMBDA i : \A k \in 1..(i - 1) : key[items[k][1]] # key[items[i][1]])
  IN  [g \in DOMAIN firsts |->
         SelectSeq(items, LAMBDA item : key[item[1]] = key[items[firsts[g]][1]])]

RequestsOf(items) == {items[i][1] : i \in DOMAIN items}
=============================================================================
