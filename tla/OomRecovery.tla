----------------------------- MODULE OomRecovery -----------------------------
(***************************************************************************)
(* Reactive out-of-memory recovery of one group of items                   *)
(* (core/worker/oom_recovery.py, class BatchExecutor).  The recursion of   *)
(* run, _run_split and _isolate_invalid_input is a stack of frames, the    *)
(* slice being dispatched on top; a frame is a slice, the strategies still *)
(* to try on it and, once it is a split, how deep.                         *)
(***************************************************************************)
EXTENDS BatchFormer

CONSTANTS Strategy,       \* OomRecoveryConfig.strategy
          MaxSplitDepth   \* OomRecoveryConfig.max_split_depth

Whole == MaxSplitDepth + 1     \* the depth of a frame that is no split

\* run: the first attempt on a slice.
RunFrame(items) == [items |-> items, plan |-> Strategy, depth |-> Whole]

SplitFrame(items, depth) == [items |-> items, plan |-> <<>>, depth |-> depth]

\* An outcome: the new stack, whether the registry is asked to evict a model
\* first, and the slice that is given up.
Retry(frame, rest) == [stack |-> <<frame>> \o rest, evict |-> FALSE, failed |-> <<>>]

\* Mutant of Halves: the item in the middle is in both halves.
HalvesOverlapping(items) ==
  <<SubSeq(items, 1, Len(items) \div 2), SubSeq(items, Len(items) \div 2, Len(items))>>

Halves(items) ==
  <<SubSeq(items, 1, Len(items) \div 2), SubSeq(items, Len(items) \div 2 + 1, Len(items))>>

\* run and _run_split after a dispatch ran out of memory.
AfterOom(stack) ==
  LET f == Head(stack)
      rest == Tail(stack)
      givenUp == [stack |-> rest, evict |-> FALSE, failed |-> f.items]
  IN  IF f.depth # Whole
      THEN IF Len(f.items) <= 1 \/ f.depth >= MaxSplitDepth THEN givenUp
           ELSE Retry(SplitFrame(Halves(f.items)[1], f.depth + 1),
                      <<SplitFrame(Halves(f.items)[2], f.depth + 1)>> \o rest)
      ELSE IF f.plan = <<>> THEN givenUp
      ELSE CASE Head(f.plan) = "cache_clear" ->
                  Retry([f EXCEPT !.plan = Tail(@)], rest)
             [] Head(f.plan) = "split_batch" ->
                  Retry(SplitFrame(f.items, 0), rest)
             [] Head(f.plan) = "evict_lru" ->
                  [stack |-> <<[f EXCEPT !.plan = Tail(@)]>> \o rest,
                   evict |-> TRUE, failed |-> <<>>]

\* _isolate_invalid_input: a slice of one request fails; otherwise each half of
\* its requests is run from the start.
AfterInvalid(stack) ==
  LET f == Head(stack)
      requests == GroupByConfig(f.items, [r \in RequestsOf(f.items) |-> r])
      left == UNION {RequestsOf(requests[g]) : g \in 1..(Len(requests) \div 2)}
      Of(S) == RunFrame(SelectSeq(f.items, LAMBDA item : item[1] \in S))
  IN  IF Len(requests) <= 1
      THEN [stack |-> Tail(stack), evict |-> FALSE, failed |-> f.items]
      ELSE Retry(Of(left), <<Of(RequestsOf(f.items) \ left)>> \o Tail(stack))
=============================================================================
