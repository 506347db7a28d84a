---------------------------- MODULE ProcessorState ----------------------------
(***************************************************************************)
(* What the generation requests of one worker process share                *)
(* (processors/streaming.py): the key-value cache reservations, the cancel *)
(* handles and tombstones, and the single-flight grammar compile.  Every   *)
(* operator takes the state of the process and returns it changed.         *)
(***************************************************************************)
EXTENDS Naturals, Sequences

CONSTANTS Budget,        \* kv_budget_tokens of the worker
          ReleasedMax,   \* _RELEASED_REQUESTS_MAX
          TombstoneMax   \* _CANCEL_TOMBSTONE_MAX

ASSUME LimitsAssumption ==
  /\ Budget \in Nat \ {0}
  /\ ReleasedMax \in Nat \ {0}
  /\ TombstoneMax \in Nat \ {0}

Fresh ==
  [reserved |-> 0, inflight |-> 0,   \* the admission counters
   released |-> <<>>,                \* attempts released, the oldest first
   handles  |-> {},                  \* <<request, attempt>> that can be cancelled
   tombs    |-> <<>>,                \* cancel tombstones, the oldest first
   cached   |-> FALSE,               \* the grammar has been compiled
   leader   |-> 0,                   \* the attempt that compiles it, or 0
   warm     |-> "no"]                \* the prewarm of the process

\* _try_reserve: without admission (the default), or without a budget, everything
\* is let in; the counters are kept all the same.
Admits(S, n, gated) == gated => S.reserved + n <= Budget
Without(s, x) == SelectSeq(s, LAMBDA y : y # x)
Reserve(S, a, n) ==
  [S EXCEPT !.reserved = @ + n, !.inflight = @ + 1, !.released = Without(@, a)]

\* _release_reservation: once per attempt (_release_dedup_key), as long as the
\* attempt is remembered.
Newest(s, n) == IF Len(s) > n THEN SubSeq(s, Len(s) - n + 1, Len(s)) ELSE s
Minus(x, y) == IF x > y THEN x - y ELSE 0
ReleaseRequest(S, r, a, n) ==   \* mutant: one release per request
  IF \E i \in DOMAIN S.released : S.released[i] = r THEN S
  ELSE [S EXCEPT !.released = Newest(Append(@, r), ReleasedMax),
                 !.reserved = Minus(@, n), !.inflight = Minus(@, 1)]

Release(S, r, a, n) ==
  IF \E i \in DOMAIN S.released : S.released[i] = a THEN S
  ELSE [S EXCEPT !.released = Newest(Append(@, a), ReleasedMax),
                 !.reserved = Minus(@, n), !.inflight = Minus(@, 1)]

\* _register_cancel and _unregister_cancel: each attempt owns its handle.
Register(S, r, a) == [S EXCEPT !.handles = @ \cup {<<r, a>>}]

UnregisterRequest(S, r, a) == [S EXCEPT !.handles = {h \in @ : h[1] # r}]   \* mutant

Unregister(S, r, a) == [S EXCEPT !.handles = @ \ {<<r, a>>}]

Signalled(S, r) == {h[2] : h \in {g \in S.handles : g[1] = r}}

\* _add_tombstone: at the cap the expired ones go first, then the oldest.
Entry(r) == [req |-> r, live |-> TRUE]
AddTombstone(S, r) ==
  LET swept == IF Len(S.tombs) >= TombstoneMax
               THEN SelectSeq(S.tombs, LAMBDA t : t.live) ELSE S.tombs
      kept == Newest(swept, TombstoneMax - 1)
  IN [S EXCEPT !.tombs = Append(SelectSeq(kept, LAMBDA t : t.req # r), Entry(r))]

\* signal_cancel: the live attempts are signalled, or a tombstone is left.
SignalCancel(S, r) == IF Signalled(S, r) = {} THEN AddTombstone(S, r) ELSE S

\* _check_and_consume_tombstone
HasTombstone(S, r) == \E i \in DOMAIN S.tombs : S.tombs[i] = Entry(r)
ConsumeTombstone(S, r) ==
  [S EXCEPT !.tombs = SelectSeq(@, LAMBDA t : t.req # r)]

\* The time to live of every tombstone passes.
Expire(S) == [S EXCEPT !.tombs = [i \in DOMAIN @ |-> [@[i] EXCEPT !.live = FALSE]]]
===============================================================================
