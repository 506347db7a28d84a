---------------------------- MODULE StreamCollector ----------------------------
(***************************************************************************)
(* The gateway's collector of one generation stream (queue/streaming.rs):  *)
(* it latches one attempt, drops the chunks of any other, rejects gaps in  *)
(* the sequence, and can give the request a second attempt.                *)
(*                                                                         *)
(* A chunk is [att, seq, text, done, reason].  Attempts are numbers, 0 is  *)
(* no attempt; last is the highest sequence number applied plus one, so    *)
(* that 0 is none.  The tap of an SSE request is a bounded ring of applied *)
(* chunks from which the handler feeds its client.                         *)
(***************************************************************************)
EXTENDS Naturals, Sequences

CONSTANT TapMax   \* CHUNK_TAP_CAPACITY

ASSUME TapAssumption == TapMax \in Nat \ {0}

Blank == [cur |-> 0, last |-> 0, text |-> <<>>, output |-> FALSE]

NewCollector ==
  [open |-> TRUE, at |-> Blank, abandoned |-> 0, republished |-> FALSE,
   generation |-> 0, snapshot |-> Blank]

\* apply: what becomes of a chunk, and the collector after it.
StaleOf(c, k) == IF c.at.cur = 0 THEN c.abandoned = k.att ELSE c.at.cur # k.att
Applied(c, k) ==
  IF StaleOf(c, k) THEN "stale"
  ELSE IF k.done THEN "terminal"
  ELSE IF c.at.last > 0 /\ k.seq < c.at.last THEN "duplicate"
  ELSE IF c.at.last > 0 /\ k.seq > c.at.last THEN "gap"
  ELSE "delta"

Apply(c, k) ==
  IF Applied(c, k) \notin {"delta", "terminal"} THEN c
  ELSE [c EXCEPT !.at.cur = k.att, !.abandoned = IF c.at.cur = 0 THEN 0 ELSE @,
                 !.at.last = k.seq + 1, !.at.output = @ \/ k.text # <<>>,
                 !.at.text = @ \o k.text]

\* install_chunk_tap, and the send of apply: a full ring overwrites its oldest
\* chunk, and the reader is told that it lagged.  No attempt is ever taken back:
\* a bump clears the collector, not the tap.
NewTap == [unread |-> <<>>, lagged |-> FALSE, sent |-> <<>>]

TapSend(t, k) ==
  IF Len(t.unread) < TapMax THEN [t EXCEPT !.unread = Append(@, k)]
  ELSE [t EXCEPT !.unread = Append(Tail(@), k), !.lagged = TRUE]

\* bump_attempt_generation: the partial output is put aside.
Bump(c) ==
  [c EXCEPT !.generation = @ + 1, !.snapshot = c.at, !.at = Blank,
            !.abandoned = c.at.cur]

\* record_abandoned_attempt_id
Abandon(c, a) == IF c.at.cur # 0 \/ c.abandoned # 0 THEN c ELSE [c EXCEPT !.abandoned = a]

\* rewind_attempt_generation
Rewind(c) ==
  [c EXCEPT !.generation = @ - 1, !.at = c.snapshot, !.snapshot = Blank, !.abandoned = 0]

\* nak_is_stale and already_republished_nak_decision
NakIsStale(c, a) == IF c.at.cur # 0 THEN c.at.cur # a ELSE c.abandoned = a
===============================================================================
