--------------------------- MODULE GenerationStream ---------------------------
(***************************************************************************)
(* A generation from the gateway through the queue to a worker and back.   *)
(* The gateway publishes a request, collects its chunks, retries it on the *)
(* pool when a worker refuses it or its first chunk is late, and cancels   *)
(* it on every worker; the workers are StreamingProcessor's.               *)
(***************************************************************************)
EXTENDS StreamingProcessor, StreamCollector, FiniteSets

VARIABLES col,      \* col[r]: the collector, or Nothing
          drv,      \* drv[r]: the handler: wait, cancelled, acking, stored
          inbox,    \* inbox[r]: the inbox task: idle, or a republish: acking, stored
          tap,      \* tap[r]: the chunk tap, and what an SSE client was sent from it
          outcome,  \* outcome[r]: what the client is told at the end
          cancels,  \* <<worker, request>>: cancels not yet delivered
          heard,    \* attempts that were running when their worker got a cancel
          lost      \* requests with an envelope the wire lost

gateVars == <<col, drv, inbox, tap, outcome, cancels, heard, lost>>
vars == <<procVars, gateVars>>

\* publish_generate_streaming: the collector is there before the message.
Init ==
  /\ world \in Workloads
  /\ wk = [w \in Workers |-> [Fresh EXCEPT !.warm = ask.warm]]
  /\ att = [a \in Attempts |-> NoAttempt]
  /\ msg = [m \in Messages |->
             [st |-> IF m[1] \in ask.requests /\ m[2] = 0 THEN "ready" ELSE "none",
              by |-> 0, tries |-> 0]]
  /\ wire = [r \in Requests |-> <<>>]
  /\ col = [r \in Requests |-> IF r \in ask.requests THEN NewCollector ELSE Nothing]
  /\ drv = [r \in Requests |-> "wait"]
  /\ inbox = [r \in Requests |-> "idle"]
  /\ tap = [r \in Requests |-> NewTap]
  /\ outcome = [r \in Requests |-> Nothing]
  /\ cancels = {} /\ heard = {} /\ lost = {}

Pending(r) == col[r] # Nothing /\ col[r].open
Closed(r) == [col EXCEPT ![r].open = FALSE]
Waiting(r) == col[r] # Nothing /\ outcome[r] = Nothing /\ drv[r] = "wait"

\* fail_pending_stream, and the terminal of handle_chunk: the collector goes and
\* the handler is told.
Ended(r, c, how, reason) ==
  /\ col' = [col EXCEPT ![r] = [c EXCEPT !.open = FALSE]]
  /\ outcome' = [outcome EXCEPT ![r] =
       IF @ # Nothing THEN @   \* nobody is listening any more
       ELSE [kind |-> how, reason |-> reason, att |-> c.at.cur,
             text |-> IF how = "terminal" THEN c.at.text ELSE <<>>]]

(***************************************************************************)
(* The inbox: one envelope at a time, in the order it was published        *)
(***************************************************************************)
Received(r, kind) ==
  /\ inbox[r] = "idle" /\ wire[r] # <<>> /\ Head(wire[r]).kind = kind
  /\ wire' = [wire EXCEPT ![r] = Tail(@)]

\* The terminal of an SSE request reaches its client through the tap, unless it
\* carries an error: the driver looks at the outcome first and ends the stream.
ViaTap(r, k) == ask.sse[r] /\ k.reason \in {"stop", "cancelled"}

HandleChunk(r) ==
  /\ Received(r, "chunk")
  /\ LET k == Head(wire[r])
         c == Apply(col[r], k)
         how == Applied(col[r], k)
     IN IF ~Pending(r) THEN UNCHANGED <<col, tap, outcome>>
        ELSE /\ CASE how = "terminal" /\ ViaTap(r, k) ->
                      col' = [col EXCEPT ![r] = [c EXCEPT !.open = FALSE]] /\ UNCHANGED outcome
                  [] how = "terminal" /\ ~ViaTap(r, k) -> Ended(r, c, "terminal", k.reason)
                  [] how = "gap" -> Ended(r, c, "failed", "gap")
                  [] OTHER -> col' = [col EXCEPT ![r] = c] /\ UNCHANGED outcome
             /\ tap' = [tap EXCEPT ![r] =
                  IF ask.sse[r] /\ outcome'[r] = Nothing /\ how \in {"delta", "terminal"}
                  THEN TapSend(@, k) ELSE @]   \* no receiver, no send
  /\ UNCHANGED <<world, wk, att, msg, drv, inbox, cancels, heard, lost>>

\* republish_to_pool_outcome_with_abandoned_attempt, up to its publish.
Republishing(c, a) == [Abandon(Bump(c), a) EXCEPT !.republished = TRUE]

HandleNak(r) ==
  /\ Received(r, "nak")
  /\ LET a == Head(wire[r]).att
         c == col[r]
     IN IF ~Pending(r) \/ NakIsStale(c, a)
        THEN UNCHANGED <<col, inbox, outcome>>
        ELSE IF ~c.republished
        THEN /\ col' = [col EXCEPT ![r] = Republishing(c, a)]
             /\ inbox' = [inbox EXCEPT ![r] = "acking"]
             /\ UNCHANGED outcome
        ELSE IF c.at.cur = 0     \* wait for the successor
        THEN /\ col' = [col EXCEPT ![r] = Abandon(c, a)]
             /\ UNCHANGED <<inbox, outcome>>
        ELSE Ended(r, c, "failed", "saturated") /\ UNCHANGED inbox
  /\ UNCHANGED <<world, wk, att, msg, drv, cancels, tap, heard, lost>>

\* The republish is stored under the id of its generation; a second copy of
\* the same id is dropped by the stream.
Id(r) == <<r, col[r].generation>>
Store(r) ==
  msg' = [msg EXCEPT ![Id(r)] = IF @.st = "none" THEN [@ EXCEPT !.st = "ready"] ELSE @]

RolledBack(r) ==
  IF Pending(r) /\ col[r].republished
  THEN [Rewind(col[r]) EXCEPT !.republished = FALSE] ELSE col[r]

NakStored(r) ==
  /\ inbox[r] = "acking" /\ Store(r)
  /\ inbox' = [inbox EXCEPT ![r] = "stored"]
  /\ UNCHANGED <<world, wk, att, wire, col, drv, outcome, cancels, tap, heard, lost>>

NakRepublished(r) ==
  /\ inbox[r] = "stored"
  /\ inbox' = [inbox EXCEPT ![r] = "idle"]
  /\ UNCHANGED <<procVars, col, drv, outcome, cancels, tap, heard, lost>>

\* The publish, or only its acknowledgement, fails.
NakRepublishFailed(r) ==
  /\ inbox[r] # "idle" /\ Spend("republish")
  /\ inbox' = [inbox EXCEPT ![r] = "idle"]
  /\ IF Pending(r) THEN Ended(r, RolledBack(r), "failed", "saturated")
     ELSE UNCHANGED <<col, outcome>>
  /\ UNCHANGED <<wk, att, msg, wire, drv, cancels, tap, heard, lost>>

(***************************************************************************)
(* The handler that waits for the stream (proxy.rs, sse.rs)                *)
(***************************************************************************)
CancelEverywhere(r) == cancels' = cancels \cup (ask.workers \X {r})

\* run_sse_driver: the next chunk of the tap goes to the client, whatever attempt
\* it is of; the terminal is the end of the stream.
ForwardChunk(r) ==
  /\ Waiting(r) /\ tap[r].unread # <<>> /\ ~tap[r].lagged
  /\ LET k == Head(tap[r].unread)
         sent == tap[r].sent \o k.text
     IN /\ tap' = [tap EXCEPT ![r] = [@ EXCEPT !.unread = Tail(@), !.sent = sent]]
        /\ outcome' = [outcome EXCEPT ![r] =
             IF ~k.done THEN @
             ELSE [kind |-> "terminal", reason |-> k.reason, att |-> k.att, text |-> sent]]
  /\ UNCHANGED <<procVars, col, drv, inbox, cancels, heard, lost>>

\* A generation that is already over need not be cancelled; the driver may not
\* have seen that it is.
CancelUnlessOver(r) == CancelEverywhere(r) \/ (~Pending(r) /\ UNCHANGED cancels)

\* Chunks were overwritten before they were read: the client is told so.
Lagged(r) ==
  /\ Waiting(r) /\ tap[r].lagged
  /\ outcome' = [outcome EXCEPT ![r] =
       [kind |-> "failed", reason |-> "lagged", att |-> 0, text |-> <<>>]]
  /\ col' = Closed(r)
  /\ CancelUnlessOver(r)
  /\ UNCHANGED <<procVars, drv, inbox, tap, heard, lost>>

\* first_chunk_deadline_action: the first chunk is late on a directly dispatched
\* request whose lane has another worker: cancel, then republish.  The plain
\* handler asks the collector for a first chunk, the SSE one what it has sent.
FirstChunkLate(r) ==
  /\ Waiting(r)
  /\ IF ask.sse[r] THEN tap[r].sent = <<>> ELSE ~col[r].at.output
  /\ ask.to[r] # Nothing /\ Cardinality(ask.workers) > 1 /\ Spend("first")
  /\ CancelEverywhere(r)
  /\ drv' = [drv EXCEPT ![r] = "cancelled"]
  /\ UNCHANGED <<wk, att, msg, wire, col, inbox, outcome, tap, heard, lost>>

GaveUp(r, reason) ==
  /\ col' = Closed(r)
  /\ outcome' = [outcome EXCEPT ![r] =
       [kind |-> "timeout", reason |-> reason, att |-> 0, text |-> <<>>]]
  /\ CancelEverywhere(r)

\* Nothing to republish, or no token left in the bucket: the plain handler
\* gives up, even if the terminal has come meanwhile; the streaming one waits on.
FallbackRefused(r) ==
  /\ drv[r] = "cancelled"
  /\ \/ Pending(r) /\ col[r].republished /\ UNCHANGED world
     \/ ~Pending(r) /\ UNCHANGED world
     \/ Pending(r) /\ ~col[r].republished /\ Spend("limit")
  /\ drv' = [drv EXCEPT ![r] = "wait"]
  /\ IF ask.sse[r] THEN UNCHANGED <<col, outcome, cancels>> ELSE GaveUp(r, "first_chunk")
  /\ UNCHANGED <<wk, att, msg, wire, inbox, tap, heard, lost>>

Fallback(r) ==
  /\ drv[r] = "cancelled" /\ Pending(r) /\ ~col[r].republished
  /\ col' = [col EXCEPT ![r] = [Bump(@) EXCEPT !.republished = TRUE]]
  /\ drv' = [drv EXCEPT ![r] = "acking"]
  /\ UNCHANGED <<procVars, inbox, outcome, cancels, tap, heard, lost>>

FallbackStored(r) ==
  /\ drv[r] = "acking" /\ Store(r)
  /\ drv' = [drv EXCEPT ![r] = "stored"]
  /\ UNCHANGED <<world, wk, att, wire, col, inbox, outcome, cancels, tap, heard, lost>>

FallbackAcked(r) ==
  /\ drv[r] = "stored"
  /\ drv' = [drv EXCEPT ![r] = "wait"]
  /\ UNCHANGED <<procVars, col, inbox, outcome, cancels, tap, heard, lost>>

FallbackFailed(r) ==
  /\ drv[r] \in {"acking", "stored"} /\ Spend("republish")
  /\ drv' = [drv EXCEPT ![r] = "wait"]
  /\ GaveUp(r, "first_chunk")
  /\ UNCHANGED <<wk, att, msg, wire, inbox, tap, heard, lost>>

\* The overall or the inter-chunk deadline.
Timeout(r) ==
  /\ Waiting(r) /\ Spend("timeout")
  /\ GaveUp(r, "overall")
  /\ UNCHANGED <<wk, att, msg, wire, drv, inbox, tap, heard, lost>>

\* The client goes away; the collector stays for a grace period, so that the
\* cancelled terminal still finds it.
Disconnect(r) ==
  /\ Waiting(r) /\ Spend("leave")
  /\ outcome' = [outcome EXCEPT ![r] =
       [kind |-> "gone", reason |-> "client", att |-> 0, text |-> <<>>]]
  /\ CancelUnlessOver(r)
  /\ UNCHANGED <<wk, att, msg, wire, col, drv, inbox, tap, heard, lost>>

GraceOver(r) ==
  /\ outcome[r] # Nothing /\ outcome[r].kind = "gone" /\ Pending(r)
  /\ col' = Closed(r)
  /\ UNCHANGED <<procVars, drv, inbox, outcome, cancels, tap, heard, lost>>

(***************************************************************************)
(* The wire                                                                *)
(***************************************************************************)
\* The cancel reaches the processor of every worker.
DeliverCancel(w, r) ==
  /\ <<w, r>> \in cancels
  /\ cancels' = cancels \ {<<w, r>>}
  /\ LET hit == Signalled(wk[w], r)
     IN att' = [a \in Attempts |-> IF a \in hit THEN [att[a] EXCEPT !.cancelled = TRUE]
                                                ELSE att[a]]
  /\ wk' = [wk EXCEPT ![w] = SignalCancel(@, r)]
  /\ heard' = heard \cup {a \in On(w) : Req(a) = r /\ att[a].pc \in Registered}
  /\ UNCHANGED <<world, msg, wire, col, drv, inbox, tap, outcome, lost>>

TombstonesExpire(w) ==
  /\ \E i \in DOMAIN wk[w].tombs : wk[w].tombs[i].live
  /\ Spend("expire")
  /\ wk' = [wk EXCEPT ![w] = Expire(@)]
  /\ UNCHANGED <<att, msg, wire, gateVars>>

\* Core messaging is at most once.
DropEnvelope(r) ==
  /\ wire[r] # <<>> /\ Spend("drop")
  /\ wire' = [wire EXCEPT ![r] = Tail(@)]
  /\ lost' = lost \cup {r}
  /\ UNCHANGED <<wk, att, msg, col, drv, inbox, outcome, cancels, tap, heard>>

(***************************************************************************)
(* Specification                                                           *)
(***************************************************************************)
AttemptStep(a) ==
  \/ StartPrewarm(a) \/ EndPrewarm(a) \/ Start(a)
  \/ Loaded(a) \/ Rendered(a)
  \/ GrammarCached(a) \/ FollowCompile(a) \/ LeadCompile(a) \/ Compiled(a)
  \/ CompileShared(a) \/ Admission(a) \/ Tell(a)
  \/ TextDelta(a) \/ ToolDelta(a) \/ DoneChunk(a) \/ EndOfIterator(a)
  \/ IteratorRaised(a) \/ CancelObserved(a)
  \/ Put(a) \/ PutTimeout(a) \/ Publish(a) \/ Drained(a)
AttemptFault(a) ==
  \/ NotRegistered(a) \/ LoadFailed(a) \/ Rejected(a) \/ CompileFailed(a)
  \/ FollowTimeout(a) \/ TellFailed(a) \/ PublishFailed(a) \/ DrainTimeout(a) \/ Abort(a)
InboxStep(r) == HandleChunk(r) \/ HandleNak(r) \/ NakStored(r) \/ NakRepublished(r)
HandlerStep(r) ==
  \/ ForwardChunk(r) \/ Lagged(r)
  \/ FallbackRefused(r) \/ Fallback(r) \/ FallbackStored(r) \/ FallbackAcked(r) \/ GraceOver(r)
GatewayFault(r) ==
  \/ NakRepublishFailed(r) \/ FirstChunkLate(r) \/ FallbackFailed(r) \/ Timeout(r)
  \/ Disconnect(r) \/ DropEnvelope(r)

DeliveryStep ==
  \E w \in Workers : \/ \E m \in Messages : PickUp(m, w) /\ UNCHANGED gateVars
                     \/ \E r \in Requests : DeliverCancel(w, r)
Environment ==
  \/ \E a \in Attempts : AttemptFault(a) /\ UNCHANGED gateVars
  \/ \E r \in Requests : GatewayFault(r)
  \/ \E m \in Messages : LateRedelivery(m) /\ UNCHANGED gateVars
  \/ \E w \in Workers : Crash(w) /\ UNCHANGED gateVars
  \/ \E w \in Workers : TombstonesExpire(w)
WorkStep(a) == AttemptStep(a) /\ UNCHANGED gateVars

\* The system does not stop while a worker's task, the broker or a task of the
\* gateway can go on.  Deadlines and faults promise nothing.
Progress ==
  \/ \E a \in Attempts : WorkStep(a)
  \/ \E r \in Requests : InboxStep(r) \/ HandlerStep(r)
  \/ DeliveryStep
Next == Progress \/ Environment
Fairness == WF_vars(Progress)

Spec == Init /\ [][Next]_vars /\ Fairness

(***************************************************************************)
(* Properties                                                              *)
(***************************************************************************)
Holders(w) == {a \in On(w) : att[a].holds}
NeedOf(A) == LET need[B \in SUBSET A] ==
                   IF B = {} THEN 0
                   ELSE LET a == CHOOSE x \in B : TRUE
                        IN ask.need[Req(a)] + need[B \ {a}]
             IN need[A]

\* What a worker has reserved is exactly what its decoding attempts hold, and with
\* admission on never more than the budget: redelivered siblings, cancels, aborted tasks and failed
\* publishes each give back what they took, once (_release_reservation).
BudgetConserved ==
  \A w \in Workers :
    /\ wk[w].reserved = NeedOf(Holders(w)) /\ (ask.gated => wk[w].reserved <= Budget)
    /\ wk[w].inflight = Cardinality(Holders(w))

\* An attempt that was running when its worker received the cancel of its
\* request keeps no further token of the adapter, whatever its siblings do
\* (_register_cancel before the load, per-attempt handles, cancel wins ties: a
\* token that arrives together with the cancel is dropped).
CancelStopsDecoding ==
  [][\A a \in heard : att'[a].made = att[a].made]_vars

\* A work item is acknowledged only when a terminal or a NAK of one of its
\* deliveries is on the wire: otherwise the queue would forget a request the
\* gateway still waits for (the ACK gate of _stream_generate).
AckMeansAnswered ==
  \A m \in Messages : msg[m].st = "acked" => \E a \in Attempts : att[a].msg = m /\ att[a].told

\* What an SSE client has of an attempt before it is abandoned stays with it: the
\* chunks applied between the deadline of the first chunk and the fallback.
SentBefore(r) == IF ask.sse[r] THEN col[r].snapshot.text ELSE <<>>

\* What the client gets as a complete text is what one attempt generated, all of
\* it unless the wire lost an envelope, and without a hole even then: the queue
\* limit, failed publishes, redelivery, the fallback and a lagging reader neither
\* shorten nor mix it.  A plain client gets nothing else; in front of it an SSE
\* client has exactly what the fallback's abandoned attempt had already sent it.
CompleteMeansComplete ==
  \A r \in Requests :
    outcome[r] # Nothing /\ outcome[r].kind = "terminal" /\ outcome[r].reason = "stop" =>
      LET a == outcome[r].att
          before == SentBefore(r)
          text == SubSeq(outcome[r].text, Len(before) + 1, Len(outcome[r].text))
      IN /\ outcome[r].text = before \o text
         /\ \E from \in 0 .. MaxTokens :
              \A i \in 1 .. Len(text) : text[i] = <<a, from + i>>
         /\ r \notin lost => Len(text) = att[a].made

\* Every attempt comes to an end, if the adapter's iterator does not hang: none
\* waits for a compile nobody runs, a full queue nobody drains, or a publisher that
\* has stopped.
AttemptsEnd ==
  []<>(\A w \in Workers : On(w) = {})

\* The cancel that precedes a first-chunk fallback is for the original attempt:
\* no attempt of the republished message is cancelled or refused by it, when
\* nothing else went wrong (the handlers' comment on publish_cancel).
OnlyOriginalObservesCancel ==
  \A a \in Attempts :
    att[a].pc # "new" /\ att[a].msg[2] > 0 =>
      /\ ~att[a].cancelled
      /\ att[a].tell # Nothing => att[a].tell.kind = "nak"
===============================================================================
