-------------------------- MODULE StreamingProcessor --------------------------
(***************************************************************************)
(* One delivery of a generate work item on a worker                        *)
(* (processors/streaming.py): prewarm, cancel registration, preflight,     *)
(* admission, the decode loop, the publisher of its chunks, and how the    *)
(* queue message is settled.  A step is what the code does between two     *)
(* awaits.                                                                 *)
(*                                                                         *)
(* The decode loop turns what the adapter yields into a plan, a sequence   *)
(* of puts on the bounded chunk queue.  A step of the plan names the last  *)
(* token it carries (upto), whether it is the terminal, and what a timed   *)
(* out put leads to: the transport_failure terminal ("tf") or nothing.     *)
(***************************************************************************)
EXTENDS ProcessorState, Integers

CONSTANTS Workers, Requests,
          Attempts,     \* 1..n: the n-th delivery of the run
          Generations,  \* the message ids of a request: its publish and republishes
          MaxDeliver,   \* deliveries of one message
          MaxTokens,    \* tokens an adapter yields
          FlushMax,     \* _FLUSH_MAX_TOKENS
          QueueMax,     \* _CHUNK_QUEUE_MAX
          Workloads     \* the requests of a run and its budget of faults

VARIABLES world,  \* what is left of the workload: [ask, faults]
          wk,     \* wk[w]: the state the attempts on w share
          att,    \* att[a]: one delivery
          msg,    \* msg[m]: the queue message m
          wire    \* wire[r]: envelopes on their way to the gateway, in order

procVars == <<world, wk, att, msg, wire>>

Faults == {"missing", "load", "reject", "compile", "slow", "stall", "publish", "ack",
           "late", "abort", "crash", "drop", "expire", "timeout", "first", "leave",
           "republish", "limit"}
Spend(f) == world.faults[f] > 0 /\ world' = [world EXCEPT !.faults[f] = @ - 1]
ask == world.ask

Messages == Requests \X Generations

Nothing == [kind |-> "none"]
NoAttempt ==
  [pc |-> "new", msg |-> <<>>, at |-> Nothing,
   cancelled |-> FALSE,   \* its cancel event
   waits |-> 0,           \* the leader whose compile it follows
   future |-> "none",     \* the compile future it leads
   tell |-> Nothing,      \* the envelope a preflight exit publishes
   holds |-> FALSE,       \* a reservation
   made |-> 0, sent |-> 0, seq |-> 0, plan |-> <<>>, q |-> <<>>,
   pub |-> "run", term |-> FALSE, tf |-> FALSE,
   told |-> FALSE]        \* a terminal or a NAK of it reached the wire

Req(a) == att[a].msg[1]
Wkr(a) == att[a].at
Preflight == {"warm", "warming", "load", "render", "grammar", "follow",
              "compile", "reserve", "tell"}
Streaming == {"next", "put", "drain"}
Registered == (Preflight \cup Streaming) \ {"warm", "warming"}
On(w) == {a \in Attempts : Wkr(a) = w /\ att[a].pc \in Preflight \cup Streaming}

\* A chunk envelope; the terminal carries no text.
Chunk(a, text, done, reason) ==
  [kind |-> "chunk", att |-> a, seq |-> att[a].seq, text |-> text, done |-> done,
   reason |-> reason]
ErrorTerminal(a, reason) == Chunk(a, <<>>, TRUE, reason)
NakEnvelope(a) == [kind |-> "nak", att |-> a]

(***************************************************************************)
(* The end of an attempt: the finally blocks run on every path.            *)
(***************************************************************************)
OverLeavingFuture(a, told) ==   \* mutant: no finally around the compile
  [NoAttempt EXCEPT !.pc = "done", !.msg = att[a].msg, !.at = Wkr(a), !.made = att[a].made,
                    !.cancelled = att[a].cancelled, !.told = told, !.future = att[a].future]

Over(a, told) ==
  [NoAttempt EXCEPT !.pc = "done", !.msg = att[a].msg, !.at = Wkr(a), !.made = att[a].made,
                    !.cancelled = att[a].cancelled, !.told = told,
                    !.future = IF att[a].future = "pending" THEN "failed" ELSE att[a].future]

LeftBy(S, a) ==
  LET free == IF att[a].holds THEN Release(S, Req(a), a, ask.need[Req(a)]) ELSE S
  IN [Unregister(free, Req(a), a) EXCEPT
        !.leader = IF @ = a THEN 0 ELSE @,
        !.warm = IF att[a].pc = "warming" THEN "done" ELSE @]

\* JetStream: an ack settles the message whoever sends it; a message that is
\* not acknowledged comes back until its deliveries are used up.
Return(q) == [q EXCEPT !.st = IF q.tries < MaxDeliver THEN "ready" ELSE "dead"]
Settled(q, a, ack) ==
  IF ack THEN [q EXCEPT !.st = "acked"]
  ELSE IF q.st = "out" /\ q.by = a THEN Return(q) ELSE q

\* The sidecar NAKs what the processor left unsettled.
FinishAs(a, ack, told, S) ==
  /\ att' = [att EXCEPT ![a] = Over(a, told)]
  /\ wk' = [wk EXCEPT ![Wkr(a)] = LeftBy(S, a)]
  /\ msg' = [msg EXCEPT ![att[a].msg] = Settled(@, a, ack)]
Finish(a, ack) == FinishAs(a, ack, att[a].told, wk[Wkr(a)])

(***************************************************************************)
(* Delivery, prewarm, registration                                         *)
(***************************************************************************)
\* A message is pulled by a worker its subject reaches (external).
Reaches(m, w) ==
  w \in ask.workers /\ (m[2] > 0 \/ ask.to[m[1]] \in {Nothing, w})

PickUp(m, w) ==
  /\ msg[m].st = "ready" /\ Reaches(m, w)
  /\ \E a \in Attempts :
       /\ att[a].pc = "new" /\ \A b \in 1 .. a - 1 : att[b].pc # "new"
       /\ att' = [att EXCEPT ![a] = [@ EXCEPT !.pc = "warm", !.msg = m, !.at = w]]
       /\ msg' = [msg EXCEPT ![m] = [st |-> "out", by |-> a, tries |-> @.tries + 1]]
  /\ UNCHANGED <<world, wk, wire>>

Telling(a, envelope) == [att[a] EXCEPT !.pc = "tell", !.tell = envelope]

\* _register_cancel, then the tombstone check; no await between them.
Started(a, S) ==
  LET known == Register(S, Req(a), a)
  IN /\ wk' = [wk EXCEPT ![Wkr(a)] = ConsumeTombstone(known, Req(a))]
     /\ att' = [att EXCEPT ![a] =
                  IF HasTombstone(S, Req(a))
                  THEN Telling(a, ErrorTerminal(a, "refused"))
                  ELSE [@ EXCEPT !.pc = "load"]]
     /\ UNCHANGED <<msg, wire>>

\* _prewarm_generation_grammars: the first request compiles, the others wait.
StartPrewarm(a) ==
  /\ att[a].pc = "warm" /\ wk[Wkr(a)].warm = "no"
  /\ wk' = [wk EXCEPT ![Wkr(a)].warm = "running"]
  /\ att' = [att EXCEPT ![a].pc = "warming"]
  /\ UNCHANGED <<world, msg, wire>>

EndPrewarm(a) ==
  /\ att[a].pc = "warming"
  /\ \E ok \in ask.prewarms :
       Started(a, [wk[Wkr(a)] EXCEPT !.warm = "done", !.cached = @ \/ ok])
  /\ UNCHANGED world

Start(a) ==
  /\ att[a].pc = "warm" /\ wk[Wkr(a)].warm = "done"
  /\ Started(a, wk[Wkr(a)]) /\ UNCHANGED world

(***************************************************************************)
(* Preflight                                                               *)
(***************************************************************************)
\* A cancel that came during a stage is honoured before the next one.
Onward(a, stage) ==
  IF att[a].cancelled THEN Telling(a, ErrorTerminal(a, "cancelled"))
  ELSE [att[a] EXCEPT !.pc = stage, !.waits = 0]

\* _ensure_loaded returns: a KeyError, another failure, or the adapter, whose
\* parameters are then validated.
NotRegistered(a) ==
  /\ att[a].pc = "load" /\ Spend("missing")
  /\ att' = [att EXCEPT ![a] = Telling(a, NakEnvelope(a))]
  /\ UNCHANGED <<wk, msg, wire>>

LoadFailed(a) ==
  /\ att[a].pc = "load" /\ Spend("load")
  /\ Finish(a, FALSE) /\ UNCHANGED wire

Loaded(a) ==
  /\ att[a].pc = "load"
  /\ att' = [att EXCEPT ![a] = Onward(a, "render")]
  /\ UNCHANGED <<world, wk, msg, wire>>

\* _render_chat_template, then _check_context_length: a wait each, and after
\* either the same check.
Rendered(a) ==
  /\ att[a].pc = "render"
  /\ att' = [att EXCEPT ![a] = Onward(a, IF ask.grammar[Req(a)] THEN "grammar" ELSE "reserve")]
  /\ UNCHANGED <<world, wk, msg, wire>>

\* Any of them finds the request invalid.
Rejected(a) ==
  /\ att[a].pc \in {"load", "render"} /\ Spend("reject")
  /\ att' = [att EXCEPT ![a] = Telling(a, ErrorTerminal(a, "error"))]
  /\ UNCHANGED <<wk, msg, wire>>

\* _ensure_grammar_ready: a hit, or follow the leader of this compile, or lead.
GrammarCached(a) ==
  /\ att[a].pc = "grammar" /\ wk[Wkr(a)].cached
  /\ att' = [att EXCEPT ![a] = Onward(a, "reserve")]
  /\ UNCHANGED <<world, wk, msg, wire>>

FollowCompile(a) ==
  /\ att[a].pc = "grammar" /\ ~wk[Wkr(a)].cached /\ wk[Wkr(a)].leader # 0
  /\ att' = [att EXCEPT ![a] = [@ EXCEPT !.pc = "follow", !.waits = wk[Wkr(a)].leader]]
  /\ UNCHANGED <<world, wk, msg, wire>>

LeadCompile(a) ==
  /\ att[a].pc = "grammar" /\ ~wk[Wkr(a)].cached /\ wk[Wkr(a)].leader = 0
  /\ att' = [att EXCEPT ![a] = [@ EXCEPT !.pc = "compile", !.future = "pending"]]
  /\ wk' = [wk EXCEPT ![Wkr(a)].leader = a]
  /\ UNCHANGED <<world, msg, wire>>

\* _run_leader_compile returns.  A follower that gave up has cancelled the
\* shared future (asyncio.wait_for cancels what it waits for); setting its
\* result then raises, and the leader leaves its message unsettled.
Compiled(a) ==
  /\ att[a].pc = "compile"
  /\ LET S == [wk[Wkr(a)] EXCEPT !.cached = TRUE]
     IN IF att[a].future = "cancelled"
        THEN FinishAs(a, FALSE, att[a].told, S)
        ELSE /\ wk' = [wk EXCEPT ![Wkr(a)] = [S EXCEPT !.leader = 0]]
             /\ att' = [att EXCEPT ![a] = [Onward(a, "reserve") EXCEPT !.future = "ok"]]
             /\ UNCHANGED msg
  /\ UNCHANGED <<world, wire>>

CompileFailed(a) ==
  /\ att[a].pc = "compile" /\ Spend("compile")
  /\ IF att[a].future = "cancelled"
     THEN Finish(a, FALSE)
     ELSE /\ att' = [att EXCEPT ![a] =
                       [Telling(a, ErrorTerminal(a, "error")) EXCEPT !.future = "failed"]]
          /\ UNCHANGED <<wk, msg>>
  /\ UNCHANGED wire

\* A follower wakes up; a cancelled future raises past its except clause.
CompileShared(a) ==
  /\ att[a].pc = "follow" /\ att[att[a].waits].future # "pending"
  /\ LET result == att[att[a].waits].future
     IN IF result = "cancelled"
        THEN Finish(a, FALSE)
        ELSE /\ att' = [att EXCEPT ![a] =
                          IF result = "ok" THEN Onward(a, "reserve")
                          ELSE [Telling(a, ErrorTerminal(a, "error")) EXCEPT !.waits = 0]]
             /\ UNCHANGED <<wk, msg>>
  /\ UNCHANGED <<world, wire>>

FollowTimeout(a) ==
  /\ att[a].pc = "follow" /\ att[att[a].waits].future = "pending" /\ Spend("slow")
  /\ att' = [att EXCEPT ![a] = [Telling(a, ErrorTerminal(a, "error")) EXCEPT !.waits = 0],
                        ![att[a].waits].future = "cancelled"]
  /\ UNCHANGED <<wk, msg, wire>>

\* _try_reserve
Admission(a) ==
  /\ att[a].pc = "reserve"
  /\ LET S == wk[Wkr(a)]
         n == ask.need[Req(a)]
     IN IF Admits(S, n, ask.gated)
        THEN /\ wk' = [wk EXCEPT ![Wkr(a)] = Reserve(S, a, n)]
             /\ att' = [att EXCEPT ![a] = [@ EXCEPT !.pc = "next", !.holds = TRUE]]
        ELSE /\ att' = [att EXCEPT ![a] = Telling(a, NakEnvelope(a))]
             /\ UNCHANGED wk
  /\ UNCHANGED <<world, msg, wire>>

\* _terminal_error_then_settle, _publish_cancelled_then_settle and
\* _publish_nak_envelope: the message is settled by what was published.
Tell(a) ==
  /\ att[a].pc = "tell"
  /\ wire' = [wire EXCEPT ![Req(a)] = Append(@, att[a].tell)]
  /\ FinishAs(a, TRUE, TRUE, wk[Wkr(a)])
  /\ UNCHANGED world

TellFailed(a) ==
  /\ att[a].pc = "tell" /\ Spend("publish")
  /\ Finish(a, FALSE) /\ UNCHANGED wire

(***************************************************************************)
(* The decode loop of _stream_generate                                     *)
(***************************************************************************)
Terminal(reason, fail) == <<[upto |-> 0, done |-> TRUE, reason |-> reason, fail |-> fail]>>
Delta(upto, fail) == <<[upto |-> upto, done |-> FALSE, reason |-> "none", fail |-> fail]>>
Flush(sent, upto, fail) == IF upto > sent THEN Delta(upto, fail) ELSE <<>>

Driving(a, made, plan) ==
  /\ att[a].pc = "next"
  /\ att' = [att EXCEPT ![a] = [@ EXCEPT !.pc = IF plan = <<>> THEN "next" ELSE "put",
                                         !.made = made, !.plan = plan]]
  /\ UNCHANGED <<world, wk, msg, wire>>

\* What the adapter yields (external); a cancel wins a tie.
Yields(a, kind) == ~att[a].cancelled /\ kind \in ask.yields

TextDelta(a) ==
  /\ Yields(a, "text") /\ att[a].made < MaxTokens
  /\ \E due \in BOOLEAN :   \* the interval has elapsed or the count is reached
       LET made == att[a].made + 1
       IN /\ made - att[a].sent >= FlushMax => due
          /\ Driving(a, made, IF due THEN Flush(att[a].sent, made, "tf") ELSE <<>>)

ToolDelta(a) ==
  /\ Yields(a, "tool") /\ att[a].made < MaxTokens
  /\ Driving(a, att[a].made + 1,
             Flush(att[a].sent, att[a].made, "tf") \o Delta(att[a].made + 1, "tf"))

DoneChunk(a) ==
  /\ Yields(a, "done")
  /\ \E made \in {att[a].made, att[a].made + 1} :
       /\ made <= MaxTokens
       /\ Driving(a, made, Flush(att[a].sent, made, "tf") \o Terminal("stop", "tf"))

EndOfIterator(a) ==
  /\ Yields(a, "end")
  /\ Driving(a, att[a].made,
             Flush(att[a].sent, att[a].made, "tf") \o Terminal("stop", "none"))

IteratorRaised(a) ==
  /\ Yields(a, "raise")
  /\ Driving(a, att[a].made, Terminal("error", "none"))

CancelObserved(a) ==
  /\ att[a].cancelled
  /\ Driving(a, att[a].made,
             Flush(att[a].sent, att[a].made, "none") \o Terminal("cancelled", "none"))

\* A put on the chunk queue; seq advances only with it.
HasRoom(a) == Len(att[a].q) < QueueMax

Put(a) ==
  /\ att[a].pc = "put" /\ HasRoom(a)
  /\ LET s == Head(att[a].plan)
         text == [i \in 1 .. s.upto - att[a].sent |-> <<a, att[a].sent + i>>]
         rest == Tail(att[a].plan)
     IN att' = [att EXCEPT ![a] =
          [@ EXCEPT !.q = Append(@, Chunk(a, IF s.done THEN <<>> ELSE text, s.done, s.reason)),
                    !.seq = IF s.done THEN @ ELSE @ + 1,
                    !.sent = IF s.done THEN @ ELSE s.upto,
                    !.term = s.done,
                    !.plan = rest,
                    !.pc = IF s.done THEN "drain" ELSE IF rest = <<>> THEN "next" ELSE "put"]]
  /\ UNCHANGED <<world, wk, msg, wire>>

\* The put times out: the publisher is stalled, or has stopped.
GiveUpSkipping(a) ==   \* mutant: the chunk is dropped and the stream goes on
  LET rest == Tail(att[a].plan)
  IN [att[a] EXCEPT !.sent = IF Head(att[a].plan).done THEN @ ELSE Head(att[a].plan).upto,
                    !.plan = rest,
                    !.pc = IF Head(att[a].plan).done THEN "drain"
                           ELSE IF rest = <<>> THEN "next" ELSE "put"]

GiveUp(a) ==
  IF Head(att[a].plan).fail = "tf"
  THEN [att[a] EXCEPT !.tf = TRUE, !.plan = Terminal("transport_failure", "none")]
  ELSE [att[a] EXCEPT !.pc = "drain", !.plan = <<>>]

PutTimeout(a) ==
  /\ att[a].pc = "put" /\ ~HasRoom(a)
  /\ \/ att[a].pub = "dead" /\ UNCHANGED world
     \/ att[a].pub = "run" /\ Spend("stall")
  /\ att' = [att EXCEPT ![a] = GiveUp(a)]
  /\ UNCHANGED <<wk, msg, wire>>

\* _publisher_loop: in order, until a publish fails.
Publish(a) ==
  /\ att[a].pc \in Streaming /\ att[a].pub = "run" /\ att[a].q # <<>>
  /\ wire' = [wire EXCEPT ![Req(a)] = Append(@, Head(att[a].q))]
  /\ att' = [att EXCEPT ![a] = [@ EXCEPT !.q = Tail(@), !.told = @ \/ Head(att[a].q).done]]
  /\ UNCHANGED <<world, wk, msg>>

PublishFailed(a) ==
  /\ att[a].pc \in Streaming /\ att[a].pub = "run" /\ att[a].q # <<>> /\ Spend("publish")
  /\ att' = [att EXCEPT ![a] = [@ EXCEPT !.pub = "dead", !.q = Tail(@)]]
  /\ UNCHANGED <<wk, msg, wire>>

\* The finally block waits for the publisher; the acknowledgement needs the
\* terminal, all of the queue, and no transport failure.
ConfirmedByTerminal(a) == att[a].term /\ ~att[a].tf   \* mutant

Confirmed(a) == att[a].term /\ att[a].pub = "run" /\ att[a].q = <<>> /\ ~att[a].tf

Drained(a) ==
  /\ att[a].pc = "drain" /\ (att[a].pub = "dead" \/ att[a].q = <<>>)
  /\ \/ Finish(a, Confirmed(a)) /\ UNCHANGED world
     \/ Confirmed(a) /\ Finish(a, FALSE) /\ Spend("ack")   \* the ack is lost
  /\ UNCHANGED wire

DrainTimeout(a) ==
  /\ att[a].pc = "drain" /\ att[a].pub = "run" /\ att[a].q # <<>> /\ Spend("stall")
  /\ Finish(a, FALSE) /\ UNCHANGED wire

(***************************************************************************)
(* Faults of the worker                                                    *)
(***************************************************************************)
\* The task of the attempt is cancelled; its finally blocks still run.  A
\* follower that is cancelled cancels the future it waits for.
Abort(a) ==
  /\ att[a].pc \in Preflight \cup Streaming /\ Spend("abort")
  /\ IF att[a].pc \in {"next", "put"}
     THEN /\ att' = [att EXCEPT ![a] = [@ EXCEPT !.pc = "drain", !.plan = <<>>]]
          /\ UNCHANGED <<wk, msg>>
     ELSE /\ wk' = [wk EXCEPT ![Wkr(a)] = LeftBy(@, a)]
          /\ msg' = [msg EXCEPT ![att[a].msg] = Settled(@, a, FALSE)]
          /\ att' = [b \in Attempts |->
                       IF b = a THEN Over(a, att[a].told)
                       ELSE IF b = att[a].waits /\ att[b].future = "pending"
                            THEN [att[b] EXCEPT !.future = "cancelled"]
                            ELSE att[b]]
  /\ UNCHANGED wire

Crash(w) ==
  /\ On(w) # {} /\ Spend("crash")
  /\ wk' = [wk EXCEPT ![w] = Fresh]
  /\ att' = [a \in Attempts |-> IF a \in On(w) THEN [Over(a, att[a].told) EXCEPT !.pc = "dead"]
                                              ELSE att[a]]
  /\ msg' = [m \in Messages |-> IF msg[m].st = "out" /\ msg[m].by \in On(w)
                                THEN Return(msg[m]) ELSE msg[m]]
  /\ UNCHANGED wire

\* ack_wait passes during preflight, which no heartbeat covers.
LateRedelivery(m) ==
  /\ msg[m].st = "out" /\ msg[m].tries < MaxDeliver
  /\ att[msg[m].by].pc \in Preflight /\ Spend("late")
  /\ msg' = [msg EXCEPT ![m].st = "ready"]
  /\ UNCHANGED <<wk, att, wire>>
===============================================================================
