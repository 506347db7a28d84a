--------------------------- MODULE WorkerDispatch ---------------------------
(***************************************************************************)
(* The worker side of queued encode, score and extract work: JetStream     *)
(* with its delivery budget, the sidecar's dispatcher, and the tombstones  *)
(* that make a sidecar drop abandoned work.                                *)
(*                                                                         *)
(* A copy is a work item on one of the two subjects it can be published    *)
(* on: the lane's pool subject or the private subject of one worker.  A    *)
(* run is one delivery of a copy inside a sidecar; when the broker's       *)
(* ack_wait expires, several runs of one copy exist.                       *)
(***************************************************************************)
EXTENDS Integers, FiniteSets

CONSTANTS
  Requests, Items, Workers,
  DirectWorker,  \* the worker that direct dispatch picks
  MaxDeliver,    \* SIE_MAX_DELIVER
  MaxFaults      \* bound on failures of the environment

ASSUME BudgetAssumption == MaxDeliver \in Nat \ {0} /\ MaxFaults \in Nat
ASSUME WorkerAssumption == DirectWorker \in Workers

VARIABLES
  at,       \* where each copy is: absent, queued, out, gone (acknowledged), dead
  tries,    \* deliveries of each copy so far
  runs,     \* deliveries being processed
  inbox,    \* results on the way to the gateway, by the copy they answer
  signals,  \* cancel signals sent to the sidecars
  worked,   \* items of each request that got an outcome (history)
  lost,     \* items that lost a result or a copy to the transport (history)
  faults    \* failures so far

workVars == <<at, tries, runs, inbox, signals, worked, lost, faults>>

Routes == {"direct", "pool"}
Copies == Requests \X Items \X Routes
ReqOf(c) == c[1]
ItemOf(c) == c[2]
WorkInit ==
  /\ at = [c \in Copies |-> "absent"] /\ tries = [c \in Copies |-> 0]
  /\ runs = {} /\ inbox = {} /\ signals = {} /\ lost = {} /\ faults = 0
  /\ worked = [r \in Requests |-> {}]

Fault == faults < MaxFaults /\ faults' = faults + 1

----------------------------------------------------------------------------
(* JetStream, as the sidecar's consumers are configured.                   *)

MayDeliver(c) == at[c] = "queued" /\ tries[c] < MaxDeliver

\* A copy goes to a worker: pool copies to any, direct ones to its owner.
Deliver(c, w) ==
  /\ MayDeliver(c)
  /\ c[3] = "direct" => w = DirectWorker
  /\ at' = [at EXCEPT ![c] = "out"]
  /\ tries' = [tries EXCEPT ![c] = @ + 1]
  /\ runs' = runs \cup {[copy |-> c, n |-> tries[c] + 1, worker |-> w, stage |-> "running"]}
  /\ UNCHANGED <<inbox, signals, worked, lost, faults>>

\* ack_wait passes; a fault when the delivery is still being worked on.
AckWaitExpires(c) ==
  /\ at[c] = "out"
  /\ at' = [at EXCEPT ![c] = "queued"]
  /\ IF \E u \in runs : u.copy = c THEN Fault ELSE UNCHANGED faults
  /\ UNCHANGED <<tries, runs, inbox, signals, worked, lost>>

\* max_deliver is reached, or the copy outlives the stream's max_age: it is
\* never delivered again.
ExpireCopy(c) ==
  /\ at[c] = "queued"
  /\ at' = [at EXCEPT ![c] = "dead"]
  /\ lost' = lost \cup {<<ReqOf(c), ItemOf(c)>>}
  /\ IF tries[c] = MaxDeliver THEN UNCHANGED faults ELSE Fault
  /\ UNCHANGED <<tries, runs, inbox, signals, worked>>

\* An acknowledgement of any delivery removes the copy; it may get lost.
Acked(c) == \/ at' = [at EXCEPT ![c] = "gone"] /\ UNCHANGED faults
            \/ UNCHANGED at /\ Fault

----------------------------------------------------------------------------
(* batch_cancel.rs: a signal may arrive late or never, and a tombstone     *)
(* expires or is evicted, so a check sees a signal that was sent or does   *)
(* not.                                                                    *)

Signal(scope, w, r) == [scope |-> scope, worker |-> w, req |-> r]

\* classify_cancellation
Cancelled(u) == \/ Signal("request", u.worker, ReqOf(u.copy)) \in signals
                \/ u.copy[3] = "direct" /\ Signal("direct", u.worker, ReqOf(u.copy)) \in signals

----------------------------------------------------------------------------
(* dispatcher.rs                                                           *)

\* settle_if_cancelled, up to the call of the backend: acknowledged without
\* a result.
SettleCancelled(u) ==
  /\ u.stage = "running" /\ Cancelled(u)
  /\ runs' = runs \ {u} /\ Acked(u.copy)
  /\ UNCHANGED <<tries, inbox, signals, worked, lost>>

\* Not admitted, not ready, another config hash, a backend error or NakRetry;
\* or the result could not be published, and the copy is not acknowledged.
Nak(u) ==
  /\ u.stage = "running" /\ Fault
  /\ runs' = runs \ {u}
  /\ at' = IF at[u.copy] = "out" THEN [at EXCEPT ![u.copy] = "queued"] ELSE at
  /\ UNCHANGED <<tries, inbox, signals, worked, lost>>

\* The item has an outcome, a result or an error, which apply_outcome
\* publishes; Core NATS may lose it ...
PublishResult(u) ==
  /\ u.stage = "running"
  /\ runs' = (runs \ {u}) \cup {[u EXCEPT !.stage = "sent"]}
  /\ worked' = [worked EXCEPT ![ReqOf(u.copy)] = @ \cup {ItemOf(u.copy)}]
  /\ \/ inbox' = inbox \cup {u.copy} /\ UNCHANGED <<lost, faults>>
     \/ lost' = lost \cup {<<ReqOf(u.copy), ItemOf(u.copy)>>} /\ Fault /\ UNCHANGED inbox
  /\ UNCHANGED <<at, tries, signals>>

\* ... and acknowledges the copy.
Ack(u) ==
  /\ u.stage = "sent"
  /\ runs' = runs \ {u} /\ Acked(u.copy)
  /\ UNCHANGED <<tries, inbox, signals, worked, lost>>

\* A sidecar stops, and its deliveries with it.
Crash(w) ==
  /\ \E u \in runs : u.worker = w
  /\ Fault
  /\ runs' = {u \in runs : u.worker # w}
  /\ UNCHANGED <<at, tries, inbox, signals, worked, lost>>

WorkNext ==
  \/ \E c \in Copies : AckWaitExpires(c) \/ ExpireCopy(c) \/ \E w \in Workers : Deliver(c, w)
  \/ \E u \in runs : SettleCancelled(u) \/ PublishResult(u) \/ Nak(u) \/ Ack(u)
  \/ \E w \in Workers : Crash(w)
=============================================================================
