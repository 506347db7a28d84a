---------------------------- MODULE Idempotency ----------------------------
(***************************************************************************)
(* Idempotency-Key handling of the config API: wait-or-claim, the response *)
(* cache with its size limit, and the three ends of an owner (success,     *)
(* failure, cancellation before or after its write took effect).           *)
(*                                                                         *)
(* POST, PUT and DELETE share this code.  A fingerprint stands for what    *)
(* each of them hashes: the body, or the method, the model and the body.   *)
(* No section under _IdempotencyState.lock awaits, so each is one step.    *)
(* An in-flight marker is identified with the request that owns it.        *)
(***************************************************************************)
EXTENDS Integers, FiniteSets

CONSTANTS Requests, Keys, Fingerprints, Nobody,
          key, fp,   \* each request's Idempotency-Key and fingerprint
          MaxCache   \* _MAX_IDEMPOTENCY_CACHE_SIZE

ASSUME CacheAssumption == MaxCache \in Nat \ {0}
ASSUME RequestAssumption == /\ Nobody \notin Requests
                            /\ key \in [Requests -> Keys]
                            /\ fp \in [Requests -> Fingerprints]

VARIABLES
  phase,     \* where the handler of each request is
  waitsOn,   \* the owner whose event it awaits
  inFlight,  \* idem.in_flight
  outcome,   \* what an owner left in its marker; not "pending": event is set
  cache,     \* idem.cache, entries numbered in insertion order
  stores,    \* how many responses were ever cached
  answer,    \* what the client was told
  executed   \* requests whose write took effect

vars == <<phase, waitsOn, inFlight, outcome, cache, stores, answer, executed>>

Phases == {"new", "own", "committed", "wait", "done"}
Outcomes == {"pending", "succeeded", "failed", "cancelled"}
Answers == {"none", "applied", "mismatch", "replay", "evicted", "error",
            "inflight_cancelled", "cancelled", "lost"}
Entry == [key : Keys, fp : Fingerprints, owner : Requests, seq : Nat]

Executing == {"own", "committed"}
Cached(k) == {e \in cache : e.key = k}

----------------------------------------------------------------------------
Init ==
  /\ phase = [r \in Requests |-> "new"]
  /\ waitsOn = [r \in Requests |-> Nobody]
  /\ inFlight = [k \in Keys |-> Nobody]
  /\ outcome = [r \in Requests |-> "pending"]
  /\ cache = {} /\ stores = 0
  /\ answer = [r \in Requests |-> "none"]
  /\ executed = {}

Answer(r, a) == /\ phase' = [phase EXCEPT ![r] = "done"]
                /\ answer' = [answer EXCEPT ![r] = a]

(* _idempotency_claim, first pass.                                         *)

SameRequest(r, f) == fp[r] = f

\* Mutant of MayClaim: the cache is not consulted.
MayClaimUncached(k) == inFlight[k] = Nobody

\* Mutant of MayClaim: an in-flight request does not hold the key.
MayClaimUnmarked(k) == Cached(k) = {}

MayClaim(k) == Cached(k) = {} /\ inFlight[k] = Nobody

\* No cached response and nobody in flight: this request owns the key.
Claim(r) ==
  /\ phase[r] = "new" /\ MayClaim(key[r])
  /\ phase' = [phase EXCEPT ![r] = "own"]
  /\ inFlight' = [inFlight EXCEPT ![key[r]] = r]
  /\ UNCHANGED <<waitsOn, outcome, cache, stores, answer, executed>>

\* A cached response, replayed to the same request and refused to another.
ReplayOrRefuse(r) ==
  /\ phase[r] = "new"
  /\ \E e \in Cached(key[r]) : Answer(r, IF SameRequest(r, e.fp) THEN "replay" ELSE "mismatch")
  /\ UNCHANGED <<waitsOn, inFlight, outcome, cache, stores, executed>>

\* Somebody is in flight: wait for the same request, refuse another.
WaitOrRefuse(r) ==
  LET owner == inFlight[key[r]] IN
  /\ phase[r] = "new" /\ Cached(key[r]) = {} /\ owner # Nobody
  /\ IF SameRequest(r, fp[owner])
     THEN /\ phase' = [phase EXCEPT ![r] = "wait"]
          /\ waitsOn' = [waitsOn EXCEPT ![r] = owner]
          /\ UNCHANGED answer
     ELSE Answer(r, "mismatch") /\ UNCHANGED waitsOn
  /\ UNCHANGED <<inFlight, outcome, cache, stores, executed>>

(* _idempotency_claim, after the owner's event.                            *)

\* Mutant of Ended: a finished owner is taken for a successful one.
EndedWell(o) == IF outcome[o] = "pending" THEN "pending" ELSE "succeeded"

\* What the marker says once its event is set.
Ended(o) == outcome[o]

\* The owner raised: its waiters raise too, a cancellation becomes a 503.
ResumeFailed(r) ==
  /\ phase[r] = "wait" /\ Ended(waitsOn[r]) \in {"failed", "cancelled"}
  /\ Answer(r, IF Ended(waitsOn[r]) = "failed" THEN "error" ELSE "inflight_cancelled")
  /\ UNCHANGED <<waitsOn, inFlight, outcome, cache, stores, executed>>

\* The owner succeeded: replay its response, or say that it was evicted.  By
\* now the key may hold the response of another request.
ResumeSucceeded(r) ==
  /\ phase[r] = "wait" /\ Ended(waitsOn[r]) = "succeeded"
  /\ \/ \E e \in Cached(key[r]) : Answer(r, IF SameRequest(r, e.fp) THEN "replay" ELSE "mismatch")
     \/ Cached(key[r]) = {} /\ Answer(r, "evicted")
  /\ UNCHANGED <<waitsOn, inFlight, outcome, cache, stores, executed>>

\* A cancelled waiter leaves no trace.
CancelWaiter(r) ==
  /\ phase[r] = "wait" /\ Answer(r, "cancelled")
  /\ UNCHANGED <<waitsOn, inFlight, outcome, cache, stores, executed>>

----------------------------------------------------------------------------
(* The owner: add_model, replace_model, delete_model.                      *)

\* The write takes effect, in the store or the registry.
Execute(r) ==
  /\ phase[r] = "own"
  /\ phase' = [phase EXCEPT ![r] = "committed"]
  /\ executed' = executed \cup {r}
  /\ UNCHANGED <<waitsOn, inFlight, outcome, cache, stores, answer>>

\* Evict the oldest entries down to the limit.
Trimmed(c) == {e \in c : Cardinality({d \in c : d.seq > e.seq}) < MaxCache}

\* Mutant of Signal: an owner that fails does not set its event.
SignalSuccess(r, o) ==
  outcome' = IF o = "succeeded" THEN [outcome EXCEPT ![r] = o] ELSE outcome

\* Record the outcome in the marker and set its event.
Signal(r, o) == outcome' = [outcome EXCEPT ![r] = o]

\* Remove the marker if it is still this request's.
Release(r) == inFlight' = IF inFlight[key[r]] = r THEN [inFlight EXCEPT ![key[r]] = Nobody]
                                                  ELSE inFlight

\* The response is cached and the waiters are woken.  A cancellation that
\* _await_committed deferred is raised after that.
Finish(r) ==
  /\ phase[r] = "committed"
  /\ cache' = Trimmed((cache \ Cached(key[r]))
                        \cup {[key |-> key[r], fp |-> fp[r], owner |-> r, seq |-> stores]})
  /\ stores' = stores + 1
  /\ Signal(r, "succeeded") /\ Release(r)
  /\ \E a \in {"applied", "cancelled"} : Answer(r, a)
  /\ UNCHANGED <<waitsOn, executed>>

\* The handler raises: refused or cancelled before the write, or an epoch
\* that cannot be written, or a DELETE cancelled at its unshielded await,
\* after it.  Failures are not cached.
Fail(r) ==
  /\ phase[r] \in Executing
  /\ \E o \in {"failed", "cancelled"} :
       Signal(r, o) /\ Answer(r, IF o = "failed" THEN "error" ELSE "cancelled")
  /\ Release(r)
  /\ UNCHANGED <<waitsOn, cache, stores, executed>>

\* The process restarts: all of this state is in memory.
Restart ==
  /\ \E r \in Requests : phase[r] \in Executing \cup {"wait"}
  /\ phase' = [r \in Requests |-> IF phase[r] \in Executing \cup {"wait"} THEN "done" ELSE phase[r]]
  /\ answer' = [r \in Requests |-> IF phase[r] \in Executing \cup {"wait"} THEN "lost" ELSE answer[r]]
  /\ inFlight' = [k \in Keys |-> Nobody]
  /\ cache' = {}
  /\ UNCHANGED <<waitsOn, outcome, stores, executed>>

Step(r) == \/ Claim(r) \/ ReplayOrRefuse(r) \/ WaitOrRefuse(r)
           \/ ResumeFailed(r) \/ ResumeSucceeded(r) \/ CancelWaiter(r)
           \/ Execute(r) \/ Finish(r) \/ Fail(r)

Next == Restart \/ \E r \in Requests : Step(r)

\* An owner's awaits end, and a woken waiter runs.  A request need not arrive.
Fairness == \A r \in Requests :
  /\ WF_vars(Execute(r) \/ Finish(r) \/ Fail(r))
  /\ WF_vars(ResumeFailed(r) \/ ResumeSucceeded(r))

Spec == Init /\ [][Next]_vars /\ Fairness

----------------------------------------------------------------------------
(* Properties.                                                             *)

\* Every variable has its type and the cache keeps its limit.
TypeOK ==
  /\ phase \in [Requests -> Phases]
  /\ waitsOn \in [Requests -> Requests \cup {Nobody}]
  /\ inFlight \in [Keys -> Requests \cup {Nobody}]
  /\ outcome \in [Requests -> Outcomes]
  /\ cache \subseteq Entry /\ Cardinality(cache) <= MaxCache
  /\ stores \in Nat
  /\ answer \in [Requests -> Answers]
  /\ executed \subseteq Requests

\* Two handlers never execute a write for the same key at the same time,
\* whatever failures, evictions and late wake-ups came before.
OneOwner ==
  \A r, s \in Requests :
    phase[r] \in Executing /\ phase[s] \in Executing /\ key[r] = key[s] => r = s

\* A write takes effect only while no successful response for its key is
\* cached: the lookup made when the key was claimed is still good when the
\* write commits, many awaits later.
NoWriteWhileRemembered ==
  [][\A r \in executed' \ executed : Cached(key[r]) = {}]_vars

\* Whoever is told that the request has been carried out (a replay, or a
\* response that was evicted) sent a request, with that key and content,
\* whose write took effect.
ReplayIsTruthful ==
  \A r \in Requests : answer[r] \in {"replay", "evicted"} =>
    \E s \in executed : key[s] = key[r] /\ fp[s] = fp[r] /\ outcome[s] = "succeeded"

\* No waiter is left behind: every way an owner ends sets its event.
WaitersAnswered == \A r \in Requests : phase[r] = "wait" ~> phase[r] = "done"
=============================================================================
