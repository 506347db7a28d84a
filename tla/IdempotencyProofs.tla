------------------------- MODULE IdempotencyProofs -------------------------
(***************************************************************************)
(* One owner per key, truthful replays and no write behind a cached        *)
(* response, for any sets of requests and keys and any cache size.         *)
(***************************************************************************)
EXTENDS Idempotency, TLAPS

Types ==
  /\ phase \in [Requests -> Phases]
  /\ waitsOn \in [Requests -> Requests \cup {Nobody}]
  /\ inFlight \in [Keys -> Requests \cup {Nobody}]
  /\ outcome \in [Requests -> Outcomes]
  /\ cache \subseteq Entry
  /\ stores \in Nat
  /\ answer \in [Requests -> Answers]
  /\ executed \subseteq Requests

\* A marker is in the map exactly while its owner executes.
Marked ==
  /\ \A r \in Requests : phase[r] \in Executing => inFlight[key[r]] = r
  /\ \A k \in Keys : inFlight[k] # Nobody =>
       key[inFlight[k]] = k /\ phase[inFlight[k]] \in Executing

\* A key is never both in flight and cached.
Exclusive == \A e \in cache : inFlight[e.key] = Nobody

\* s carried out request r with success.
Carried(s, r) == /\ s \in executed /\ key[s] = key[r] /\ fp[s] = fp[r]
                 /\ outcome[s] = "succeeded"

Recorded ==
  /\ \A r \in Requests : phase[r] = "committed" => r \in executed
  /\ \A r \in Requests : outcome[r] = "succeeded" => r \in executed
  /\ \A r \in Requests : phase[r] \in Executing \cup {"new"} => outcome[r] = "pending"
  /\ \A e \in cache : e.key = key[e.owner] /\ e.fp = fp[e.owner]
                      /\ outcome[e.owner] = "succeeded"

\* A waiter waits on a request with its own key and content.
Waiting == \A r \in Requests : phase[r] = "wait" =>
             /\ waitsOn[r] \in Requests
             /\ key[waitsOn[r]] = key[r] /\ fp[waitsOn[r]] = fp[r]

Truthful == \A r \in Requests : answer[r] \in {"replay", "evicted"} =>
              \E s \in Requests : Carried(s, r)

IInv == Types /\ Marked /\ Exclusive /\ Recorded /\ Waiting /\ Truthful

USE RequestAssumption

LEMMA TrimmedSubset == ASSUME NEW c PROVE Trimmed(c) \subseteq c
BY DEF Trimmed

LEMMA InitIInv == Init => IInv
BY DEF Init, IInv, Types, Marked, Exclusive, Recorded, Waiting, Truthful, Carried,
       Phases, Outcomes, Answers, Executing

LEMMA ClaimIInv ==
  ASSUME IInv, NEW r \in Requests, Claim(r) PROVE IInv'
<1> USE DEF IInv, Types, Claim, MayClaim, Cached, Entry
<1>1. Types'
  BY DEF Phases
<1>2. Marked'
  BY DEF Marked, Executing
<1>3. Exclusive'
  BY DEF Exclusive
<1>4. Recorded'
  BY DEF Recorded, Executing
<1>5. Waiting'
  BY DEF Waiting
<1>6. Truthful'
  BY DEF Truthful, Carried
<1> QED BY <1>1, <1>2, <1>3, <1>4, <1>5, <1>6

LEMMA ReplayOrRefuseIInv ==
  ASSUME IInv, NEW r \in Requests, ReplayOrRefuse(r) PROVE IInv'
<1>1. PICK e \in Cached(key[r]) :
        Answer(r, IF SameRequest(r, e.fp) THEN "replay" ELSE "mismatch")
  BY DEF ReplayOrRefuse
<1>2. e.fp = fp[r] => Carried(e.owner, r)
  BY <1>1 DEF Cached, IInv, Recorded, Carried, Types, Entry
<1>3. e.owner \in Requests
  BY <1>1 DEF Cached, IInv, Types, Entry
<1>4. /\ phase' = [phase EXCEPT ![r] = "done"]
      /\ answer' = [answer EXCEPT ![r] = IF e.fp = fp[r] THEN "replay" ELSE "mismatch"]
      /\ UNCHANGED <<waitsOn, inFlight, outcome, cache, stores, executed>>
      /\ phase[r] = "new"
  BY <1>1 DEF ReplayOrRefuse, Answer, SameRequest
<1>5. (Types /\ Marked /\ Exclusive /\ Recorded /\ Waiting)'
  BY <1>4 DEF IInv, Types, Marked, Exclusive, Recorded, Waiting, Phases, Answers, Executing
<1>6. Truthful'
  BY <1>2, <1>3, <1>4 DEF IInv, Types, Truthful, Carried
<1> QED BY <1>5, <1>6 DEF IInv

LEMMA WaitOrRefuseIInv ==
  ASSUME IInv, NEW r \in Requests, WaitOrRefuse(r) PROVE IInv'
<1> USE DEF IInv, Types, WaitOrRefuse, SameRequest, Answer, Executing
<1>1. Types'
  BY DEF Phases, Answers
<1>2. Marked' /\ Exclusive' /\ Recorded'
  BY DEF Marked, Exclusive, Recorded
<1>3. Waiting'
  BY DEF Waiting, Marked
<1>4. Truthful'
  BY DEF Truthful, Carried
<1> QED BY <1>1, <1>2, <1>3, <1>4

LEMMA ResumeFailedIInv ==
  ASSUME IInv, NEW r \in Requests, ResumeFailed(r) PROVE IInv'
<1> USE DEF IInv, Types, ResumeFailed, Answer, Executing
<1>1. Types'
  BY DEF Phases, Answers
<1>2. Marked' /\ Exclusive' /\ Recorded' /\ Waiting'
  BY DEF Marked, Exclusive, Recorded, Waiting
<1>3. Truthful'
  BY DEF Truthful, Carried
<1> QED BY <1>1, <1>2, <1>3

\* The owner a waiter waited on carried the waiter's request out, so both a
\* replay of a response with its fingerprint and the notice of an evicted
\* response are truthful.
LEMMA ResumeSucceededIInv ==
  ASSUME IInv, NEW r \in Requests, ResumeSucceeded(r) PROVE IInv'
<1>1. Carried(waitsOn[r], r) /\ waitsOn[r] \in Requests
  BY DEF ResumeSucceeded, Ended, IInv, Waiting, Recorded, Carried
<1>2. PICK a \in {"replay", "mismatch", "evicted"} : Answer(r, a)
  BY DEF ResumeSucceeded
<1>3. /\ phase[r] = "wait"
      /\ phase' = [phase EXCEPT ![r] = "done"]
      /\ answer' = [answer EXCEPT ![r] = a]
      /\ UNCHANGED <<waitsOn, inFlight, outcome, cache, stores, executed>>
  BY <1>2 DEF ResumeSucceeded, Answer
<1>4. (Types /\ Marked /\ Exclusive /\ Recorded /\ Waiting)'
  BY <1>3 DEF IInv, Types, Marked, Exclusive, Recorded, Waiting, Phases, Answers, Executing
<1>5. Truthful'
  BY <1>1, <1>3 DEF IInv, Types, Truthful, Carried
<1> QED BY <1>4, <1>5 DEF IInv

LEMMA CancelWaiterIInv ==
  ASSUME IInv, NEW r \in Requests, CancelWaiter(r) PROVE IInv'
<1> USE DEF IInv, Types, CancelWaiter, Answer, Executing
<1>1. Types'
  BY DEF Phases, Answers
<1>2. Marked' /\ Exclusive' /\ Recorded' /\ Waiting'
  BY DEF Marked, Exclusive, Recorded, Waiting
<1>3. Truthful'
  BY DEF Truthful, Carried
<1> QED BY <1>1, <1>2, <1>3

LEMMA ExecuteIInv ==
  ASSUME IInv, NEW r \in Requests, Execute(r) PROVE IInv'
<1> USE DEF IInv, Types, Execute, Executing
<1>1. Types'
  BY DEF Phases
<1>2. Marked' /\ Exclusive' /\ Recorded' /\ Waiting'
  BY DEF Marked, Exclusive, Recorded, Waiting
<1>3. Truthful'
  BY DEF Truthful, Carried
<1> QED BY <1>1, <1>2, <1>3

\* Releasing the marker is what makes room for the cached response, and only
\* its owner could have put the marker there.
LEMMA FinishIInv ==
  ASSUME IInv, NEW r \in Requests, Finish(r) PROVE IInv'
<1> DEFINE new == [key |-> key[r], fp |-> fp[r], owner |-> r, seq |-> stores]
<1>1. PICK a \in {"applied", "cancelled"} : Answer(r, a)
  BY DEF Finish
<1>2. cache' \subseteq cache \cup {new}
  BY TrimmedSubset DEF Finish
<1>3. new \in Entry /\ new.key = key[r] /\ new.fp = fp[r] /\ new.owner = r
  BY DEF IInv, Types, Entry
<1> HIDE DEF new
<1>4. /\ phase[r] = "committed" /\ inFlight[key[r]] = r /\ r \in executed
      /\ phase' = [phase EXCEPT ![r] = "done"]
      /\ answer' = [answer EXCEPT ![r] = a]
      /\ outcome' = [outcome EXCEPT ![r] = "succeeded"]
      /\ inFlight' = [inFlight EXCEPT ![key[r]] = Nobody]
      /\ stores' = stores + 1
      /\ UNCHANGED <<waitsOn, executed>>
  BY <1>1 DEF Finish, Answer, Signal, Release, IInv, Marked, Recorded, Executing
<1>5. Types'
  BY <1>2, <1>3, <1>4 DEF IInv, Types, Phases, Outcomes, Answers
<1>6. Marked'
  BY <1>4 DEF IInv, Types, Marked, Executing
<1>7. Exclusive'
  BY <1>2, <1>3, <1>4 DEF IInv, Types, Exclusive, Entry
<1>8. Recorded'
  BY <1>2, <1>3, <1>4 DEF IInv, Types, Recorded, Executing, Entry
<1>9. Waiting'
  BY <1>4 DEF IInv, Types, Waiting
<1>10. Truthful'
  BY <1>4 DEF IInv, Types, Truthful, Carried
<1> QED BY <1>5, <1>6, <1>7, <1>8, <1>9, <1>10 DEF IInv

LEMMA FailIInv ==
  ASSUME IInv, NEW r \in Requests, Fail(r) PROVE IInv'
<1>1. PICK o \in {"failed", "cancelled"} :
        Signal(r, o) /\ Answer(r, IF o = "failed" THEN "error" ELSE "cancelled")
  BY DEF Fail
<1>2. PICK a \in {"error", "cancelled"} : Answer(r, a)
  BY <1>1
<1>3. /\ phase[r] \in Executing /\ inFlight[key[r]] = r /\ outcome[r] = "pending"
      /\ phase' = [phase EXCEPT ![r] = "done"]
      /\ answer' = [answer EXCEPT ![r] = a]
      /\ outcome' = [outcome EXCEPT ![r] = o]
      /\ inFlight' = [inFlight EXCEPT ![key[r]] = Nobody]
      /\ UNCHANGED <<waitsOn, cache, stores, executed>>
  BY <1>1, <1>2 DEF Fail, Answer, Signal, Release, IInv, Marked, Recorded
<1>4. Types'
  BY <1>3 DEF IInv, Types, Phases, Outcomes, Answers
<1>5. Marked'
  BY <1>3 DEF IInv, Types, Marked, Executing
<1>6. Exclusive'
  BY <1>3 DEF IInv, Types, Exclusive, Entry
<1>7. Recorded'
  BY <1>3 DEF IInv, Types, Recorded, Executing, Entry
<1>8. Waiting'
  BY <1>3 DEF IInv, Types, Waiting
<1>9. Truthful'
  BY <1>3 DEF IInv, Types, Truthful, Carried
<1> QED BY <1>4, <1>5, <1>6, <1>7, <1>8, <1>9 DEF IInv

LEMMA RestartIInv == ASSUME IInv, Restart PROVE IInv'
<1> USE DEF IInv, Types, Restart, Executing
<1>1. Types'
  BY DEF Phases, Answers
<1>2. Marked' /\ Exclusive' /\ Waiting'
  BY DEF Marked, Exclusive, Waiting, Entry
<1>3. Recorded'
  BY DEF Recorded
<1>4. Truthful'
  BY DEF Truthful, Carried
<1> QED BY <1>1, <1>2, <1>3, <1>4

LEMMA NextIInv == IInv /\ [Next]_vars => IInv'
<1> SUFFICES ASSUME IInv, [Next]_vars PROVE IInv'
  OBVIOUS
<1>1. CASE Restart
  BY <1>1, RestartIInv
<1>2. ASSUME NEW r \in Requests, Step(r) PROVE IInv'
  BY <1>2, ClaimIInv, ReplayOrRefuseIInv, WaitOrRefuseIInv, ResumeFailedIInv,
     ResumeSucceededIInv, CancelWaiterIInv, ExecuteIInv, FinishIInv, FailIInv DEF Step
<1>3. CASE UNCHANGED vars
  BY <1>3 DEF vars, IInv, Types, Marked, Exclusive, Recorded, Waiting, Truthful, Carried
<1> QED BY <1>1, <1>2, <1>3 DEF Next

LEMMA SpecIInv == Spec => []IInv
BY InitIInv, NextIInv, PTL DEF Spec

----------------------------------------------------------------------------
\* Two handlers of add_model, replace_model or delete_model never execute a
\* write for the same Idempotency-Key at the same time.
THEOREM SingleOwner == Spec => []OneOwner
<1>1. IInv => OneOwner
  BY DEF IInv, Marked, OneOwner
<1> QED BY <1>1, SpecIInv, PTL

\* A replayed response, and the notice that it was evicted, go only to a
\* request whose key and content some request carried out with success.
THEOREM TruthfulReplays == Spec => []ReplayIsTruthful
<1>1. IInv => ReplayIsTruthful
  BY DEF IInv, Types, Truthful, Carried, ReplayIsTruthful
<1> QED BY <1>1, SpecIInv, PTL

\* No write takes effect while a response for its key is cached: the cache
\* lookup of _idempotency_claim is not stale when the handler commits.
THEOREM NoWriteBehindCache == Spec => NoWriteWhileRemembered
<1>1. IInv /\ [Next]_vars =>
        [\A r \in executed' \ executed : Cached(key[r]) = {}]_vars
  <2> SUFFICES ASSUME IInv, Next, NEW r \in executed' \ executed
               PROVE  Cached(key[r]) = {}
    OBVIOUS
  <2>1. PICK s \in Requests : Execute(s)
    BY DEF Next, Step, Restart, Claim, ReplayOrRefuse, WaitOrRefuse, ResumeFailed,
           ResumeSucceeded, CancelWaiter, Finish, Fail
  <2>2. r = s /\ inFlight[key[r]] = r /\ r \in Requests
    BY <2>1 DEF Execute, IInv, Marked, Executing
  <2> QED BY <2>2 DEF IInv, Exclusive, Cached
<1> QED BY <1>1, SpecIInv, PTL DEF Spec, NoWriteWhileRemembered
=============================================================================
