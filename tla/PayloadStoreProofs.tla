------------------------- MODULE PayloadStoreProofs -------------------------
(***************************************************************************)
(* The safety of PayloadStore for any requests, items and number of        *)
(* faults.                                                                 *)
(***************************************************************************)
EXTENDS PayloadStore, TLAPS

Started(r) == phase[r] # "idle"

\* Work of any kind exists only for a request that was submitted, so that a
\* request that is over never becomes pending again.
OnlyStarted ==
  /\ \A r \in Requests : r \in pending \/ r \in due => Started(r)
  /\ \A k \in Keys :
       step[k] # "todo" \/ k \in tracked \cup adrift \cup byRef => Started(ReqOf(k))
  /\ \A p \in Passes : ~Idle(p) => Started(p[1])

\* A write that may land while its request waits has its key recorded, and
\* a stored item has its blob.
WritesRecorded ==
  \A k \in Keys : ReqOf(k) \in pending =>
    /\ step[k] = "put" \/ k \in adrift => k \in tracked
    /\ step[k] = "stored" => k \in blobs

\* A cleanup waits to start only for a request that is over, and what is
\* back in the store after its delete is late.
DeletesAreFinal ==
  /\ \A r \in due : r \notin pending
  /\ \A p \in Passes : \A k \in gone[p] : k \in blobs => k \in late

Inv == /\ TypeOK /\ OnlyStarted /\ WritesRecorded /\ DeletesAreFinal
       /\ PayloadWhileWaiting /\ NothingForgotten

(* The sets the variables range over are expanded in every proof.          *)
USE DEF ReqOf, Keys, Passes, Tasks, Steps

\* The invariant holds before the first request.
LEMMA InitInv == Init => Inv
<1> SUFFICES ASSUME Init PROVE Inv
  OBVIOUS
<1>1. TypeOK
  BY FaultAssumption DEF Init, TypeOK, Idle, KeysOf
<1>2. OnlyStarted /\ DeletesAreFinal
  BY DEF Init, OnlyStarted, DeletesAreFinal, Idle, Started
<1>3. WritesRecorded /\ PayloadWhileWaiting /\ NothingForgotten
  BY DEF Init, WritesRecorded, PayloadWhileWaiting, NothingForgotten
<1> QED
  BY <1>1, <1>2, <1>3 DEF Inv

\* A dropped write lands or is lost.
LEMMA LandInv ==
  ASSUME Inv, NEW k \in Keys, Land(k)
  PROVE  Inv'
<1>1. TypeOK'
  BY DEF Inv, TypeOK, Idle, KeysOf, Land, Written, Unreachable, publishing,
     cleaning, pass
<1>2. OnlyStarted'
  BY DEF Inv, TypeOK, OnlyStarted, Started, Idle, KeysOf, Land, Written,
     Unreachable, publishing, cleaning, pass
<1>3. WritesRecorded'
  BY DEF Inv, TypeOK, WritesRecorded, KeysOf, Idle, Land, Written,
     Unreachable, publishing, cleaning, pass
<1>4. DeletesAreFinal'
  BY DEF Inv, TypeOK, DeletesAreFinal, Idle, KeysOf, Land, Written,
     Unreachable, publishing, cleaning, pass
<1>5. PayloadWhileWaiting'
  BY DEF Inv, TypeOK, WritesRecorded, PayloadWhileWaiting, Idle, KeysOf,
     Land, Written, Unreachable, publishing, cleaning, pass
<1>6. NothingForgotten'
  BY DEF Inv, TypeOK, WritesRecorded, DeletesAreFinal, NothingForgotten,
     KeysOf, Idle, Land, Written, Unreachable, publishing, cleaning, pass
<1> QED
  BY <1>1, <1>2, <1>3, <1>4, <1>5, <1>6 DEF Inv

\* A request starts: nothing of an earlier life of it is left.
LEMMA SubmitInv ==
  ASSUME Inv, NEW r \in Requests, Submit(r)
  PROVE  Inv'
<1>1. TypeOK'
  BY DEF Inv, TypeOK, Idle, KeysOf, OnlyStarted, Started, Submit,
     publishing, cleaning, pass
<1>2. OnlyStarted'
  BY DEF Inv, TypeOK, OnlyStarted, Started, Idle, KeysOf, Submit,
     publishing, cleaning, pass
<1>3. WritesRecorded'
  BY DEF Inv, TypeOK, WritesRecorded, KeysOf, Idle, OnlyStarted, Started,
     Submit, publishing, cleaning, pass
<1>4. DeletesAreFinal'
  BY DEF Inv, TypeOK, DeletesAreFinal, Idle, KeysOf, OnlyStarted, Started,
     Submit, publishing, cleaning, pass
<1>5. PayloadWhileWaiting'
  BY DEF Inv, TypeOK, WritesRecorded, PayloadWhileWaiting, Idle, KeysOf,
     OnlyStarted, Started, Submit, publishing, cleaning, pass
<1>6. NothingForgotten'
  BY DEF Inv, TypeOK, WritesRecorded, DeletesAreFinal, NothingForgotten,
     KeysOf, Idle, OnlyStarted, Started, Submit, publishing, cleaning, pass
<1> QED
  BY <1>1, <1>2, <1>3, <1>4, <1>5, <1>6 DEF Inv

\* A key is recorded and its write starts.
LEMMA OffloadInv ==
  ASSUME Inv, NEW k \in Keys, Offload(k)
  PROVE  Inv'
<1>1. TypeOK'
  BY DEF Inv, TypeOK, Idle, KeysOf, Offload, Recorded, Publishing,
     publishing, cleaning, pass
<1>2. OnlyStarted'
  BY DEF Inv, TypeOK, OnlyStarted, Started, Idle, KeysOf, Offload, Recorded,
     Publishing, publishing, cleaning, pass
<1>3. WritesRecorded'
  BY DEF Inv, TypeOK, WritesRecorded, KeysOf, Idle, Offload, Recorded,
     Publishing, publishing, cleaning, pass
<1>4. DeletesAreFinal'
  BY DEF Inv, TypeOK, DeletesAreFinal, Idle, KeysOf, Offload, Recorded,
     Publishing, publishing, cleaning, pass
<1>5. PayloadWhileWaiting'
  BY DEF Inv, TypeOK, WritesRecorded, PayloadWhileWaiting, Idle, KeysOf,
     Offload, Recorded, Publishing, publishing, cleaning, pass
<1>6. NothingForgotten'
  BY DEF Inv, TypeOK, WritesRecorded, DeletesAreFinal, NothingForgotten,
     KeysOf, Idle, Offload, Recorded, Publishing, publishing, cleaning, pass
<1> QED
  BY <1>1, <1>2, <1>3, <1>4, <1>5, <1>6 DEF Inv

\* A write succeeds.
LEMMA PutSucceedsInv ==
  ASSUME Inv, NEW k \in Keys, PutSucceeds(k)
  PROVE  Inv'
<1>1. TypeOK'
  BY DEF Inv, TypeOK, Idle, KeysOf, PutSucceeds, Written, Unreachable,
     Publishing, publishing, cleaning, pass
<1>2. OnlyStarted'
  BY DEF Inv, TypeOK, OnlyStarted, Started, Idle, KeysOf, PutSucceeds,
     Written, Unreachable, Publishing, publishing, cleaning, pass
<1>3. WritesRecorded'
  BY DEF Inv, TypeOK, WritesRecorded, KeysOf, Idle, PutSucceeds, Written,
     Unreachable, Publishing, publishing, cleaning, pass
<1>4. DeletesAreFinal'
  BY DEF Inv, TypeOK, DeletesAreFinal, Idle, KeysOf, PutSucceeds, Written,
     Unreachable, Publishing, publishing, cleaning, pass
<1>5. PayloadWhileWaiting'
  BY DEF Inv, TypeOK, WritesRecorded, PayloadWhileWaiting, Idle, KeysOf,
     PutSucceeds, Written, Unreachable, Publishing, publishing, cleaning,
     pass
<1>6. NothingForgotten'
  BY DEF Inv, TypeOK, WritesRecorded, DeletesAreFinal, NothingForgotten,
     KeysOf, Idle, PutSucceeds, Written, Unreachable, Publishing,
     publishing, cleaning, pass
<1> QED
  BY <1>1, <1>2, <1>3, <1>4, <1>5, <1>6 DEF Inv

\* A write fails.
LEMMA PutFailsInv ==
  ASSUME Inv, NEW k \in Keys, PutFails(k)
  PROVE  Inv'
<1>1. TypeOK'
  BY DEF Inv, TypeOK, Idle, KeysOf, PutFails, Written, Unreachable,
     Publishing, publishing, cleaning, pass
<1>2. OnlyStarted'
  BY DEF Inv, TypeOK, OnlyStarted, Started, Idle, KeysOf, PutFails, Written,
     Unreachable, Publishing, publishing, cleaning, pass
<1>3. WritesRecorded'
  BY DEF Inv, TypeOK, WritesRecorded, KeysOf, Idle, PutFails, Written,
     Unreachable, Publishing, publishing, cleaning, pass
<1>4. DeletesAreFinal'
  BY DEF Inv, TypeOK, DeletesAreFinal, Idle, KeysOf, PutFails, Written,
     Unreachable, Publishing, publishing, cleaning, pass
<1>5. PayloadWhileWaiting'
  BY DEF Inv, TypeOK, WritesRecorded, PayloadWhileWaiting, Idle, KeysOf,
     PutFails, Written, Unreachable, Publishing, publishing, cleaning, pass
<1>6. NothingForgotten'
  BY DEF Inv, TypeOK, WritesRecorded, DeletesAreFinal, NothingForgotten,
     KeysOf, Idle, PutFails, Written, Unreachable, Publishing, publishing,
     cleaning, pass
<1> QED
  BY <1>1, <1>2, <1>3, <1>4, <1>5, <1>6 DEF Inv

\* A reference is published.
LEMMA PublishInv ==
  ASSUME Inv, NEW k \in Keys, Publish(k)
  PROVE  Inv'
<1>1. TypeOK'
  BY DEF Inv, TypeOK, Idle, KeysOf, Publish, Publishing, publishing,
     cleaning, pass
<1>2. OnlyStarted'
  BY DEF Inv, TypeOK, OnlyStarted, Started, Idle, KeysOf, Publish,
     Publishing, publishing, cleaning, pass
<1>3. WritesRecorded'
  BY DEF Inv, TypeOK, WritesRecorded, KeysOf, Idle, Publish, Publishing,
     publishing, cleaning, pass
<1>4. DeletesAreFinal'
  BY DEF Inv, TypeOK, DeletesAreFinal, Idle, KeysOf, Publish, Publishing,
     publishing, cleaning, pass
<1>5. PayloadWhileWaiting'
  BY DEF Inv, TypeOK, WritesRecorded, PayloadWhileWaiting, Idle, KeysOf,
     Publish, Publishing, publishing, cleaning, pass
<1>6. NothingForgotten'
  BY DEF Inv, TypeOK, WritesRecorded, DeletesAreFinal, NothingForgotten,
     KeysOf, Idle, Publish, Publishing, publishing, cleaning, pass
<1> QED
  BY <1>1, <1>2, <1>3, <1>4, <1>5, <1>6 DEF Inv

\* A direct publish is retried on the pool subject.
LEMMA RetryInv ==
  ASSUME Inv, NEW r \in Requests, Retry(r)
  PROVE  Inv'
<1>1. TypeOK'
  BY DEF Inv, TypeOK, Idle, KeysOf, Retry, InFlight, publishing, cleaning,
     pass
<1>2. OnlyStarted'
  BY DEF Inv, TypeOK, OnlyStarted, Started, Idle, KeysOf, Retry, InFlight,
     publishing, cleaning, pass
<1>3. WritesRecorded'
  BY DEF Inv, TypeOK, WritesRecorded, KeysOf, Idle, Retry, InFlight,
     publishing, cleaning, pass
<1>4. DeletesAreFinal'
  BY DEF Inv, TypeOK, DeletesAreFinal, Idle, KeysOf, Retry, InFlight,
     publishing, cleaning, pass
<1>5. PayloadWhileWaiting'
  BY DEF Inv, TypeOK, WritesRecorded, PayloadWhileWaiting, Idle, KeysOf,
     Retry, InFlight, publishing, cleaning, pass
<1>6. NothingForgotten'
  BY DEF Inv, TypeOK, WritesRecorded, DeletesAreFinal, NothingForgotten,
     KeysOf, Idle, Retry, InFlight, publishing, cleaning, pass
<1> QED
  BY <1>1, <1>2, <1>3, <1>4, <1>5, <1>6 DEF Inv

\* The handler stops publishing.
LEMMA HandoffInv ==
  ASSUME Inv, NEW r \in Requests, Handoff(r)
  PROVE  Inv'
<1>1. TypeOK'
  BY DEF Inv, TypeOK, Idle, KeysOf, Handoff, Publishing, publishing,
     cleaning, pass
<1>2. OnlyStarted'
  BY DEF Inv, TypeOK, OnlyStarted, Started, Idle, KeysOf, Handoff,
     Publishing, publishing, cleaning, pass
<1>3. WritesRecorded'
  BY DEF Inv, TypeOK, WritesRecorded, KeysOf, Idle, Handoff, Publishing,
     publishing, cleaning, pass
<1>4. DeletesAreFinal'
  BY DEF Inv, TypeOK, DeletesAreFinal, Idle, KeysOf, Handoff, Publishing,
     publishing, cleaning, pass
<1>5. PayloadWhileWaiting'
  BY DEF Inv, TypeOK, WritesRecorded, PayloadWhileWaiting, Idle, KeysOf,
     Handoff, Publishing, publishing, cleaning, pass
<1>6. NothingForgotten'
  BY DEF Inv, TypeOK, WritesRecorded, DeletesAreFinal, NothingForgotten,
     KeysOf, Idle, Handoff, Publishing, publishing, cleaning, pass
<1> QED
  BY <1>1, <1>2, <1>3, <1>4, <1>5, <1>6 DEF Inv

\* The handler is dropped.
LEMMA DropInv ==
  ASSUME Inv, NEW r \in Requests, Drop(r)
  PROVE  Inv'
<1>1. TypeOK'
  BY DEF Inv, TypeOK, Idle, KeysOf, Drop, Remove, InFlight, Publishing,
     publishing, cleaning, pass
<1>2. OnlyStarted'
  BY DEF Inv, TypeOK, OnlyStarted, Started, Idle, KeysOf, Drop, Remove,
     InFlight, Publishing, publishing, cleaning, pass
<1>3. WritesRecorded'
  BY DEF Inv, TypeOK, WritesRecorded, KeysOf, Idle, Drop, Remove, InFlight,
     Publishing, publishing, cleaning, pass
<1>4. DeletesAreFinal'
  BY DEF Inv, TypeOK, DeletesAreFinal, Idle, KeysOf, Drop, Remove, InFlight,
     Publishing, publishing, cleaning, pass
<1>5. PayloadWhileWaiting'
  BY DEF Inv, TypeOK, WritesRecorded, PayloadWhileWaiting, Idle, KeysOf,
     Drop, Remove, InFlight, Publishing, publishing, cleaning, pass
<1>6. NothingForgotten'
  BY DEF Inv, TypeOK, WritesRecorded, DeletesAreFinal, NothingForgotten,
     KeysOf, Idle, Drop, Remove, InFlight, Publishing, publishing, cleaning,
     pass
<1> QED
  BY <1>1, <1>2, <1>3, <1>4, <1>5, <1>6 DEF Inv

\* The request ends.
LEMMA EndInv ==
  ASSUME Inv, NEW r \in Requests, End(r)
  PROVE  Inv'
<1>1. TypeOK'
  BY DEF Inv, TypeOK, Idle, KeysOf, End, Remove, publishing, cleaning, pass
<1>2. OnlyStarted'
  BY DEF Inv, TypeOK, OnlyStarted, Started, Idle, KeysOf, End, Remove,
     publishing, cleaning, pass
<1>3. WritesRecorded'
  BY DEF Inv, TypeOK, WritesRecorded, KeysOf, Idle, End, Remove, publishing,
     cleaning, pass
<1>4. DeletesAreFinal'
  BY DEF Inv, TypeOK, DeletesAreFinal, Idle, KeysOf, End, Remove,
     publishing, cleaning, pass
<1>5. PayloadWhileWaiting'
  BY DEF Inv, TypeOK, WritesRecorded, PayloadWhileWaiting, Idle, KeysOf,
     End, Remove, publishing, cleaning, pass
<1>6. NothingForgotten'
  BY DEF Inv, TypeOK, WritesRecorded, DeletesAreFinal, NothingForgotten,
     KeysOf, Idle, End, Remove, publishing, cleaning, pass
<1> QED
  BY <1>1, <1>2, <1>3, <1>4, <1>5, <1>6 DEF Inv

\* The cleanup of an ended request starts.
LEMMA StartCleanupInv ==
  ASSUME Inv, NEW r \in Requests, StartCleanup(r)
  PROVE  Inv'
<1>1. TypeOK'
  BY DEF DeletesAreFinal, Inv, TypeOK, Idle, KeysOf, StartCleanup, Start,
     publishing, cleaning, pass
<1>2. OnlyStarted'
  BY DEF Inv, TypeOK, OnlyStarted, Started, Idle, KeysOf, StartCleanup,
     Start, publishing, cleaning, pass
<1>3. WritesRecorded'
  BY DEF Inv, TypeOK, WritesRecorded, KeysOf, Idle, StartCleanup, Start,
     publishing, cleaning, pass
<1>4. DeletesAreFinal'
  BY DEF Inv, TypeOK, DeletesAreFinal, Idle, KeysOf, StartCleanup, Start,
     publishing, cleaning, pass
<1>5. PayloadWhileWaiting'
  BY DEF Inv, TypeOK, WritesRecorded, PayloadWhileWaiting, Idle, KeysOf,
     StartCleanup, Start, publishing, cleaning, pass
<1>6. NothingForgotten'
  BY DEF Inv, TypeOK, WritesRecorded, DeletesAreFinal, NothingForgotten,
     KeysOf, Idle, StartCleanup, Start, publishing, cleaning, pass
<1> QED
  BY <1>1, <1>2, <1>3, <1>4, <1>5, <1>6 DEF Inv

\* The sweep starts a pass.
LEMMA SweepInv ==
  ASSUME Inv, NEW r \in Requests, Sweep(r)
  PROVE  Inv'
<1>1. TypeOK'
  BY DEF Inv, TypeOK, Idle, KeysOf, Sweep, Start, Orphaned, publishing,
     cleaning, pass
<1>2. OnlyStarted'
  BY DEF Inv, TypeOK, OnlyStarted, Started, Idle, KeysOf, Sweep, Start,
     Orphaned, publishing, cleaning, pass
<1>3. WritesRecorded'
  BY DEF Inv, TypeOK, WritesRecorded, KeysOf, Idle, Sweep, Start, Orphaned,
     publishing, cleaning, pass
<1>4. DeletesAreFinal'
  BY DEF Inv, TypeOK, DeletesAreFinal, Idle, KeysOf, Sweep, Start, Orphaned,
     publishing, cleaning, pass
<1>5. PayloadWhileWaiting'
  BY DEF Inv, TypeOK, WritesRecorded, PayloadWhileWaiting, Idle, KeysOf,
     Sweep, Start, Orphaned, publishing, cleaning, pass
<1>6. NothingForgotten'
  BY DEF Inv, TypeOK, WritesRecorded, DeletesAreFinal, NothingForgotten,
     KeysOf, Idle, Sweep, Start, Orphaned, publishing, cleaning, pass
<1> QED
  BY <1>1, <1>2, <1>3, <1>4, <1>5, <1>6 DEF Inv

\* A pass deletes a blob.
LEMMA DeleteInv ==
  ASSUME Inv, NEW p \in Passes, NEW k \in Keys, Delete(p, k)
  PROVE  Inv'
<1>1. TypeOK'
  BY DEF Inv, TypeOK, Idle, KeysOf, Delete, publishing, cleaning, pass
<1>2. OnlyStarted'
  BY DEF Inv, TypeOK, OnlyStarted, Started, Idle, KeysOf, Delete,
     publishing, cleaning, pass
<1>3. WritesRecorded'
  BY DEF Inv, TypeOK, WritesRecorded, KeysOf, Idle, Delete, publishing,
     cleaning, pass
<1>4. DeletesAreFinal'
  BY DEF Inv, TypeOK, DeletesAreFinal, Idle, KeysOf, Delete, publishing,
     cleaning, pass
<1>5. PayloadWhileWaiting'
  BY DEF Inv, TypeOK, WritesRecorded, PayloadWhileWaiting, Idle, KeysOf,
     Delete, publishing, cleaning, pass
<1>6. NothingForgotten'
  BY DEF Inv, TypeOK, WritesRecorded, DeletesAreFinal, NothingForgotten,
     KeysOf, Idle, Delete, publishing, cleaning, pass
<1> QED
  BY <1>1, <1>2, <1>3, <1>4, <1>5, <1>6 DEF Inv

\* A pass forgets a key it deleted.
LEMMA RetireInv ==
  ASSUME Inv, NEW p \in Passes, Retire(p)
  PROVE  Inv'
<1>1. TypeOK'
  BY DEF Inv, TypeOK, Idle, KeysOf, Retire, publishing, cleaning, pass
<1>2. OnlyStarted'
  BY DEF Inv, TypeOK, OnlyStarted, Started, Idle, KeysOf, Retire,
     publishing, cleaning, pass
<1>3. WritesRecorded'
  BY DEF Inv, TypeOK, WritesRecorded, KeysOf, Idle, Retire, publishing,
     cleaning, pass
<1>4. DeletesAreFinal'
  BY DEF Inv, TypeOK, DeletesAreFinal, Idle, KeysOf, Retire, publishing,
     cleaning, pass
<1>5. PayloadWhileWaiting'
  BY DEF Inv, TypeOK, WritesRecorded, PayloadWhileWaiting, Idle, KeysOf,
     Retire, publishing, cleaning, pass
<1>6. NothingForgotten'
  BY DEF Inv, TypeOK, WritesRecorded, DeletesAreFinal, NothingForgotten,
     KeysOf, Idle, Retire, publishing, cleaning, pass
<1> QED
  BY <1>1, <1>2, <1>3, <1>4, <1>5, <1>6 DEF Inv

\* A delete fails.
LEMMA DeleteFailsInv ==
  ASSUME Inv, NEW p \in Passes, NEW k \in Keys, DeleteFails(p, k)
  PROVE  Inv'
<1>1. TypeOK'
  BY FaultAssumption DEF Inv, TypeOK, Idle, KeysOf, DeleteFails, Kept,
     Fault, publishing, cleaning, pass
<1>2. OnlyStarted'
  BY DEF Inv, TypeOK, OnlyStarted, Started, Idle, KeysOf, DeleteFails, Kept,
     Fault, publishing, cleaning, pass
<1>3. WritesRecorded'
  BY DEF Inv, TypeOK, WritesRecorded, KeysOf, Idle, DeleteFails, Kept,
     Fault, publishing, cleaning, pass
<1>4. DeletesAreFinal'
  BY DEF Inv, TypeOK, DeletesAreFinal, Idle, KeysOf, DeleteFails, Kept,
     Fault, publishing, cleaning, pass
<1>5. PayloadWhileWaiting'
  BY DEF Inv, TypeOK, WritesRecorded, PayloadWhileWaiting, Idle, KeysOf,
     DeleteFails, Kept, Fault, publishing, cleaning, pass
<1>6. NothingForgotten'
  BY DEF Inv, TypeOK, WritesRecorded, DeletesAreFinal, NothingForgotten,
     KeysOf, Idle, DeleteFails, Kept, Fault, publishing, cleaning, pass
<1> QED
  BY <1>1, <1>2, <1>3, <1>4, <1>5, <1>6 DEF Inv

\* A pass is cancelled.
LEMMA CancelInv ==
  ASSUME Inv, NEW p \in Passes, Cancel(p)
  PROVE  Inv'
<1>1. TypeOK'
  BY FaultAssumption DEF Inv, TypeOK, Idle, KeysOf, Cancel, Fault,
     publishing, cleaning, pass
<1>2. OnlyStarted'
  BY DEF Inv, TypeOK, OnlyStarted, Started, Idle, KeysOf, Cancel, Fault,
     publishing, cleaning, pass
<1>3. WritesRecorded'
  BY DEF Inv, TypeOK, WritesRecorded, KeysOf, Idle, Cancel, Fault,
     publishing, cleaning, pass
<1>4. DeletesAreFinal'
  BY DEF Inv, TypeOK, DeletesAreFinal, Idle, KeysOf, Cancel, Fault,
     publishing, cleaning, pass
<1>5. PayloadWhileWaiting'
  BY DEF Inv, TypeOK, WritesRecorded, PayloadWhileWaiting, Idle, KeysOf,
     Cancel, Fault, publishing, cleaning, pass
<1>6. NothingForgotten'
  BY DEF Inv, TypeOK, WritesRecorded, DeletesAreFinal, NothingForgotten,
     KeysOf, Idle, Cancel, Fault, publishing, cleaning, pass
<1> QED
  BY <1>1, <1>2, <1>3, <1>4, <1>5, <1>6 DEF Inv

\* Every step preserves the invariant.
LEMMA NextInv == Inv /\ [Next]_vars => Inv'
<1> SUFFICES ASSUME Inv, [Next]_vars PROVE Inv'
  OBVIOUS
<1>1. ASSUME NEW k \in Keys, Handler(k) PROVE Inv'
  BY <1>1, LandInv, OffloadInv, PutSucceedsInv, PutFailsInv, PublishInv DEF Handler
<1>2. ASSUME NEW r \in Requests, Request(r) PROVE Inv'
  BY <1>2, SubmitInv, RetryInv, HandoffInv, DropInv, EndInv, StartCleanupInv, SweepInv
     DEF Request
<1>3. ASSUME NEW p \in Passes, Cleanup(p) PROVE Inv'
  BY <1>3, RetireInv, CancelInv, DeleteInv, DeleteFailsInv DEF Cleanup
<1>4. CASE UNCHANGED vars
  BY <1>4 DEF Inv, TypeOK, OnlyStarted, WritesRecorded, DeletesAreFinal, PayloadWhileWaiting,
     NothingForgotten, Started, Idle, vars, publishing, cleaning, pass
<1> QED
  BY <1>1, <1>2, <1>3, <1>4 DEF Next

\* The invariant holds in every reachable state.
LEMMA Invariance == Spec => []Inv
<1>1. Init /\ [][Next]_vars => []Inv
  BY InitInv, NextInv, PTL
<1> QED
  BY <1>1, PTL DEF Spec

\* No cleanup pass runs for a request that is in pending_results.
THEOREM TypesAndPasses == Spec => []TypeOK
<1>1. Inv => TypeOK
  BY DEF Inv
<1> QED
  BY <1>1, Invariance, PTL

\* The payload of every item published by reference is in the store while
\* its request is in pending_results, whatever cleanups run.
THEOREM PayloadsAvailable == Spec => []PayloadWhileWaiting
<1>1. Inv => PayloadWhileWaiting
  BY DEF Inv
<1> QED
  BY <1>1, Invariance, PTL

\* cleanup_offloaded_payloads_inner forgets no blob, except one that landed
\* when its request was over and its key deleted.
THEOREM NoPayloadForgotten == Spec => []NothingForgotten
<1>1. Inv => NothingForgotten
  BY DEF Inv
<1> QED
  BY <1>1, Invariance, PTL
=============================================================================
