---------------------------- MODULE RequestReply ----------------------------
(***************************************************************************)
(* What the queue promises an HTTP client, workers and transport aside: a  *)
(* request gets one answer, and an answer with results means that workers  *)
(* produced an outcome for every item of it after it was submitted.        *)
(***************************************************************************)
CONSTANTS Requests, Items

VARIABLES
  status,   \* "idle", "open", "results" or "failed"
  worked    \* the items of a request some worker produced an outcome for

vars == <<status, worked>>

Init == /\ status = [r \in Requests |-> "idle"]
        /\ worked = [r \in Requests |-> {}]

Submit(r) == /\ status[r] = "idle"
             /\ status' = [status EXCEPT ![r] = "open"]
             /\ UNCHANGED worked

\* Workers may also finish items of a request that was given up.
Work(r, i) == /\ status[r] # "idle"
              /\ worked' = [worked EXCEPT ![r] = @ \cup {i}]
              /\ UNCHANGED status

Succeed(r) == /\ status[r] = "open" /\ worked[r] = Items
              /\ status' = [status EXCEPT ![r] = "results"]
              /\ UNCHANGED worked

Fail(r) == /\ status[r] = "open"
           /\ status' = [status EXCEPT ![r] = "failed"]
           /\ UNCHANGED worked

Next == \E r \in Requests : \/ Submit(r) \/ Succeed(r) \/ Fail(r)
                            \/ \E i \in Items : Work(r, i)

Spec == Init /\ [][Next]_vars
=============================================================================
