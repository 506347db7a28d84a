--------------------------- MODULE MCIdempotency ---------------------------
(* Idempotency with three retries of one request, another request that     *)
(* reuses its key, and one with a key of its own whose response evicts.    *)
EXTENDS Idempotency, TLC
CONSTANTS r1, r2, r3, reused, other, k1, k2, f1, f2
MCRequests == {r1, r2, r3, reused, other}
MCKey == [r \in MCRequests |-> IF r = other THEN k2 ELSE k1]
MCFp == [r \in MCRequests |-> IF r = reused THEN f2 ELSE f1]
=============================================================================
