--------------------------- MODULE MCPayloadStore ---------------------------
(* PayloadStore with one request of two items; requests share nothing but  *)
(* the task that sweeps.                                                   *)
EXTENDS PayloadStore
CONSTANTS r1, i1, i2
=============================================================================
