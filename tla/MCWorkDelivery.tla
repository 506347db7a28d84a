--------------------------- MODULE MCWorkDelivery ---------------------------
(* WorkDelivery with one request of two items, dispatched to one worker    *)
(* directly; that worker also serves the pool the request falls back to.   *)
EXTENDS WorkDelivery, TLC
CONSTANTS r1, i1, i2, w1
ItemSymmetry == Permutations({i1, i2})
=============================================================================
