---------------------------- MODULE MCVtyClient -----------------------------
(* VtyClient for a fixed set of requests: r1 prints nothing (as configuration *)
(* commands do), r2 one line and r3 two.                                      *)
EXTENDS VtyClient

CONSTANTS r1, r2, r3

MCRequests == {r1, r2, r3}
MCSize == [r \in MCRequests |-> CASE r = r1 -> 0 [] r = r2 -> 1 [] r = r3 -> 2]

===============================================================================
