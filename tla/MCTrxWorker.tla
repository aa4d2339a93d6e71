----------------------------- MODULE MCTrxWorker -----------------------------
(* TrxWorker, with the bridges of AbisBridge, on a small instance.           *)
EXTENDS TrxWorker

===============================================================================
