----------------------------- MODULE MCTrxManager -----------------------------
(* TrxManager on a small instance.  CLOSE_USB and CLOSE take the same steps. *)
EXTENDS TrxManager

SomeMethods == Methods \ {"CLOSE_USB"}

===============================================================================
