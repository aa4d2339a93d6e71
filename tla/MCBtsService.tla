----------------------------- MODULE MCBtsService -----------------------------
(* BtsService on small instances; owners that may do the same things, the    *)
(* frames of the PUTs, and the configurations are interchangeable: a PUT     *)
(* names its configuration, so no assignment gets DefaultConfig.             *)
EXTENDS BtsService, TLC

Symmetry == Permutations(Keys) \cup Permutations(Puts) \cup Permutations(Configs)

===============================================================================
