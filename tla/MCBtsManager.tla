----------------------------- MODULE MCBtsManager -----------------------------
(* BtsReuse on small instances.  Owners are interchangeable: nothing the     *)
(* manager does, and nothing the properties say, tells one from another.     *)
EXTENDS BtsReuse, TLC

OwnerSymmetry == Permutations(Keys)

===============================================================================
