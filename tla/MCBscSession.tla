---------------------------- MODULE MCBscSession ----------------------------
(* BscSession for three or four calls, each about a BTS of its own.          *)
EXTENDS BscSession

CONSTANTS w1, w2, w3, w4

MCThree == {w1, w2, w3}
MCFour  == {w1, w2, w3, w4}
MCTarget == [w \in MCFour |-> CASE w = w1 -> 0 [] w = w2 -> 1 [] w = w3 -> 2 [] w = w4 -> 3]

===============================================================================
