------------------------------ MODULE MCMemory -------------------------------
(* A small instance of Memory for TLC. *)
EXTENDS Memory, TLC

CONSTANTS w1, w2
TwoWorlds == {w1, w2}
Swaps == Permutations(TwoWorlds)
OneWord == {<<1, 2>>}

=============================================================================
