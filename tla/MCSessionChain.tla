--------------------------- MODULE MCSessionChain ---------------------------
(* SessionChain on small instances. *)
EXTENDS SessionChain, TLC

CONSTANTS s1, s2, t1, t2, t3, d1   \* model values

Symmetry == Permutations(Threads) \cup Permutations(Sessions)
=============================================================================
