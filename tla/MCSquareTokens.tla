--------------------------- MODULE MCSquareTokens ---------------------------
(* A small instance of SquareTokens for TLC. *)
EXTENDS SquareTokens, TLC

CONSTANTS h1, h2, h3, h4, m1, m2, s1, s2, l1, l2

Symmetric == Permutations(Requests) \cup Permutations(Merchants) \cup Permutations(States)
=============================================================================
