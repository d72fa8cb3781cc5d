----------------------------- MODULE MCLoyalty -----------------------------
(* Small instances of Loyalty for TLC. *)
EXTENDS Loyalty, TLC

CONSTANTS h1, h2, h3, h4, alice, bob, u1, u2, t1, t2

Symmetric == Permutations(Requests) \cup Permutations(Ids) \cup Permutations(Instants)
=============================================================================
