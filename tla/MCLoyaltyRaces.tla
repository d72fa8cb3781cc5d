--------------------------- MODULE MCLoyaltyRaces ---------------------------
(* Small instances of LoyaltyRaces for TLC. *)
EXTENDS LoyaltyRaces, TLC

CONSTANTS h1, h2, h3, alice, bob, u1, t1, t2

Symmetric == Permutations(Requests) \cup Permutations(Ids) \cup Permutations(Instants)
=============================================================================
