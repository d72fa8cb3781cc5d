---------------------------- MODULE MCMiddleware ----------------------------
(***************************************************************************)
(* A small instance of Middleware for TLC.                                  *)
(***************************************************************************)
EXTENDS Middleware, TLC

CONSTANTS d1, d2, d3, m1, ip1, ip2, s1, l1, l2, q1, q2

Symmetric == Permutations(Deliveries) \cup Permutations(Clients)
               \cup Permutations(Logins) \cup Permutations(Reads)
=============================================================================
