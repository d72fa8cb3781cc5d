----------------------------- MODULE MCAccounts -----------------------------
(***************************************************************************)
(* Small instances of AccountsStore for TLC.  Accounts_refresh.cfg has no   *)
(* merchant to connect, for a run of Accounts alone.                        *)
(***************************************************************************)
EXTENDS AccountsStore, TLC

CONSTANTS h1, h2, h3, h4, ann, ben, m1, m2, s1, s2, l1, l2

Symmetric == Permutations(Requests) \cup Permutations(Merchants) \cup Permutations(Locations)
=============================================================================
