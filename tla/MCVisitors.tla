----------------------------- MODULE MCVisitors -----------------------------
(***************************************************************************)
(* Small instances of VisitorsReports for TLC; v1 is a UUID, x1 is not.     *)
(* Visitors_identify.cfg gives Dashboard no requests and no tables to fill, *)
(* for a run of Visitors alone.                                             *)
(***************************************************************************)
EXTENDS VisitorsReports, TLC

CONSTANTS h1, h2, h3, ann, ben, v1, x1, q1

Symmetric == Permutations(Requests) \cup Permutations(Customers)
=============================================================================
