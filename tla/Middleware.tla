----------------------------- MODULE Middleware -----------------------------
(***************************************************************************)
(* The sum of the three middlewares that keep state in Redis: HmacNonce,    *)
(* RateLimit (instance L) and StaffAuth (instance S), each with a clock of  *)
(* its own.  They share no variable, and each takes the arrival of a        *)
(* request as free, so that another middleware in front of it adds no       *)
(* behaviour.  One of them moves in a behaviour while the others stay in    *)
(* their initial states: their interleavings would show nothing.            *)
(***************************************************************************)
EXTENDS HmacNonce

CONSTANTS Clients, Window, Limit, LimitDelay, LimitHorizon,
          Staff, NoStaff, Logins, Reads, AccessTTL, RefreshTTL, LoginDelay, StaffHorizon

VARIABLES lnow, count, ttl, lim, client, arrived, rank, sends,
          snow, off, tokens, lpc, lstaff, looked, rpc, who, passed

L == INSTANCE RateLimit WITH Requests <- Deliveries, Horizon <- LimitHorizon, now <- lnow
S == INSTANCE StaffAuth WITH Horizon <- StaffHorizon, now <- snow, checked <- passed

ASSUME LimiterAssumption == L!WindowAssumption
ASSUME LimiterDelayAssumption == L!DelayCovered
ASSUME BoundaryAssumption == S!StaffAssumption

limiter == <<lnow, count, ttl, lim, client, arrived, rank, sends>>
staff   == <<snow, off, tokens, lpc, lstaff, looked, rpc, who, passed>>

SumInit == Init /\ L!Init /\ S!Init

\* The limiter's initial state, with one choice of its clients.
Quiet == L!Init /\ \E c \in Clients : client = [d \in Deliveries |-> c]

SumNext ==
  \/ Quiet /\ S!Init /\ Next /\ UNCHANGED <<limiter, staff>>
  \/ Init /\ S!Init /\ L!Next /\ UNCHANGED <<vars, staff>>
  \/ Init /\ Quiet /\ S!Next /\ UNCHANGED <<vars, limiter>>

SumSpec == SumInit /\ [][SumNext]_<<vars, limiter, staff>>
-----------------------------------------------------------------------------
\* The variables of the three middlewares have their types.
LimiterTypeOK == L!TypeOK
StaffTypeOK == S!TypeOK
SumTypeOK == TypeOK /\ LimiterTypeOK /\ StaffTypeOK

\* The properties of the instances, stated and explained in their modules: the
\* limiter lets at most Limit requests of a client and a window pass,
LimitKept == L!LimitKept

\* and at most twice that in any interval as long as a window,
BurstBounded == L!BurstBounded

\* it refuses nobody on account of another window,
NoLockout == L!NoLockout

\* and a deactivated member of staff is kept out within a bounded time.
StaffBounded == S!StaffBounded
=============================================================================
