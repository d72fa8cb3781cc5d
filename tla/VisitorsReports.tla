-------------------------- MODULE VisitorsReports --------------------------
(***************************************************************************)
(* The sum of Visitors and of Dashboard (instance D), two components of one *)
(* process that share no variable.  Dashboard takes the writes to its       *)
(* tables as free, so one of the two moves in a behaviour of SumSpec while  *)
(* the other stays in its initial state.                                    *)
(***************************************************************************)
EXTENDS Visitors

CONSTANTS Reads, Members, RowIds, DefaultLimit, MaxLimit, Asked

VARIABLES rows, customers, dpc, kind, whose, asked, offset, first, seen, since, moved

D == INSTANCE Dashboard WITH Customers <- Members, pc <- dpc, cust <- whose

ASSUME ReportsAssumption == D!DashboardAssumption

reports == <<rows, customers, dpc, kind, whose, asked, offset, first, seen, since, moved>>

SumInit == Init /\ D!Init

\* The initial state of Visitors in which every request is nobody's.
Quiet == Init /\ \A h \in Requests : vis[h] = Nobody /\ cust[h] = Nobody

SumNext ==
  \/ D!Init /\ Next /\ UNCHANGED reports
  \/ Quiet /\ D!Next /\ UNCHANGED vars

SumSpec == SumInit /\ [][SumNext]_<<vars, reports>>
-----------------------------------------------------------------------------
\* The variables of both parts have their types.
ReportsTypeOK == D!TypeOK
SumTypeOK == TypeOK /\ ReportsTypeOK

\* The properties of the reports, stated and explained in Dashboard: the chart of
\* a loyalty summary holds every steep of its total that lies in its window,
SummaryKeepsUp == D!SummaryKeepsUp

\* the live feed loses no event to its join,
FeedFull == D!FeedFull

\* and a client that pages through a list sees what was there at the start.
WalkComplete == D!WalkComplete
=============================================================================
