----------------------------- MODULE Dashboard -----------------------------
(***************************************************************************)
(* internal/domain/dashboard, behind RequireStaffAuth (StaffAuth.tla), and  *)
(* the history route of internal/domain/loyalty: reports and lists read     *)
(* from tables that other requests write meanwhile.  Each statement sees    *)
(* one snapshot; a report of two statements and a list read page by page    *)
(* see several.                                                             *)
(*                                                                         *)
(* Ids stand for created_at, by which every list is ordered: a row carries  *)
(* the time its transaction began, so it may appear behind a later one.     *)
(* How rewards follow from steeps is in Loyalty.tla: no report here rests   *)
(* on it, and the tables take any steep and any redemption.                 *)
(***************************************************************************)
EXTENDS Integers, FiniteSets

CONSTANTS Reads,            \* requests, each a report or a client that pages through a list
          Customers,        \* customer ids
          RowIds,           \* ids of loyalty_events
          Nobody,
          DefaultLimit, MaxLimit,   \* the page size if none fits, and the largest (20 or 25, and 100)
          Asked             \* page sizes that clients ask for

\* What the constants are.
DashboardAssumption ==
  /\ Customers \subseteq Nat /\ RowIds \subseteq Nat /\ Asked \subseteq Int
  /\ IsFiniteSet(Customers)
  /\ DefaultLimit \in 1..MaxLimit /\ MaxLimit \in Nat
  /\ Nobody \notin Customers

VARIABLES rows,        \* loyalty_events
          customers,   \* customers
          pc,
          kind,        \* which route
          cust,        \* whose history
          asked, offset,
          first,       \* what the first statement of a report saw, or a list held at the start
          seen,        \* what the answers have shown
          since,       \* where the window of a summary's chart began
          moved        \* history: a customer was deleted while a list was read

vars == <<rows, customers, pc, kind, cust, asked, offset, first, seen, since, moved>>

Row == [id : RowIds, cust : Customers, type : {"steep_earned", "reward_redeemed"}]

Ids(R) == {r.id : r \in R}
Steeps == Ids({r \in rows : r.type = "steep_earned"})

Kinds == {"summary", "feed", "history", "customers"}

TypeOK ==
  /\ rows \subseteq Row
  /\ customers \subseteq Customers
  /\ pc \in [Reads -> {"new", "second", "page", "audit", "answered", "error"}]
  /\ kind \in [Reads -> Kinds \cup {"none"}]
  /\ cust \in [Reads -> Customers \cup {Nobody}]
  /\ asked \in [Reads -> Asked \cup {0}] /\ offset \in [Reads -> Int]
  /\ first \in [Reads -> SUBSET (RowIds \cup Customers)]
  /\ seen \in [Reads -> SUBSET (RowIds \cup Customers)]
  /\ since \in [Reads -> RowIds \cup {0}]
  /\ moved \in [Reads -> BOOLEAN]

Init ==
  /\ rows = {} /\ customers = {}
  /\ pc = [r \in Reads |-> "new"]
  /\ kind = [r \in Reads |-> "none"]
  /\ cust = [r \in Reads |-> Nobody]
  /\ asked = [r \in Reads |-> 0] /\ offset = [r \in Reads |-> 0]
  /\ first = [r \in Reads |-> {}] /\ seen = [r \in Reads |-> {}]
  /\ since = [r \in Reads |-> 0]
  /\ moved = [r \in Reads |-> FALSE]

reading == <<pc, kind, cust, asked, offset, first, seen, since>>
tables  == <<rows, customers>>
Goto(r, l) == pc' = [pc EXCEPT ![r] = l]
Take(r, k) == pc[r] = "new" /\ kind' = [kind EXCEPT ![r] = k]   \* the route that r takes
-----------------------------------------------------------------------------
(* What the other requests do to the tables *)

\* A registration.
Join(c) ==
  /\ c \notin customers /\ customers' = customers \cup {c}
  /\ UNCHANGED <<rows, moved, reading>>

\* Mutant: the foreign keys do not stop a deletion.
LeaveAnyway(c) ==
  /\ c \in customers /\ customers' = customers \ {c}
  /\ moved' = [r \in Reads |-> TRUE]
  /\ UNCHANGED <<rows, reading>>

\* DELETE FROM customers, which the foreign key of the ledger restricts; that
\* those of the analytics tables may refuse it as well changes no answer.
Leave(c) ==
  /\ c \in customers /\ customers' = customers \ {c}
  /\ \A x \in rows : x.cust # c
  /\ moved' = [r \in Reads |-> TRUE]
  /\ UNCHANGED <<rows, reading>>

\* The INSERT of a steep or of a redemption, for a customer who is there.
Write(i, c) ==
  /\ c \in customers /\ \A x \in rows : x.id # i
  /\ \E t \in {"steep_earned", "reward_redeemed"} :
       rows' = rows \cup {[id |-> i, cust |-> c, type |-> t]}
  /\ UNCHANGED <<customers, moved, reading>>
-----------------------------------------------------------------------------
(* Reports *)

\* getSteepsByDay: the steeps since w, which NOW() and the days that were asked
\* for, a number of the client's, determine.
Chart(w) == {i \in Steeps : i >= w}

\* Mutant: the days are read before the totals.
SummaryBackwards(r) ==
  /\ \/ /\ Take(r, "summary") /\ Goto(r, "second")
        /\ \E w \in RowIds : /\ since' = [since EXCEPT ![r] = w]
                             /\ seen' = [seen EXCEPT ![r] = Chart(w)]
        /\ UNCHANGED first
     \/ /\ pc[r] = "second" /\ Goto(r, "audit")
        /\ first' = [first EXCEPT ![r] = Steeps] /\ UNCHANGED <<seen, since, kind>>
  /\ UNCHANGED <<tables, cust, asked, offset, moved>>

\* GetLoyaltySummary: the totals by getOverview, of all time, then the steeps by
\* day, of the window only.
Summary(r) ==
  /\ \/ /\ Take(r, "summary") /\ Goto(r, "second")
        /\ first' = [first EXCEPT ![r] = Steeps] /\ UNCHANGED <<seen, since>>
     \/ /\ pc[r] = "second" /\ Goto(r, "audit")
        /\ \E w \in RowIds : /\ since' = [since EXCEPT ![r] = w]
                             /\ seen' = [seen EXCEPT ![r] = Chart(w)]
        /\ UNCHANGED <<first, kind>>
  /\ UNCHANGED <<tables, cust, asked, offset, moved>>
-----------------------------------------------------------------------------
(* Lists, newest first *)

\* Mutant: the largest page is refused too.
BelowMax(n) == IF n <= 0 \/ n >= MaxLimit THEN DefaultLimit ELSE n

\* limit <= 0 || limit > 100
Clamp(n) == IF n <= 0 \/ n > MaxLimit THEN DefaultLimit ELSE n

\* LIMIT n OFFSET o of S, by descending id.
Page(S, o, n) == {i \in S : Cardinality({j \in S : j > i}) \in o..(o + n - 1)}

\* getRecentLoyaltyEvents: JOIN customers.
Joined == {x \in rows : x.cust \in customers}

\* GetRecentLoyaltyEvents: the newest rows that join a customer.
Feed(r, n) ==
  /\ Take(r, "feed") /\ asked' = [asked EXCEPT ![r] = n]
  /\ first' = [first EXCEPT ![r] = Ids(rows)]
  /\ seen' = [seen EXCEPT ![r] = Page(Ids(Joined), 0, Clamp(n))]
  /\ Goto(r, "audit")
  /\ UNCHANGED <<tables, cust, offset, since, moved>>

\* What a list holds: all customers, or the history of customer c.
Listed(k, c) == IF k = "customers" THEN customers ELSE Ids({x \in rows : x.cust = c})

\* A client begins to page through the customers or its own history.
Open(r, k, n) ==
  /\ Take(r, k) /\ asked' = [asked EXCEPT ![r] = n]
  /\ \E c \in (IF k = "history" THEN customers ELSE {Nobody}) :
       /\ cust' = [cust EXCEPT ![r] = c]
       /\ first' = [first EXCEPT ![r] = Listed(k, c)]
  /\ moved' = [moved EXCEPT ![r] = FALSE]
  /\ Goto(r, "page")
  /\ UNCHANGED <<tables, offset, seen, since>>

\* GetHistory and GetCustomerList: one page.  The client asks for the next one
\* until a page is shorter than what it asked for.
NextPage(r) ==
  LET page == Page(Listed(kind[r], cust[r]), offset[r], Clamp(asked[r])) IN
  /\ pc[r] = "page"
  /\ seen' = [seen EXCEPT ![r] = @ \cup page]
  /\ offset' = [offset EXCEPT ![r] = @ + asked[r]]
  /\ Goto(r, IF Cardinality(page) < asked[r] \/ asked[r] <= 0 THEN "audit" ELSE "page")
  /\ UNCHANGED <<tables, kind, cust, asked, first, since, moved>>

\* A query of any read fails.
ReadFails(r) ==
  /\ pc[r] \in {"new", "second", "page"} /\ Goto(r, "error")
  /\ UNCHANGED <<tables, kind, cust, asked, offset, first, seen, since, moved>>

\* The audit entry, best effort, and the answer.
Answer(r) ==
  /\ pc[r] = "audit" /\ Goto(r, "answered")
  /\ UNCHANGED <<tables, kind, cust, asked, offset, first, seen, since, moved>>

Next ==
  \/ \E c \in Customers : Join(c) \/ Leave(c) \/ \E i \in RowIds : Write(i, c)
  \/ \E r \in Reads :
       \/ Summary(r)
       \/ \E n \in Asked : Feed(r, n) \/ \E k \in {"history", "customers"} : Open(r, k, n)
       \/ NextPage(r) \/ ReadFails(r) \/ Answer(r)

Spec == Init /\ [][Next]_vars
-----------------------------------------------------------------------------
Answered(r, k) == pc[r] = "answered" /\ kind[r] = k

\* A steep in the total of a loyalty summary is in its chart too if it lies in
\* the chart's window, though one statement reads the total and a later one the
\* days: what the chart lacks of the total is older than the days asked for.
SummaryKeepsUp ==
  \A r \in Reads : Answered(r, "summary") => {i \in first[r] : i >= since[r]} \subseteq seen[r]

\* The live feed is full: no event is lost to the join with its customer.
FeedFull ==
  \A r \in Reads : Answered(r, "feed") =>
    Cardinality(seen[r]) = IF Cardinality(first[r]) < Clamp(asked[r])
                           THEN Cardinality(first[r]) ELSE Clamp(asked[r])

\* A client that pages by the size it asked for, a size the service accepts,
\* sees every entry that was there when it began, although new ones push the
\* others from page to page; a deletion pulls them forward and may hide one.
WalkComplete ==
  \A r \in Reads :
    /\ pc[r] = "answered" /\ kind[r] \in {"history", "customers"}
    /\ asked[r] \in 1..MaxLimit
    /\ kind[r] = "customers" => ~moved[r]
    => first[r] \subseteq seen[r]
=============================================================================
