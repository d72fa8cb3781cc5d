--------------------------- MODULE VisitorsProofs ---------------------------
(* Proofs about Visitors, for any visitors, customers, requests and faults. *)
EXTENDS VisitorsReports, FiniteSets, TLAPS

\* Type correctness: a visitor is absent, unlinked or linked to a customer, and
\* every event names a request, a visitor or nobody, and a customer or nobody.
THEOREM VisitorTypes == Spec => []TypeOK
<1> USE VisitorsAssumption DEF TypeOK, Event, Types, Goto, Finish
<1>1. Init => TypeOK
  BY DEF Init
<1>2. TypeOK /\ [Next]_vars => TypeOK'
  <2> SUFFICES ASSUME TypeOK, [Next]_vars PROVE TypeOK'
    OBVIOUS
  <2>1. ASSUME NEW h \in Requests, NEW dnt \in BOOLEAN, Ingest(h, dnt) PROVE TypeOK'
    BY <2>1 DEF Ingest
  <2>2. ASSUME NEW h \in Requests, IngestUpsert(h) PROVE TypeOK'
    BY <2>2 DEF IngestUpsert, Upsert
  <2>3. ASSUME NEW h \in Requests, NEW type \in Types, IngestInsert(h, type) PROVE TypeOK'
    BY <2>3 DEF IngestInsert, Insert
  <2>4. ASSUME NEW h \in Requests, Identify(h) PROVE TypeOK'
    BY <2>4 DEF Identify
  <2>5. ASSUME NEW h \in Requests, CheckLink(h) PROVE TypeOK'
    BY <2>5 DEF CheckLink
  <2>6. ASSUME NEW h \in Requests, IdentifyUpsert(h) PROVE TypeOK'
    BY <2>6 DEF IdentifyUpsert, Upsert
  <2>7. ASSUME NEW h \in Requests, LinkVisitor(h) PROVE TypeOK'
    BY <2>7 DEF LinkVisitor
  <2>8. ASSUME NEW h \in Requests, Identified(h) PROVE TypeOK'
    BY <2>8 DEF Identified, Insert
  <2>9. CASE Crash
    BY <2>9 DEF Crash
  <2>10. CASE UNCHANGED vars
    BY <2>10 DEF vars
  <2>11. QED
    BY <2>1, <2>2, <2>3, <2>4, <2>5, <2>6, <2>7, <2>8, <2>9, <2>10 DEF Next
<1>3. QED
  BY <1>1, <1>2, PTL DEF Spec

\* A step leaves the row of v where it is, and its customer if it has one.
Kept(v) == /\ link[v] # Absent => link'[v] # Absent
           /\ link[v] \in Customers => link'[v] = link[v]

\* What a step can do to a link: a row stays, and so does the customer in it;
\* and a request keeps its visitor and its customer.
LEMMA LinkGrows ==
  ASSUME TypeOK, [Next]_vars
  PROVE  (\A v \in Visitors : Kept(v)) /\ vis' = vis /\ cust' = cust
<1> USE VisitorsAssumption DEF TypeOK, Kept
<1> DEFINE Goal == (\A v \in Visitors : Kept(v)) /\ vis' = vis /\ cust' = cust
<1>1. ASSUME NEW h \in Requests, IngestUpsert(h) \/ IdentifyUpsert(h) PROVE Goal
  BY <1>1 DEF IngestUpsert, IdentifyUpsert, Upsert
<1>2. ASSUME NEW h \in Requests, LinkVisitor(h) PROVE Goal
  BY <1>2 DEF LinkVisitor
<1>3. ASSUME NEW h \in Requests, NEW dnt \in BOOLEAN, Ingest(h, dnt) PROVE Goal
  BY <1>3 DEF Ingest
<1>4. ASSUME NEW h \in Requests,
             \/ \E type \in Types : IngestInsert(h, type)
             \/ Identify(h) \/ CheckLink(h) \/ Identified(h)
      PROVE  Goal
  BY <1>4 DEF IngestInsert, Identify, CheckLink, Identified
<1>5. ASSUME Crash \/ UNCHANGED vars PROVE Goal
  BY <1>5 DEF Crash, vars
<1>6. QED
  BY <1>1, <1>2, <1>3, <1>4, <1>5 DEF Next

\* "The linking is one-way and permanent": no step changes the customer that a
\* visitor is linked to.
THEOREM Permanent == Spec => LinkPermanent
<1>1. TypeOK /\ [Next]_vars => [\A v \in Visitors : link[v] \in Customers => link'[v] = link[v]]_vars
  BY LinkGrows DEF Kept
<1>2. QED
  BY <1>1, VisitorTypes, PTL DEF Spec, LinkPermanent

\* VisitorInv is inductive: what a request has established about its visitor's
\* row survives the steps of every other request.
THEOREM VisitorSafe == Spec => []VisitorInv
<1> USE VisitorsAssumption DEF VisitorInv, Goto, Finish
<1>1. Init => VisitorInv
  BY DEF Init
<1>2. TypeOK /\ VisitorInv /\ [Next]_vars => VisitorInv'
  <2> SUFFICES ASSUME TypeOK, VisitorInv, [Next]_vars PROVE VisitorInv'
    OBVIOUS
  <2>0. (\A v \in Visitors : Kept(v)) /\ vis' = vis /\ cust' = cust
    BY LinkGrows
  <2> USE <2>0 DEF Kept, TypeOK
  <2>1. ASSUME NEW h \in Requests, NEW dnt \in BOOLEAN, Ingest(h, dnt) PROVE VisitorInv'
    BY <2>1 DEF Ingest
  <2>2. ASSUME NEW h \in Requests, IngestUpsert(h) PROVE VisitorInv'
    BY <2>2 DEF IngestUpsert, Upsert
  <2>3. ASSUME NEW h \in Requests, NEW type \in Types, IngestInsert(h, type) PROVE VisitorInv'
    BY <2>3 DEF IngestInsert
  <2>4. ASSUME NEW h \in Requests, Identify(h) PROVE VisitorInv'
    BY <2>4 DEF Identify
  <2>5. ASSUME NEW h \in Requests, CheckLink(h) PROVE VisitorInv'
    BY <2>5 DEF CheckLink
  <2>6. ASSUME NEW h \in Requests, IdentifyUpsert(h) PROVE VisitorInv'
    BY <2>6 DEF IdentifyUpsert, Upsert
  <2>7. ASSUME NEW h \in Requests, LinkVisitor(h) PROVE VisitorInv'
    BY <2>7 DEF LinkVisitor
  <2>8. ASSUME NEW h \in Requests, Identified(h) PROVE VisitorInv'
    BY <2>8 DEF Identified
  <2>9. CASE Crash
    BY <2>9 DEF Crash
  <2>10. CASE UNCHANGED vars
    BY <2>10 DEF vars
  <2>11. QED
    BY <2>1, <2>2, <2>3, <2>4, <2>5, <2>6, <2>7, <2>8, <2>9, <2>10 DEF Next
<1>3. QED
  BY <1>1, <1>2, VisitorTypes, PTL DEF Spec

\* An event of a visitor always finds the visitor's row, although the two are
\* written by two statements and either may fail.
THEOREM EventsKnown == Spec => []EventVisitorKnown
<1> USE VisitorsAssumption DEF EventVisitorKnown, Goto, Finish
<1>1. Init => EventVisitorKnown
  BY DEF Init
<1>2. TypeOK /\ VisitorInv /\ EventVisitorKnown /\ [Next]_vars => EventVisitorKnown'
  <2> SUFFICES ASSUME TypeOK, VisitorInv, EventVisitorKnown, [Next]_vars PROVE EventVisitorKnown'
    OBVIOUS
  <2>0. (\A v \in Visitors : Kept(v)) /\ vis' = vis /\ cust' = cust
    BY LinkGrows
  <2> USE <2>0 DEF Kept, TypeOK, Event
  <2>1. ASSUME NEW h \in Requests, NEW type \in Types, IngestInsert(h, type) PROVE EventVisitorKnown'
    BY <2>1 DEF IngestInsert, Insert, VisitorInv
  <2>2. ASSUME NEW h \in Requests, Identified(h) PROVE EventVisitorKnown'
    BY <2>2 DEF Identified, Insert, VisitorInv
  <2>3. CASE events' = events
    BY <2>3
  <2>4. QED
    BY <2>1, <2>2, <2>3 DEF Next, vars, Ingest, IngestUpsert, Identify, CheckLink,
       IdentifyUpsert, LinkVisitor, Upsert, Crash
<1>3. QED
  BY <1>1, <1>2, VisitorTypes, VisitorSafe, PTL DEF Spec

\* A successful identify leaves the visitor linked, to its own customer or to
\* the one who came first.
THEOREM IdentifyLinks == Spec => []AckedLinked
<1> USE VisitorsAssumption DEF AckedLinked, Goto, Finish
<1>1. Init => AckedLinked
  BY DEF Init
<1>2. TypeOK /\ VisitorInv /\ AckedLinked /\ [Next]_vars => AckedLinked'
  <2> SUFFICES ASSUME TypeOK, VisitorInv, AckedLinked, [Next]_vars, NEW g \in Requests,
                      reply'[g] = "linked"
               PROVE  link'[vis'[g]] \in Customers
    BY DEF AckedLinked
  <2>0. (\A v \in Visitors : Kept(v)) /\ vis' = vis /\ cust' = cust
    BY LinkGrows
  <2>1. CASE reply[g] = "linked"
    BY <2>0, <2>1 DEF Kept, VisitorInv
  <2>2. CASE reply[g] # "linked"
    <3>1. CheckLink(g) \/ Identified(g)
      BY <2>2 DEF TypeOK, Next, vars, Ingest, IngestUpsert, IngestInsert, Identify, CheckLink,
         IdentifyUpsert, LinkVisitor, Identified, Upsert, Crash
    <3>2. QED
      BY <2>0, <2>2, <3>1 DEF TypeOK, VisitorInv, CheckLink, Identified, Kept
  <2>3. QED
    BY <2>1, <2>2
<1>3. QED
  BY <1>1, <1>2, VisitorTypes, VisitorSafe, PTL DEF Spec
-----------------------------------------------------------------------------
(* The handlers implement VisitorLog: a statement that changes a table is one  *)
(* of its steps, and every other step, failure or crash leaves it alone.       *)

\* No request has two events, and none is about to insert one of nobody.
THEOREM LogSafe == Spec => []LogInv
<1> USE DEF LogInv, Goto, Finish
<1>1. Init => LogInv
  BY DEF Init
<1>2. TypeOK /\ VisitorInv /\ LogInv /\ [Next]_vars => LogInv'
  <2> SUFFICES ASSUME TypeOK, VisitorInv, LogInv, [Next]_vars PROVE LogInv'
    OBVIOUS
  <2> USE DEF TypeOK, Event
  <2>1. ASSUME NEW h \in Requests, NEW dnt \in BOOLEAN, Ingest(h, dnt) PROVE LogInv'
    <3>1. \A e \in events : e.id \in Requests /\ pc[e.id] = "done" /\ e.id # h
      BY <2>1 DEF Ingest
    <3>2. /\ \A g \in Requests : g # h => pc'[g] = pc[g]
          /\ pc'[h] = "insert" => cust[h] # Nobody
      BY <2>1 DEF Ingest
    <3>3. QED
      BY <2>1, <3>1, <3>2 DEF Ingest
  <2>2. ASSUME NEW h \in Requests, IngestUpsert(h) PROVE LogInv'
    <3>1. vis[h] # Nobody
      BY <2>2, VisitorsAssumption DEF IngestUpsert, VisitorInv
    <3>2. QED
      BY <2>2, <3>1 DEF IngestUpsert, Upsert
  <2>3. ASSUME NEW h \in Requests, NEW type \in Types, IngestInsert(h, type) PROVE LogInv'
    BY <2>3 DEF IngestInsert, Insert
  <2>4. ASSUME NEW h \in Requests, Identify(h) \/ CheckLink(h) PROVE LogInv'
    BY <2>4 DEF Identify, CheckLink
  <2>5. ASSUME NEW h \in Requests, IdentifyUpsert(h) PROVE LogInv'
    BY <2>5 DEF IdentifyUpsert, Upsert
  <2>6. ASSUME NEW h \in Requests, LinkVisitor(h) PROVE LogInv'
    BY <2>6 DEF LinkVisitor
  <2>7. ASSUME NEW h \in Requests, Identified(h) PROVE LogInv'
    BY <2>7 DEF Identified, Insert
  <2>8. CASE Crash
    BY <2>8 DEF Crash
  <2>9. CASE UNCHANGED vars
    BY <2>9 DEF vars
  <2>10. QED
    BY <2>1, <2>2, <2>3, <2>4, <2>5, <2>6, <2>7, <2>8, <2>9 DEF Next
<1>3. QED
  BY <1>1, <1>2, VisitorTypes, VisitorSafe, PTL DEF Spec

\* An upsert meets its visitor or changes nothing.
LEMMA UpsertMeets ==
  ASSUME TypeOK, NEW h \in Requests, NEW l, vis[h] \in Visitors, Upsert(h, l)
  PROVE  [Log!Next]_Log!log
<1>1. CASE link[vis[h]] # Absent
  <2>1. [link EXCEPT ![vis[h]] = IF link[vis[h]] = Absent THEN Nobody ELSE @] = link
    BY <1>1 DEF TypeOK
  <2>2. QED
    BY <2>1 DEF Upsert, Log!log
<1>2. CASE link[vis[h]] = Absent
  <2>1. Log!Meet(vis[h]) \/ UNCHANGED Log!log
    BY <1>2 DEF Upsert, Log!Meet, Log!log
  <2>2. QED
    BY <2>1 DEF Log!Next
<1>3. QED
  BY <1>1, <1>2

\* An insert records the event of its request, if that has none and may have one.
LEMMA InsertRecords ==
  ASSUME TypeOK, LogInv, NEW h \in Requests, NEW type \in Types, NEW by \in {"client", "server"},
         pc[h] # "done", vis[h] # Nobody \/ cust[h] # Nobody,
         vis[h] = Nobody \/ link[vis[h]] # Absent,
         by = "server" =>
           type = "identified" /\ vis[h] \in Visitors /\ link[vis[h]] \in Customers,
         Insert(h, type, by), UNCHANGED link
  PROVE  Log!Next
<1>1. vis[h] \in Visitors \cup {Nobody} /\ cust[h] \in Customers \cup {Nobody}
  BY DEF TypeOK
<1>2. Log!Record(h, type, by, vis[h], cust[h])
  BY <1>1 DEF Log!Record, Log!Met, Log!Linked, Insert, LogInv
<1>3. QED
  BY <1>1, <1>2 DEF Log!Next, Types

\* Whatever fails or is lost between their statements, the handlers of analytics
\* do only what the abstract log allows.
THEOREM ImplementsLog == Spec => VisitorLogSpec
<1>1. Init => Log!Init
  BY DEF Init, Log!Init
<1>2. TypeOK /\ VisitorInv /\ LogInv /\ [Next]_vars => [Log!Next]_Log!log
  <2> SUFFICES ASSUME TypeOK, VisitorInv, LogInv, [Next]_vars PROVE [Log!Next]_Log!log
    OBVIOUS
  <2>1. ASSUME NEW h \in Requests, IngestUpsert(h) PROVE [Log!Next]_Log!log
    BY <2>1, UpsertMeets DEF IngestUpsert, VisitorInv
  <2>2. ASSUME NEW h \in Requests, IdentifyUpsert(h) PROVE [Log!Next]_Log!log
    BY <2>2, UpsertMeets DEF IdentifyUpsert, VisitorInv
  <2>3. ASSUME NEW h \in Requests, NEW type \in Types, IngestInsert(h, type) PROVE [Log!Next]_Log!log
    <3>1. CASE Insert(h, type, "client")
      BY <2>3, <3>1, InsertRecords DEF IngestInsert, VisitorInv, LogInv
    <3>2. CASE UNCHANGED events
      BY <2>3, <3>2 DEF IngestInsert, Log!log
    <3>3. QED
      BY <2>3, <3>1, <3>2 DEF IngestInsert
  <2>4. ASSUME NEW h \in Requests, LinkVisitor(h) PROVE [Log!Next]_Log!log
    <3>1. vis[h] \in Visitors /\ cust[h] \in Customers /\ UNCHANGED events
      BY <2>4 DEF LinkVisitor, VisitorInv
    <3>2. CASE link[vis[h]] = Nobody
      <4>1. Log!Link(vis[h], cust[h]) \/ UNCHANGED Log!log
        BY <2>4, <3>1, <3>2 DEF LinkVisitor, Log!Link, Log!log, TypeOK
      <4>2. QED
        BY <3>1, <4>1 DEF Log!Next
    <3>3. CASE link[vis[h]] # Nobody
      <4>1. [link EXCEPT ![vis[h]] = IF @ = Nobody THEN cust[h] ELSE @] = link
        BY <3>1, <3>3 DEF TypeOK
      <4>2. QED
        BY <2>4, <3>1, <4>1 DEF LinkVisitor, Log!log
    <3>4. QED
      BY <3>2, <3>3
  <2>5. ASSUME NEW h \in Requests, Identified(h) PROVE [Log!Next]_Log!log
    <3>1. vis[h] \in Visitors /\ cust[h] \in Customers /\ link[vis[h]] \in Customers
      BY <2>5 DEF Identified, VisitorInv
    <3>2. vis[h] # Nobody /\ link[vis[h]] # Absent
      BY <3>1, VisitorsAssumption
    <3>3. CASE Insert(h, "identified", "server")
      BY <2>5, <3>1, <3>2, <3>3, InsertRecords DEF Identified, Types
    <3>4. CASE UNCHANGED events
      BY <2>5, <3>4 DEF Identified, Log!log
    <3>5. QED
      BY <2>5, <3>3, <3>4 DEF Identified
  <2>6. CASE UNCHANGED <<link, events>>
    BY <2>6 DEF Log!log
  <2>7. QED
    BY <2>1, <2>2, <2>3, <2>4, <2>5, <2>6 DEF Next, vars, Ingest, Identify, CheckLink, Crash
<1>3. QED
  BY <1>1, <1>2, VisitorTypes, VisitorSafe, LogSafe, PTL
  DEF Spec, VisitorLogSpec, Log!Spec
-----------------------------------------------------------------------------
(* The reports, as VisitorsReports holds them: what DashboardProofs proves of  *)
(* their own specification holds in the sum.  D and Q are instances of the     *)
(* same definitions, which become the same formulas when they are expanded.    *)
Q == INSTANCE DashboardProofs WITH Customers <- Members, pc <- dpc, cust <- whose

\* In the sum the reports do what their own specification allows.
LEMMA ReportsImplement == SumSpec => Q!Spec
<1>1. SumInit => Q!Init
  BY DEF SumInit, D!Init, Q!Init
<1>2. [SumNext]_<<vars, reports>> => [Q!Next]_Q!vars
  <2>1. D!Next => Q!Next
    BY Zenon DEF D!Next, Q!Next, D!Join, Q!Join, D!Leave, Q!Leave, D!Write, Q!Write,
                 D!Summary, Q!Summary, D!Chart, Q!Chart, D!Feed, Q!Feed, D!Open, Q!Open,
                 D!NextPage, Q!NextPage, D!ReadFails, Q!ReadFails, D!Answer, Q!Answer,
                 D!Clamp, Q!Clamp, D!Page, Q!Page, D!Joined, Q!Joined, D!Listed, Q!Listed,
                 D!Steeps, Q!Steeps, D!Ids, Q!Ids, D!Goto, Q!Goto, D!Take, Q!Take,
                 D!tables, Q!tables, D!reading, Q!reading, D!Cardinality, Q!Cardinality
  <2>2. UNCHANGED reports => UNCHANGED Q!vars
    BY DEF reports, Q!vars
  <2>3. QED
    BY <2>1, <2>2 DEF SumNext, reports
<1>3. QED
  BY <1>1, <1>2, PTL DEF SumSpec, Q!Spec

LEMMA ReportsAssumed == Q!DashboardAssumption
BY ReportsAssumption
DEF D!DashboardAssumption, Q!DashboardAssumption, D!IsFiniteSet, Q!IsFiniteSet

\* The tables, the reads and what they have shown keep their types.
THEOREM ReportsTyped == SumSpec => []ReportsTypeOK
<1>1. Q!TypeOK => ReportsTypeOK
  BY DEF ReportsTypeOK, D!TypeOK, Q!TypeOK, D!Kinds, Q!Kinds, D!Row, Q!Row
<1>2. QED
  BY <1>1, ReportsImplement, ReportsAssumed, Q!ReportTypes, PTL

\* In the sum the visitors do what their own specification allows.
LEMMA VisitorsImplement == SumSpec => Spec
<1>1. SumInit => Init
  BY DEF SumInit
<1>2. [SumNext]_<<vars, reports>> => [Next]_vars
  BY DEF SumNext
<1>3. QED
  BY <1>1, <1>2, PTL DEF SumSpec, Spec

\* The variables of both parts keep their types.
THEOREM SumTyped == SumSpec => []SumTypeOK
<1>1. TypeOK /\ ReportsTypeOK => SumTypeOK
  BY DEF SumTypeOK
<1>2. QED
  BY <1>1, VisitorsImplement, VisitorTypes, ReportsTyped, PTL

\* The chart of a loyalty summary holds every steep of its total that lies in
\* its window.
THEOREM SummaryWhole == SumSpec => []SummaryKeepsUp
<1>1. Q!SummaryKeepsUp => SummaryKeepsUp
  BY DEF SummaryKeepsUp, D!SummaryKeepsUp, Q!SummaryKeepsUp, D!Answered, Q!Answered
<1>2. QED
  BY <1>1, ReportsImplement, ReportsAssumed, Q!SummaryComplete, PTL

\* The live feed loses no event to its join.
THEOREM FeedWhole == SumSpec => []FeedFull
<1>1. Q!FeedFull => FeedFull
  BY DEF FeedFull, D!FeedFull, Q!FeedFull, D!Answered, Q!Answered, D!Clamp, Q!Clamp, D!Cardinality,
          Q!Cardinality
<1>2. QED
  BY <1>1, ReportsImplement, ReportsAssumed, Q!FeedSafe, PTL

\* A client that pages through a list sees what was there at the start.
THEOREM WalkWhole == SumSpec => []WalkComplete
<1>1. Q!WalkComplete => WalkComplete
  BY DEF WalkComplete, D!WalkComplete, Q!WalkComplete
<1>2. QED
  BY <1>1, ReportsImplement, ReportsAssumed, Q!WalkSafe, PTL
=============================================================================
