------------------------------ MODULE Visitors ------------------------------
(***************************************************************************)
(* internal/domain/analytics: behavioural events of anonymous visitors and  *)
(* customers, and the link from a visitor to the customer they turn out to  *)
(* be.  Every handler is a series of single statements, each its own        *)
(* transaction.                                                             *)
(*                                                                         *)
(*   link    anonymous_visitors: absent, not linked, or linked_to a customer*)
(*   events  analytic_events, each named by the request that inserted it;   *)
(*           by says whether a client sent it or the server fired it.  The  *)
(*           endpoint takes visitor.identified from clients, too            *)
(***************************************************************************)
EXTENDS Naturals

CONSTANTS Requests, Customers,
          Visitors,     \* ids a client sends as visitor_id
          UUIDs,        \* those of them that are UUIDs
          Absent, Nobody,
          Faults        \* a subset of {"db", "crash"}

ASSUME VisitorsAssumption ==
  /\ UUIDs \subseteq Visitors /\ Nobody \notin Visitors
  /\ Absent # Nobody /\ Absent \notin Customers /\ Nobody \notin Customers
  /\ Faults \subseteq {"db", "crash"}

VARIABLES link, events,
          pc,
          vis,     \* the visitor a request names, or Nobody
          cust,    \* the customer it is authenticated as, or Nobody
          reply

vars == <<link, events, pc, vis, cust, reply>>

Types == {"identified", "other"}   \* of knownEventTypes, visitor.identified and the rest
Event == [id : Requests, type : Types, by : {"client", "server"},
          vis : Visitors \cup {Nobody}, cust : Customers \cup {Nobody}]

TypeOK ==
  /\ link \in [Visitors -> Customers \cup {Nobody, Absent}]
  /\ events \subseteq Event
  /\ pc \in [Requests -> {"new", "seen", "insert", "check", "known", "link", "identified",
                          "done", "lost"}]
  /\ vis \in [Requests -> Visitors \cup {Nobody}]
  /\ cust \in [Requests -> Customers \cup {Nobody}]
  /\ reply \in [Requests -> {"none", "tracked", "untracked", "linked", "bad", "error"}]

Init ==
  /\ link = [v \in Visitors |-> Absent]
  /\ events = {}
  /\ pc = [h \in Requests |-> "new"]
  /\ vis \in [Requests -> Visitors \cup {Nobody}]
  /\ cust \in [Requests -> Customers \cup {Nobody}]
  /\ reply = [h \in Requests |-> "none"]

DbFails == "db" \in Faults
Goto(h, l)   == pc' = [pc EXCEPT ![h] = l] /\ UNCHANGED reply
Finish(h, r) == pc' = [pc EXCEPT ![h] = "done"] /\ reply' = [reply EXCEPT ![h] = r]

\* upsertVisitor, after which the request stands at l; an error ends it.
Upsert(h, l) ==
  LET known == [link EXCEPT ![vis[h]] = IF link[vis[h]] = Absent THEN Nobody ELSE @] IN
  /\ \/ link' = known /\ Goto(h, l)
     \/ DbFails /\ link' \in {link, known} /\ Finish(h, "error")
  /\ UNCHANGED <<events, vis, cust>>

Insert(h, type, by) ==
  events' = events \cup {[id |-> h, type |-> type, by |-> by, vis |-> vis[h], cust |-> cust[h]]}
-----------------------------------------------------------------------------
(* POST /v1/analytics/events *)

\* A client that asks not to be tracked is not; an event of no known type, of
\* nobody, or of a visitor id that is not a UUID, is refused.
Ingest(h, dnt) ==
  /\ pc[h] = "new"
  /\ \/ dnt /\ Finish(h, "untracked")
     \/ ~dnt /\ Finish(h, "bad")
     \/ ~dnt /\ vis[h] \in UUIDs /\ Goto(h, "seen")
     \/ ~dnt /\ vis[h] = Nobody /\ cust[h] # Nobody /\ Goto(h, "insert")
  /\ UNCHANGED <<link, events, vis, cust>>

\* Mutant: a failed upsert does not stop the insert, and there is no foreign key.
IngestUpsertIgnored(h) ==
  /\ pc[h] = "seen"
  /\ Goto(h, "insert")
  /\ UNCHANGED <<link, events, vis, cust>>

\* The visitor's row must be there before the event that refers to it.
IngestUpsert(h) == pc[h] = "seen" /\ Upsert(h, "insert")

\* The event, of whichever known type the client gave it.
IngestInsert(h, type) ==
  /\ pc[h] = "insert"
  /\ \/ Insert(h, type, "client") /\ Finish(h, "tracked")
     \/ DbFails /\ (Insert(h, type, "client") \/ UNCHANGED events) /\ Finish(h, "error")
  /\ UNCHANGED <<link, vis, cust>>
-----------------------------------------------------------------------------
(* POST /v1/analytics/identify *)

\* The route requires a customer; the visitor id is any string but the empty one.
Identify(h) ==
  /\ pc[h] = "new" /\ cust[h] # Nobody
  /\ IF vis[h] = Nobody THEN Finish(h, "bad") ELSE Goto(h, "check")
  /\ UNCHANGED <<link, events, vis, cust>>

\* Mutant: a visitor that has a row is taken for a linked one.
CheckLinkByRow(h) ==
  /\ pc[h] = "check"
  /\ IF link[vis[h]] # Absent THEN Finish(h, "linked") ELSE Goto(h, "known")
  /\ UNCHANGED <<link, events, vis, cust>>

\* A visitor that is linked already, to whomever, is a success.
CheckLink(h) ==
  /\ pc[h] = "check"
  /\ \/ link[vis[h]] \in Customers /\ Finish(h, "linked")
     \/ link[vis[h]] \notin Customers /\ Goto(h, "known")
     \/ DbFails /\ Finish(h, "error")
  /\ UNCHANGED <<link, events, vis, cust>>

IdentifyUpsert(h) == pc[h] = "known" /\ Upsert(h, "link")

\* Mutant: the UPDATE does not ask that linked_to is null.
LinkVisitorAlways(h) ==
  /\ pc[h] = "link"
  /\ link' = [link EXCEPT ![vis[h]] = cust[h]]
  /\ Goto(h, "identified")
  /\ UNCHANGED <<events, vis, cust>>

\* Mutant: the arguments of the UPDATE are swapped.
LinkVisitorToItself(h) ==
  /\ pc[h] = "link"
  /\ link' = [link EXCEPT ![vis[h]] = IF @ = Nobody THEN vis[h] ELSE @]
  /\ Goto(h, "identified")
  /\ UNCHANGED <<events, vis, cust>>

\* Mutant: the error of the UPDATE is dropped, as that of the event after it is.
LinkVisitorRegardless(h) ==
  /\ pc[h] = "link"
  /\ link' \in {link, [link EXCEPT ![vis[h]] = IF @ = Nobody THEN cust[h] ELSE @]}
  /\ Goto(h, "identified")
  /\ UNCHANGED <<events, vis, cust>>

\* UPDATE ... WHERE linked_to IS NULL.  How many rows it changed is not looked at.
LinkVisitor(h) ==
  LET linked == [link EXCEPT ![vis[h]] = IF @ = Nobody THEN cust[h] ELSE @] IN
  /\ pc[h] = "link"
  /\ \/ link' = linked /\ Goto(h, "identified")
     \/ DbFails /\ link' \in {link, linked} /\ Finish(h, "error")
  /\ UNCHANGED <<events, vis, cust>>

\* The visitor.identified event, whose error is dropped.
Identified(h) ==
  /\ pc[h] = "identified"
  /\ Insert(h, "identified", "server") \/ (DbFails /\ UNCHANGED events)
  /\ Finish(h, "linked")
  /\ UNCHANGED <<link, vis, cust>>
-----------------------------------------------------------------------------
Crash ==
  /\ "crash" \in Faults
  /\ \E h \in Requests : pc[h] \notin {"new", "done", "lost"}
  /\ pc' = [h \in Requests |-> IF pc[h] \in {"new", "done"} THEN pc[h] ELSE "lost"]
  /\ UNCHANGED <<link, events, vis, cust, reply>>

Next ==
  \/ \E h \in Requests :
       \/ (\E dnt \in BOOLEAN : Ingest(h, dnt)) \/ IngestUpsert(h)
       \/ (\E type \in Types : IngestInsert(h, type))
       \/ Identify(h) \/ CheckLink(h) \/ IdentifyUpsert(h) \/ LinkVisitor(h) \/ Identified(h)
  \/ Crash

Spec == Init /\ [][Next]_vars
-----------------------------------------------------------------------------
\* "The linking is one-way and permanent" (ARCHITECTURE.md): of two customers who
\* identify as one visitor, at the same time or later, the first keeps it.
LinkPermanent ==
  [][\A v \in Visitors : link[v] \in Customers => link'[v] = link[v]]_vars

\* Every event of a visitor finds the visitor's row, which the analytics log
\* refers to and nothing removes.
EventVisitorKnown == \A e \in events : e.vis # Nobody => link[e.vis] # Absent

\* An identify that was answered with success leaves the visitor linked, to its
\* own customer or to the one who came first, although the rows that the UPDATE
\* changed are not counted.
AckedLinked == \A h \in Requests : reply[h] = "linked" => link[vis[h]] \in Customers

\* Why: the row of the visitor that a request works on is there from its upsert
\* on, and linked from its UPDATE on, whoever came first.
VisitorInv ==
  \A h \in Requests :
    /\ pc[h] \in {"seen", "check", "known", "link", "identified"} => vis[h] \in Visitors
    /\ pc[h] \in {"check", "known", "link", "identified"} => cust[h] \in Customers
    /\ pc[h] = "insert" => vis[h] = Nobody \/ link[vis[h]] # Absent
    /\ pc[h] = "link" => link[vis[h]] # Absent
    /\ pc[h] = "identified" => link[vis[h]] \in Customers
    /\ reply[h] = "linked" => vis[h] \in Visitors

\* The handlers implement the abstract log, whatever fails between their statements.
Log == INSTANCE VisitorLog WITH Ids <- Requests
VisitorLogSpec == Log!Spec

\* Why: only a request that has ended has an event, so none has two; and one that
\* is about to insert is somebody's.
LogInv ==
  /\ \A e \in events : pc[e.id] = "done"
  /\ \A h \in Requests : pc[h] = "insert" => vis[h] # Nobody \/ cust[h] # Nobody

\* "Fires a visitor.identified analytic event on first successful link"
\* (service.go:71): the customer in an event that the server fires is the one
\* the visitor is linked to.
IdentifiedTruthful ==
  \A e \in events : e.by = "server" => link[e.vis] = e.cust
=============================================================================
