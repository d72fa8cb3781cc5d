----------------------------- MODULE VisitorLog -----------------------------
(***************************************************************************)
(* What analytics promises, with no requests and no failures: a visitor is  *)
(* met, is linked to one customer and stays so; the event log only grows, by *)
(* at most one event of a request, and an event never precedes what it is   *)
(* about.  Visitors.tla is the code that implements it.                     *)
(***************************************************************************)
CONSTANTS Ids,          \* of analytic_events rows
          Visitors, Customers,
          Absent, Nobody

VARIABLES link, events

log == <<link, events>>

Met    == {v \in Visitors : link[v] # Absent}
Linked == {v \in Visitors : link[v] \in Customers}

Init ==
  /\ link = [v \in Visitors |-> Absent]
  /\ events = {}

Meet(v) ==
  /\ link[v] = Absent
  /\ link' = [link EXCEPT ![v] = Nobody]
  /\ UNCHANGED events

\* linked_to is written once, in a row that is there.
Link(v, c) ==
  /\ link[v] = Nobody
  /\ link' = [link EXCEPT ![v] = c]
  /\ UNCHANGED events

\* An event is somebody's, and its visitor has been met.  The server speaks of
\* the identification of a visitor who is linked; a client may say anything.
Record(i, type, by, v, c) ==
  /\ \A e \in events : e.id # i
  /\ v # Nobody \/ c # Nobody
  /\ v \in Met \cup {Nobody}
  /\ by = "server" => type = "identified" /\ v \in Linked
  /\ events' = events \cup {[id |-> i, type |-> type, by |-> by, vis |-> v, cust |-> c]}
  /\ UNCHANGED link

Next ==
  \/ \E v \in Visitors : Meet(v) \/ (\E c \in Customers : Link(v, c))
  \/ \E i \in Ids, type \in {"identified", "other"}, by \in {"client", "server"},
        v \in Visitors \cup {Nobody}, c \in Customers \cup {Nobody} : Record(i, type, by, v, c)

Spec == Init /\ [][Next]_log
=============================================================================
