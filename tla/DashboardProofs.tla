-------------------------- MODULE DashboardProofs --------------------------
(***************************************************************************)
(* The reports and the paged lists, for any tables, page sizes and reads,   *)
(* whatever is written while they are read.                                 *)
(***************************************************************************)
EXTENDS Dashboard, FiniteSetTheorems, FunctionTheorems, TLAPS
-----------------------------------------------------------------------------
(* Counting without induction: an injection compares two finite sets.       *)

\* How many of S are above i: its place in a list of S by descending id.
Above(S, i) == {j \in S : j > i}
Rank(S, i)  == Cardinality(Above(S, i))

LEMMA RankType ==
  ASSUME NEW S, IsFiniteSet(S), NEW i
  PROVE  IsFiniteSet(Above(S, i)) /\ Rank(S, i) \in Nat /\ Rank(S, i) <= Cardinality(S)
<1>1. Above(S, i) \in SUBSET S
  BY DEF Above
<1>2. QED
  BY <1>1, FS_Subset, FS_CardinalityType DEF Rank

\* Entries of a list move back when others are added.
LEMMA RankGrows ==
  ASSUME NEW S, NEW T, IsFiniteSet(T), S \subseteq T, NEW i
  PROVE  Rank(S, i) <= Rank(T, i)
<1>1. Above(S, i) \in SUBSET Above(T, i)
  BY DEF Above
<1>2. QED
  BY <1>1, RankType, FS_Subset DEF Rank

\* The places of a finite list are 0, 1, ... up to its length.
LEMMA RankBijective ==
  ASSUME NEW S \in SUBSET Nat, IsFiniteSet(S)
  PROVE  [i \in S |-> Rank(S, i)] \in Bijection(S, 0..(Cardinality(S) - 1))
<1> DEFINE c == Cardinality(S)
           f == [i \in S |-> Rank(S, i)]
<1>1. c \in Nat
  BY FS_CardinalityType
<1>2. ASSUME NEW i \in S PROVE Rank(S, i) \in 0..(c - 1)
  <2>1. Above(S, i) \in SUBSET S /\ Above(S, i) # S
    BY DEF Above
  <2>2. Rank(S, i) # c
    BY <2>1, FS_Subset DEF Rank
  <2>3. QED
    BY <1>1, <2>2, RankType
<1>3. ASSUME NEW i \in S, NEW j \in S, i < j PROVE Rank(S, i) # Rank(S, j)
  <2>1. \A k \in S : k \in Nat
    OBVIOUS
  <2>2. ASSUME NEW k \in Above(S, j) PROVE k \in Above(S, i)
    <3>1. k \in S /\ k > j
      BY DEF Above
    <3>2. k \in Nat /\ j \in Nat /\ i \in Nat
      BY <2>1, <3>1
    <3>3. k > i
      BY <1>3, <3>1, <3>2
    <3>4. QED
      BY <3>1, <3>3 DEF Above
  <2>3. j \in Above(S, i)
    BY <1>3 DEF Above
  <2>4. j \notin Above(S, j)
    BY <2>1 DEF Above
  <2>5. QED
    BY <2>2, <2>3, <2>4, RankType, FS_Subset DEF Rank
<1>4. ASSUME NEW i \in S, NEW j \in S, Rank(S, i) = Rank(S, j) PROVE i = j
  <2>1. i < j \/ j < i \/ i = j
    OBVIOUS
  <2>2. QED
    BY <1>3, <1>4, <2>1
<1> HIDE DEF c
<1>5. f \in [S -> 0..(c - 1)] /\ \A i, j \in S : f[i] = f[j] => i = j
  BY <1>2, <1>4
<1>6. f \in Injection(S, 0..(c - 1))
  <2> HIDE DEF f
  <2>1. QED
    BY <1>5, Fun_IsInj
<1>7. IsFiniteSet(0..(c - 1)) /\ Cardinality(0..(c - 1)) = c
  BY <1>1, FS_Interval
<1> HIDE DEF f
<1>8. f \in Surjection(S, 0..(c - 1))
  BY <1>6, <1>7, FS_Injection DEF c
<1>9. QED
  BY <1>6, <1>8 DEF Bijection, f, c

\* A page holds the places that its offset and size name, as far as the list
\* goes.
LEMMA PageSize ==
  ASSUME NEW S \in SUBSET Nat, IsFiniteSet(S), NEW o \in Nat, NEW n \in Nat
  PROVE  LET c == Cardinality(S) IN
         Cardinality(Page(S, o, n)) = IF c <= o THEN 0 ELSE IF c < o + n THEN c - o ELSE n
<1> DEFINE c == Cardinality(S)
           f == [i \in S |-> Rank(S, i)]
           P == Page(S, o, n)
           top == IF c < o + n THEN c - 1 ELSE o + n - 1
           g == [i \in P |-> Rank(S, i)]
<1>1. c \in Nat
  BY FS_CardinalityType
<1>2. f \in Bijection(S, 0..(c - 1))
  BY RankBijective
<1>3. P = {i \in S : Rank(S, i) \in o..(o + n - 1)}
  BY DEF Page, Rank, Above
<1> HIDE DEF c, f, P
<1>x. /\ f \in [S -> 0..(c - 1)]
      /\ \A i, j \in S : f[i] = f[j] => i = j
      /\ \A k \in 0..(c - 1) : \E i \in S : f[i] = k
  <2> HIDE DEF Rank
  <2> DEFINE N == 0..(c - 1)
  <2>1. f \in Bijection(S, N)
    BY <1>2
  <2> HIDE DEF N
  <2>2. /\ f \in [S -> N]
        /\ \A i, j \in S : f[i] = f[j] => i = j
        /\ \A k \in N : \E i \in S : f[i] = k
    BY <2>1 DEF Bijection, Injection, Surjection, IsInjective
  <2>3. QED
    BY <2>2 DEF N
<1>y. \A i \in S : f[i] = Rank(S, i)
  BY DEF f
<1>4. \A i \in S : Rank(S, i) \in 0..(c - 1)
  BY <1>x, <1>y
<1>5. \A i, j \in S : Rank(S, i) = Rank(S, j) => i = j
  BY <1>x, <1>y
<1>6. \A k \in 0..(c - 1) : \E i \in S : Rank(S, i) = k
  BY <1>x, <1>y
<1>7. g \in [P -> o..top]
  <2>1. \A i \in P : Rank(S, i) \in o..top
    BY <1>1, <1>3, <1>4
  <2>2. QED
    BY <2>1
<1>8. \A k \in o..top : \E i \in P : g[i] = k
  BY <1>1, <1>3, <1>6
<1>9. \A i, j \in P : g[i] = g[j] => i = j
  BY <1>3, <1>5
<1> HIDE DEF g
<1>10. g \in Bijection(P, o..top)
  BY <1>7, <1>8, <1>9, Fun_IsBij
<1> USE <1>1
<1>11. top \in Int
  OBVIOUS
<1> HIDE DEF top
<1>12. IsFiniteSet(o..top) /\ Cardinality(o..top) = IF o > top THEN 0 ELSE top - o + 1
  BY <1>11, FS_Interval
<1>13. P \in SUBSET S
  BY <1>3
<1>14. IsFiniteSet(P)
  BY <1>13, FS_Subset
<1>15. Cardinality(o..top) = Cardinality(P)
  BY <1>10, <1>14, FS_Bijection, Fun_ExistsBij
<1>16. QED
  BY <1>12, <1>15 DEF top, c, P

\* After a page that is shorter than was asked for, nothing is left.
LEMMA ShortPageIsLast ==
  ASSUME NEW S \in SUBSET Nat, IsFiniteSet(S), NEW o \in Nat, NEW n \in Nat,
         Cardinality(Page(S, o, n)) < n, NEW i \in S
  PROVE  Rank(S, i) < o + n
<1> DEFINE c == Cardinality(S)
<1>1. c \in Nat /\ c < o + n
  BY PageSize, FS_CardinalityType
<1>2. Rank(S, i) \in Nat /\ Rank(S, i) <= c
  BY RankType
<1>3. QED
  BY <1>1, <1>2
-----------------------------------------------------------------------------
(* The tables: they keep their types, and no row outlives its customer.        *)

\* Clamp returns a page size that the service accepts.
LEMMA ClampType ==
  ASSUME DashboardAssumption, NEW n \in Int
  PROVE  Clamp(n) \in 1..MaxLimit /\ (n \in 1..MaxLimit => Clamp(n) = n)
BY DEF DashboardAssumption, Clamp

\* The tables, the reads and what they have shown keep their types.
THEOREM ReportTypes == ASSUME DashboardAssumption PROVE Spec => []TypeOK
<1> USE DEF TypeOK, tables, reading, Goto, Take, Kinds
<1>1. Init => TypeOK
  BY DEF Init
<1>2. TypeOK /\ [Next]_vars => TypeOK'
  <2> SUFFICES ASSUME TypeOK, [Next]_vars PROVE TypeOK'
    OBVIOUS
  <2>1. ASSUME NEW c \in Customers, Join(c) \/ Leave(c) PROVE TypeOK'
    BY <2>1 DEF Join, Leave
  <2>2. ASSUME NEW c \in Customers, NEW i \in RowIds, Write(i, c) PROVE TypeOK'
    <3>1. rows' \subseteq Row
      BY <2>2 DEF Write, Row
    <3>2. QED
      BY <2>2, <3>1 DEF Write
  <2>3. ASSUME NEW r \in Reads, Summary(r) PROVE TypeOK'
    <3>1. Steeps \subseteq RowIds /\ \A w : Chart(w) \subseteq RowIds
      BY DEF Ids, Steeps, Chart, Row
    <3>2. QED
      BY <2>3, <3>1 DEF Summary
  <2>4. ASSUME NEW r \in Reads, NEW n \in Asked, Feed(r, n) PROVE TypeOK'
    <3>1. Ids(rows) \subseteq RowIds /\ Page(Ids(Joined), 0, Clamp(n)) \subseteq RowIds
      BY DEF Ids, Joined, Page, Row
    <3>2. QED
      BY <2>4, <3>1 DEF Feed
  <2>5. ASSUME NEW r \in Reads, NEW n \in Asked, NEW k \in {"history", "customers"}, Open(r, k, n)
        PROVE  TypeOK'
    <3>1. \A c : Listed(k, c) \subseteq RowIds \cup Customers
      BY DEF Listed, Ids, Row
    <3>2. QED
      BY <2>5, <3>1 DEF Open
  <2>6. ASSUME NEW r \in Reads, NextPage(r) PROVE TypeOK'
    <3>1. \A k, c, o, n : Page(Listed(k, c), o, n) \subseteq RowIds \cup Customers
      BY DEF Listed, Ids, Page, Row
    <3>2. asked[r] \in Int /\ offset[r] \in Int
      <4>1. asked[r] \in Asked \cup {0} /\ offset[r] \in Int
        OBVIOUS
      <4> HIDE DEF TypeOK
      <4>2. \A n \in Asked : n \in Int
        BY DEF DashboardAssumption
      <4>3. QED
        BY <4>1, <4>2
    <3>3. QED
      BY <2>6, <3>1, <3>2 DEF NextPage
  <2>7. ASSUME NEW r \in Reads, ReadFails(r) \/ Answer(r) PROVE TypeOK'
    BY <2>7 DEF ReadFails, Answer
  <2>8. ASSUME UNCHANGED vars PROVE TypeOK'
    BY <2>8 DEF vars
  <2>9. QED
    BY <2>1, <2>2, <2>3, <2>4, <2>5, <2>6, <2>7, <2>8 DEF Next
<1>3. QED
  BY <1>1, <1>2, PTL DEF Spec

\* The table is finite, a row has its customer and an id of its own; a read that
\* has not begun has shown nothing, and one between two statements is on a route
\* that has them.
TableInv ==
  /\ IsFiniteSet(rows)
  /\ \A x \in rows : x.cust \in customers
  /\ \A x, y \in rows : x.id = y.id => x = y
  /\ \A r \in Reads :
       /\ pc[r] = "new" => kind[r] = "none" /\ seen[r] = {} /\ offset[r] = 0
       /\ pc[r] = "second" => kind[r] = "summary"
       /\ pc[r] = "page" => kind[r] \in {"history", "customers"}

LEMMA TablesKept == ASSUME DashboardAssumption PROVE Spec => []TableInv
<1> USE DEF TypeOK, TableInv, tables, reading, Goto, Take
<1>1. Init => TableInv
  BY FS_EmptySet DEF Init
<1>2. TypeOK /\ TableInv /\ [Next]_vars => TableInv'
  <2> SUFFICES ASSUME TypeOK, TableInv, [Next]_vars PROVE TableInv'
    OBVIOUS
  <2>1. ASSUME NEW c \in Customers, Join(c) \/ Leave(c) PROVE TableInv'
    BY <2>1 DEF Join, Leave
  <2>2. ASSUME NEW c \in Customers, NEW i \in RowIds, Write(i, c) PROVE TableInv'
    <3>1. PICK t \in {"steep_earned", "reward_redeemed"} :
            rows' = rows \cup {[id |-> i, cust |-> c, type |-> t]}
      BY <2>2 DEF Write
    <3>2. IsFiniteSet(rows')
      BY <3>1, FS_AddElement
    <3>3. QED
      BY <2>2, <3>1, <3>2 DEF Write
  <2>3. ASSUME NEW r \in Reads, Summary(r) PROVE TableInv'
    BY <2>3 DEF Summary
  <2>4. ASSUME NEW r \in Reads, NEW n \in Asked, Feed(r, n) PROVE TableInv'
    BY <2>4 DEF Feed
  <2>5. ASSUME NEW r \in Reads, NEW n \in Asked, NEW k \in {"history", "customers"}, Open(r, k, n)
        PROVE  TableInv'
    BY <2>5 DEF Open
  <2>6. ASSUME NEW r \in Reads, NextPage(r) PROVE TableInv'
    BY <2>6 DEF NextPage
  <2>7. ASSUME NEW r \in Reads, ReadFails(r) \/ Answer(r) PROVE TableInv'
    BY <2>7 DEF ReadFails, Answer
  <2>8. ASSUME UNCHANGED vars PROVE TableInv'
    BY <2>8 DEF vars
  <2>9. QED
    BY <2>1, <2>2, <2>3, <2>4, <2>5, <2>6, <2>7, <2>8 DEF Next
<1>3. QED
  BY <1>1, <1>2, ReportTypes, PTL DEF Spec
-----------------------------------------------------------------------------
(* The reports                                                                *)

\* What is known of the tables and the reads at every moment.
Known == TypeOK /\ TableInv

LEMMA AllKnown == ASSUME DashboardAssumption PROVE Spec => []Known
<1>1. TypeOK /\ TableInv => Known
  BY DEF Known
<1>2. QED
  BY <1>1, ReportTypes, TablesKept, PTL

\* The ids of a set of rows, of which each belongs to one row, count it.
LEMMA IdsCount ==
  ASSUME Known, NEW R \in SUBSET rows
  PROVE  IsFiniteSet(R) /\ IsFiniteSet(Ids(R)) /\ Cardinality(Ids(R)) = Cardinality(R)
<1> DEFINE f == [x \in R |-> x.id]
<1>1. IsFiniteSet(R) /\ \A x, y \in R : x.id = y.id => x = y
  BY FS_Subset DEF Known, TableInv
<1>2. f \in [R -> Ids(R)]
  BY DEF Ids
<1>3. \A x, y \in R : f[x] = f[y] => x = y
  BY <1>1
<1>4. \A i \in Ids(R) : \E x \in R : f[x] = i
  BY DEF Ids
<1> HIDE DEF f
<1>5. f \in Bijection(R, Ids(R))
  BY <1>2, <1>3, <1>4, Fun_IsBij
<1>6. QED
  BY <1>1, <1>5, FS_Bijection, Fun_ExistsBij

\* What a read's own query does to it.
Own(r) ==
  \/ Summary(r) \/ NextPage(r)
  \/ \E n \in Asked : Feed(r, n) \/ \E k \in {"history", "customers"} : Open(r, k, n)

\* A read that keeps what it has: it waits, fails, or is answered.
Waits(r) ==
  /\ kind'[r] = kind[r] /\ first'[r] = first[r] /\ seen'[r] = seen[r]
  /\ cust'[r] = cust[r] /\ asked'[r] = asked[r] /\ offset'[r] = offset[r]
  /\ since'[r] = since[r] /\ moved'[r] \in {moved[r], TRUE}
  /\ pc'[r] = pc[r] \/ pc'[r] = "error" \/ (pc[r] = "audit" /\ pc'[r] = "answered")

\* Reads do not touch each other, and what is written meanwhile is seen by the
\* next query only.
LEMMA OwnStep ==
  ASSUME TypeOK, [Next]_vars, NEW q \in Reads
  PROVE  Own(q) \/ Waits(q)
<1> USE DEF TypeOK, tables, reading, Goto, Take, Waits
<1>1. ASSUME NEW c \in Customers, Join(c) \/ Leave(c) PROVE Waits(q)
  BY <1>1 DEF Join, Leave
<1>2. ASSUME NEW c \in Customers, NEW i \in RowIds, Write(i, c) PROVE Waits(q)
  BY <1>2 DEF Write
<1>3. ASSUME NEW r \in Reads, r # q, Summary(r) PROVE Waits(q)
  BY <1>3 DEF Summary
<1>4. ASSUME NEW r \in Reads, r # q, NEW n \in Asked, Feed(r, n) PROVE Waits(q)
  BY <1>4 DEF Feed
<1>5. ASSUME NEW r \in Reads, r # q, NEW n \in Asked, NEW k \in {"history", "customers"},
             Open(r, k, n)
      PROVE  Waits(q)
  BY <1>5 DEF Open
<1>6. ASSUME NEW r \in Reads, r # q, NextPage(r) PROVE Waits(q)
  BY <1>6 DEF NextPage
<1>7. ASSUME NEW r \in Reads, ReadFails(r) \/ Answer(r) PROVE Waits(q)
  BY <1>7 DEF ReadFails, Answer
<1>8. ASSUME UNCHANGED vars PROVE Waits(q)
  BY <1>8 DEF vars
<1>9. QED
  BY <1>1, <1>2, <1>3, <1>4, <1>5, <1>6, <1>7, <1>8 DEF Next, Own

\* Rows are never taken away, and customers only by a deletion, which every
\* client that reads a list is told of by moved.
LEMMA TablesGrow ==
  ASSUME TypeOK, [Next]_vars
  PROVE  /\ rows \subseteq rows'
         /\ customers \subseteq customers' \/ moved' = [r \in Reads |-> TRUE]
<1> DEFINE Goal == /\ rows \subseteq rows'
                   /\ customers \subseteq customers' \/ moved' = [r \in Reads |-> TRUE]
<1> USE DEF tables
<1>1. ASSUME NEW c \in Customers, Join(c) \/ Leave(c) PROVE Goal
  BY <1>1 DEF Join, Leave
<1>2. ASSUME NEW c \in Customers, NEW i \in RowIds, Write(i, c) PROVE Goal
  BY <1>2 DEF Write
<1>3. ASSUME NEW r \in Reads, Own(r) \/ ReadFails(r) \/ Answer(r) PROVE Goal
  BY <1>3 DEF Own, Summary, NextPage, Feed, Open, ReadFails, Answer
<1>4. ASSUME UNCHANGED vars PROVE Goal
  BY <1>4 DEF vars
<1>5. QED
  BY <1>1, <1>2, <1>3, <1>4 DEF Next, Own

\* Between the statements of a summary its total is still in the table; after
\* them what the window holds of it is in the chart.
SummaryInv ==
  \A r \in Reads : kind[r] = "summary" =>
    \/ pc[r] = "second" /\ first[r] \subseteq Steeps
    \/ pc[r] \in {"audit", "answered"} /\ {i \in first[r] : i >= since[r]} \subseteq seen[r]
    \/ pc[r] = "error"

\* The chart of a loyalty summary holds every steep of its total that lies in
\* its window.
THEOREM SummaryComplete == ASSUME DashboardAssumption PROVE Spec => []SummaryKeepsUp
<1>1. Init => SummaryInv
  BY DEF Init, SummaryInv
<1>2. Known /\ SummaryInv /\ [Next]_vars => SummaryInv'
  <2> DEFINE Goal(r) ==
        \/ pc'[r] = "second" /\ first'[r] \subseteq Steeps'
        \/ /\ pc'[r] \in {"audit", "answered"}
           /\ {i \in first'[r] : i >= since'[r]} \subseteq seen'[r]
        \/ pc'[r] = "error"
  <2> SUFFICES ASSUME Known, SummaryInv, [Next]_vars, NEW r \in Reads, kind'[r] = "summary"
               PROVE  Goal(r)
    BY DEF SummaryInv
  <2>1. Steeps \subseteq Steeps'
    BY TablesGrow DEF Known, Ids, Steeps
  <2>2. CASE Waits(r)
    BY <2>1, <2>2 DEF Waits, SummaryInv
  <2>3. CASE Summary(r)
    <3>1. CASE Take(r, "summary") /\ Goto(r, "second") /\ first' = [first EXCEPT ![r] = Steeps]
      <4>1. pc'[r] = "second" /\ first'[r] = Steeps
        BY <3>1 DEF Goto, Known, TypeOK
      <4>2. QED
        BY <2>1, <4>1
    <3>2. CASE pc[r] = "second" /\ Goto(r, "audit") /\ UNCHANGED <<first, kind>>
      <4>1. PICK w \in RowIds : /\ since' = [since EXCEPT ![r] = w]
                                /\ seen' = [seen EXCEPT ![r] = Chart(w)]
        BY <2>3, <3>2 DEF Summary, Take
      <4>2. /\ pc'[r] = "audit" /\ first'[r] = first[r] /\ since'[r] = w
            /\ seen'[r] = Chart(w)
        BY <3>2, <4>1 DEF Goto, Known, TypeOK
      <4>3. first[r] \subseteq Steeps
        BY <3>2 DEF SummaryInv, Known, TableInv
      <4>4. QED
        BY <4>2, <4>3 DEF Chart
    <3>3. QED
      BY <2>3, <3>1, <3>2 DEF Summary
  <2>4. CASE Own(r) /\ ~Summary(r)
    <3>1. kind'[r] # "summary"
      BY <2>4 DEF Own, NextPage, Feed, Open, Take, Known, TypeOK, TableInv
    <3>2. QED
      BY <3>1
  <2>5. QED
    BY <2>2, <2>3, <2>4, OwnStep DEF Known
<1>3. SummaryInv => SummaryKeepsUp
  BY DEF SummaryInv, SummaryKeepsUp, Answered
<1>4. QED
  BY <1>1, <1>2, <1>3, AllKnown, PTL DEF Spec

\* A feed shows as many rows as there are, or as fit.
FeedInv ==
  \A r \in Reads : kind[r] = "feed" =>
    Cardinality(seen[r]) = IF Cardinality(first[r]) < Clamp(asked[r])
                           THEN Cardinality(first[r]) ELSE Clamp(asked[r])

LEMMA FeedNow ==
  ASSUME DashboardAssumption, Known, NEW n \in Asked
  PROVE  Cardinality(Page(Ids(Joined), 0, Clamp(n))) =
           IF Cardinality(Ids(rows)) < Clamp(n) THEN Cardinality(Ids(rows)) ELSE Clamp(n)
<1>1. Joined = rows
  BY DEF Joined, Known, TableInv
<1>2. Ids(rows) \in SUBSET Nat
  <2>1. Ids(rows) \subseteq RowIds
    BY DEF Ids, Known, TypeOK, Row
  <2>2. QED
    BY <2>1 DEF DashboardAssumption
<1>3. IsFiniteSet(Ids(rows)) /\ Cardinality(Ids(rows)) \in Nat
  BY IdsCount, FS_CardinalityType
<1>4. n \in Int /\ MaxLimit \in Nat
  BY DEF DashboardAssumption
<1>5. Clamp(n) \in Nat /\ Clamp(n) >= 1
  BY <1>4, ClampType
<1>6. QED
  BY <1>1, <1>2, <1>3, <1>5, PageSize

\* The live feed is full: no row is lost to the join with its customer.
THEOREM FeedSafe == ASSUME DashboardAssumption PROVE Spec => []FeedFull
<1>1. Init => FeedInv
  BY DEF Init, FeedInv
<1>2. Known /\ FeedInv /\ [Next]_vars => FeedInv'
  <2> DEFINE Full(s, f, n) == Cardinality(s) = IF Cardinality(f) < n THEN Cardinality(f) ELSE n
  <2> SUFFICES ASSUME Known, FeedInv, [Next]_vars, NEW r \in Reads, kind'[r] = "feed"
               PROVE  Full(seen'[r], first'[r], Clamp(asked'[r]))
    BY DEF FeedInv, Clamp
  <2>1. CASE Waits(r)
    <3>1. Full(seen[r], first[r], Clamp(asked[r]))
      BY <2>1 DEF Waits, FeedInv
    <3>2. QED
      BY <2>1, <3>1 DEF Waits
  <2>2. ASSUME NEW n \in Asked, Feed(r, n)
        PROVE  Full(seen'[r], first'[r], Clamp(asked'[r]))
    <3>1. /\ first'[r] = Ids(rows) /\ seen'[r] = Page(Ids(Joined), 0, Clamp(n))
          /\ asked'[r] = n
      BY <2>2 DEF Feed, Known, TypeOK
    <3>2. QED
      BY <3>1, FeedNow
  <2>3. CASE Own(r) /\ ~\E n \in Asked : Feed(r, n)
    <3>1. kind'[r] # "feed"
      BY <2>3 DEF Own, Summary, NextPage, Open, Take, Known, TypeOK, TableInv
    <3>2. QED
      BY <3>1
  <2>4. QED
    BY <2>1, <2>2, <2>3, OwnStep DEF Known
<1>3. FeedInv => FeedFull
  BY DEF FeedInv, FeedFull, Answered
<1>4. QED
  BY <1>1, <1>2, <1>3, AllKnown, PTL DEF Spec
-----------------------------------------------------------------------------
(* Lists, page by page                                                        *)

\* The list that a client pages through.
Here(r) == Listed(kind[r], cust[r])

\* A client that asks for a size the service accepts has been shown what was
\* there at the start and stands before its offset now: an entry can only have
\* moved back, into the pages that are still to come.
WalkInv ==
  \A r \in Reads :
    /\ kind[r] \in {"history", "customers"} /\ asked[r] \in 1..MaxLimit
    /\ kind[r] = "customers" => ~moved[r]
    => \/ /\ pc[r] = "page" /\ offset[r] \in Nat
          /\ first[r] \subseteq Here(r)
          /\ \A i \in first[r] : Rank(Here(r), i) < offset[r] => i \in seen[r]
       \/ pc[r] \in {"audit", "answered"} /\ first[r] \subseteq seen[r]
       \/ pc[r] = "error"

LEMMA ListFinite ==
  ASSUME DashboardAssumption, Known, NEW k, NEW c
  PROVE  Listed(k, c) \in SUBSET Nat /\ IsFiniteSet(Listed(k, c))
<1> DEFINE R == {x \in rows : x.cust = c}
<1>1. R \in SUBSET rows
  OBVIOUS
<1>2. IsFiniteSet(Ids(R))
  <2> HIDE DEF R
  <2>1. QED
    BY <1>1, IdsCount
<1>3. Ids(R) \subseteq RowIds
  BY DEF Ids, Known, TypeOK, Row
<1>4. customers \in SUBSET Customers
  BY DEF Known, TypeOK
<1>5. IsFiniteSet(customers)
  BY <1>4, FS_Subset DEF DashboardAssumption
<1>6. RowIds \subseteq Nat /\ Customers \subseteq Nat
  BY DEF DashboardAssumption
<1>7. Listed(k, c) \in {customers, Ids(R)}
  BY DEF Listed
<1> HIDE DEF R
<1>8. QED
  BY <1>2, <1>3, <1>4, <1>5, <1>6, <1>7

\* One page further: what the page does not show stands behind it.
LEMMA OnePage ==
  ASSUME DashboardAssumption, Known, NEW r \in Reads, NextPage(r),
         asked[r] \in 1..MaxLimit, offset[r] \in Nat, first[r] \subseteq Here(r),
         \A i \in first[r] : Rank(Here(r), i) < offset[r] => i \in seen[r]
  PROVE  \/ /\ pc'[r] = "page" /\ offset'[r] \in Nat
            /\ \A i \in first[r] : Rank(Here(r), i) < offset'[r] => i \in seen'[r]
         \/ pc'[r] = "audit" /\ first[r] \subseteq seen'[r]
<1> DEFINE n == asked[r]
           o == offset[r]
           S == Here(r)
           page == Page(S, o, n)
<1>1. n \in Nat /\ n >= 1 /\ o \in Nat /\ Clamp(n) = n
  <2>1. MaxLimit \in Nat
    BY DEF DashboardAssumption
  <2>2. n \in Int
    BY <2>1
  <2>3. QED
    BY <2>1, <2>2, ClampType
<1>2. /\ seen'[r] = seen[r] \cup page /\ offset'[r] = o + n
      /\ pc'[r] = IF Cardinality(page) < n \/ n <= 0 THEN "audit" ELSE "page"
  BY <1>1 DEF NextPage, Here, Goto, Known, TypeOK
<1>3. S \in SUBSET Nat /\ IsFiniteSet(S)
  BY ListFinite DEF Here
<1>4. ASSUME NEW i \in first[r], Rank(S, i) < o + n PROVE i \in seen'[r]
  <2>1. Rank(S, i) \in Nat
    BY <1>3, RankType
  <2>2. CASE Rank(S, i) < o
    BY <1>2, <2>2
  <2>3. CASE ~(Rank(S, i) < o)
    <3>1. Rank(S, i) \in o..(o + n - 1) /\ i \in S
      BY <1>1, <1>4, <2>1, <2>3
    <3>2. i \in page
      BY <3>1 DEF Page, Rank, Above
    <3>3. QED
      BY <1>2, <3>2
  <2>4. QED
    BY <2>2, <2>3
<1>5. ASSUME Cardinality(page) < n PROVE \A i \in first[r] : Rank(S, i) < o + n
  BY <1>1, <1>3, <1>5, ShortPageIsLast
<1> HIDE DEF page, S, n, o
<1>6. CASE Cardinality(page) < n
  <2>1. pc'[r] = "audit"
    BY <1>2, <1>6
  <2>2. QED
    BY <1>4, <1>5, <1>6, <2>1
<1>7. CASE ~(Cardinality(page) < n)
  <2>1. pc'[r] = "page" /\ offset'[r] \in Nat
    BY <1>1, <1>2, <1>7
  <2>2. QED
    BY <1>2, <1>4, <2>1 DEF S
<1>8. QED
  BY <1>6, <1>7

\* The lists are finite.
Lists == \A r \in Reads : Here(r) \in SUBSET Nat /\ IsFiniteSet(Here(r))

\* A client that pages through a list by the size it asked for misses nothing
\* that was there when it began, unless a deletion pulled entries forward.
THEOREM WalkSafe == ASSUME DashboardAssumption PROVE Spec => []WalkComplete
<1>1. Init => WalkInv
  BY DEF Init, WalkInv
<1>2. Known => Lists
  BY ListFinite DEF Lists, Here
<1>3. Known /\ WalkInv /\ [Next]_vars /\ Lists' => WalkInv'
  <2> DEFINE Goal(r) ==
        \/ /\ pc'[r] = "page" /\ offset'[r] \in Nat
           /\ first'[r] \subseteq Here(r)'
           /\ \A i \in first'[r] : Rank(Here(r)', i) < offset'[r] => i \in seen'[r]
        \/ pc'[r] \in {"audit", "answered"} /\ first'[r] \subseteq seen'[r]
        \/ pc'[r] = "error"
  <2> SUFFICES ASSUME Known, WalkInv, [Next]_vars, Lists', NEW r \in Reads,
                      kind'[r] \in {"history", "customers"}, asked'[r] \in 1..MaxLimit,
                      kind'[r] = "customers" => ~moved'[r]
               PROVE  Goal(r)
    BY DEF WalkInv, Rank, Above
  <2>1. IsFiniteSet(Here(r)')
    BY DEF Lists, IsFiniteSet
  <2>2. CASE Waits(r)
    <3>1. /\ kind'[r] = kind[r] /\ cust'[r] = cust[r] /\ asked'[r] = asked[r]
          /\ first'[r] = first[r] /\ seen'[r] = seen[r] /\ offset'[r] = offset[r]
          /\ pc'[r] = pc[r] \/ pc'[r] = "error" \/ (pc[r] = "audit" /\ pc'[r] = "answered")
      BY <2>2 DEF Waits
    <3>2. kind[r] = "customers" => ~moved[r] /\ customers \subseteq customers'
      BY <2>2, TablesGrow DEF Waits, Known
    <3>3. Here(r) \subseteq Here(r)'
      BY <3>1, <3>2, TablesGrow DEF Here, Listed, Ids, Known
    <3>4. ASSUME NEW i PROVE Rank(Here(r), i) <= Rank(Here(r)', i)
      BY <2>1, <3>3, RankGrows
    <3>5. ASSUME NEW i
          PROVE  Rank(Here(r), i) \in Nat /\ Rank(Here(r)', i) \in Nat
      <4>1. IsFiniteSet(Here(r))
        BY <1>2 DEF Lists
      <4>2. QED
        BY <2>1, <4>1, RankType
    <3>6. CASE /\ pc[r] = "page" /\ offset[r] \in Nat
               /\ first[r] \subseteq Here(r)
               /\ \A i \in first[r] : Rank(Here(r), i) < offset[r] => i \in seen[r]
      <4>1. ASSUME NEW i \in first[r], Rank(Here(r)', i) < offset[r] PROVE i \in seen[r]
        <5>1. Rank(Here(r), i) < offset[r]
          BY <3>4, <3>5, <3>6, <4>1
        <5>2. QED
          BY <3>6, <5>1
      <4>2. QED
        BY <3>1, <3>3, <3>6, <4>1
    <3>7. CASE pc[r] \in {"audit", "answered"} /\ first[r] \subseteq seen[r]
      BY <3>1, <3>7
    <3>8. CASE pc[r] = "error"
      BY <3>1, <3>8
    <3>9. QED
      BY <3>1, <3>2, <3>6, <3>7, <3>8 DEF WalkInv
  <2>3. ASSUME NEW n \in Asked, NEW k \in {"history", "customers"}, Open(r, k, n) PROVE Goal(r)
    <3>1. /\ pc[r] = "new" /\ pc'[r] = "page" /\ offset'[r] = offset[r]
          /\ kind'[r] = k /\ first'[r] = Listed(k, cust'[r])
      BY <2>3 DEF Open, Take, Goto, Known, TypeOK
    <3>2. offset'[r] = 0
      BY <3>1 DEF Known, TableInv
    <3>3. Here(r)' = first'[r]
      BY <2>3, <3>1 DEF Open, tables, Here, Listed, Ids
    <3>4. ASSUME NEW i PROVE ~(Rank(Here(r)', i) < 0)
      BY <2>1, RankType
    <3>5. QED
      BY <3>1, <3>2, <3>3, <3>4
  <2>4. CASE NextPage(r)
    <3>1. /\ kind'[r] = kind[r] /\ asked'[r] = asked[r] /\ first'[r] = first[r]
          /\ moved'[r] = moved[r] /\ Here(r)' = Here(r) /\ pc[r] = "page"
      BY <2>4 DEF NextPage, tables, Here, Listed, Ids
    <3>2. /\ offset[r] \in Nat /\ first[r] \subseteq Here(r)
          /\ \A i \in first[r] : Rank(Here(r), i) < offset[r] => i \in seen[r]
      BY <3>1 DEF WalkInv
    <3>3. \/ /\ pc'[r] = "page" /\ offset'[r] \in Nat
             /\ \A i \in first[r] : Rank(Here(r), i) < offset'[r] => i \in seen'[r]
          \/ pc'[r] = "audit" /\ first[r] \subseteq seen'[r]
      BY <2>4, <3>1, <3>2, OnePage
    <3>4. QED
      BY <3>1, <3>2, <3>3
  <2>5. CASE Summary(r) \/ \E n \in Asked : Feed(r, n)
    <3>1. kind'[r] \notin {"history", "customers"}
      BY <2>5 DEF Summary, Feed, Take, Known, TypeOK, TableInv
    <3>2. QED
      BY <3>1
  <2>6. QED
    BY <2>2, <2>3, <2>4, <2>5, OwnStep DEF Known, Own
<1>4. WalkInv => WalkComplete
  BY DEF WalkInv, WalkComplete
<1>5. QED
  BY <1>1, <1>2, <1>3, <1>4, AllKnown, PTL DEF Spec
=============================================================================
