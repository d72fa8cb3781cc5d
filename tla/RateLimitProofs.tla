-------------------------- MODULE RateLimitProofs --------------------------
(* The limit holds for any clients, window and limit, as long as an INCR    *)
(* reaches Redis within a window of the time it was counted for.            *)
EXTENDS RateLimit, FiniteSetTheorems, TLAPS

\* The window of an instant: its number, and the instants it covers.
LEMMA Bucket ==
  ASSUME NEW a \in Nat, NEW w \in Nat \ {0}
  PROVE  /\ a \div w \in 0..a
         /\ (a \div w) * w <= a /\ a < (a \div w + 1) * w
<1> DEFINE q == a \div w
<1>1. q \in Int /\ w * q <= a /\ a < w * q + w
  BY SMTT(30)
<1>2. q \in Nat
  BY SMTT(30)
<1> HIDE DEF q
<1>3. q <= a
  <2>1. q <= w * q
    BY <1>2, SMTT(30)
  <2>2. w * q \in Int
    BY <1>2
  <2>3. QED
    BY <1>1, <1>2, <2>1, <2>2
<1>4. q * w = w * q /\ (q + 1) * w = w * q + w
  BY <1>2, SMTT(30)
<1>5. q * w <= a /\ a < (q + 1) * w
  BY <1>1, <1>2, <1>4
<1>6. QED
  BY <1>2, <1>3, <1>5 DEF q

\* A key names a client and one of the windows of the run.
LEMMA KeyTyped ==
  ASSUME WindowAssumption, TypeOK, NEW r \in Requests
  PROVE  Key(r) \in Clients \X Buckets
<1>1. arrived[r] \in 0..Horizon
  BY DEF TypeOK
<1>2. arrived[r] \div Window \in 0..arrived[r]
  BY <1>1, Bucket DEF WindowAssumption
<1>3. QED
  BY <1>1, <1>2 DEF Key, Buckets, TypeOK, WindowAssumption

\* Counters, expiries, ranks and positions keep their types.
THEOREM LimiterTypes == ASSUME WindowAssumption PROVE Spec => []TypeOK
<1>1. Init => TypeOK
  BY DEF Init, TypeOK, WindowAssumption
<1>2. TypeOK /\ [Next]_<<now, limvars>> => TypeOK'
  <2> SUFFICES ASSUME TypeOK, [Next]_<<now, limvars>> PROVE TypeOK'
    OBVIOUS
  <2> USE DEF TypeOK, Enter, Decide, Counted
  <2>1. ASSUME NEW r \in Requests, Arrive(r) PROVE TypeOK'
    BY <2>1 DEF Arrive, WindowAssumption
  <2>2. ASSUME NEW r \in Requests, Incr(r) PROVE TypeOK'
    <3>1. Key(r) \in Clients \X Buckets
      BY KeyTyped
    <3>2. count[Key(r)] \in Nat
      BY <3>1
    <3>3. QED
      BY <2>2, <3>1, <3>2 DEF Incr, Counts
  <2>3. ASSUME NEW r \in Requests, Expire(r) PROVE TypeOK'
    <3>1. now + 2 * Window \in Nat
      BY DEF WindowAssumption
    <3>2. QED
      BY <2>3, <3>1 DEF Expire
  <2>4. ASSUME Tick PROVE TypeOK'
    BY <2>4 DEF Tick
  <2>5. ASSUME UNCHANGED <<now, limvars>> PROVE TypeOK'
    BY <2>5 DEF limvars
  <2>6. QED
    BY <2>1, <2>2, <2>3, <2>4, <2>5 DEF Next, Handle
<1>3. QED
  BY <1>1, <1>2, PTL DEF Spec

\* A request that may still be counted is early enough for its key.
LEMMA InTime ==
  ASSUME WindowAssumption, DelayCovered, TypeOK, LimitInv,
         NEW r \in Requests, lim[r] = "incr"
  PROVE  now < KeptUntil(r)
<1> DEFINE b == arrived[r] \div Window
<1>1. arrived[r] \in Nat /\ now \in Nat /\ now - arrived[r] <= LimitDelay
  BY DEF LimitInv, TypeOK, WindowAssumption
<1>2. b \in Nat /\ arrived[r] < (b + 1) * Window
  <2>1. Window \in Nat \ {0} /\ arrived[r] \in Nat
    BY <1>1 DEF WindowAssumption
  <2>2. b \in 0..arrived[r] /\ arrived[r] < (b + 1) * Window
    BY ONLY <2>1, Bucket
  <2> HIDE DEF b
  <2>3. QED
    BY <2>1, <2>2
<1>3. KeptUntil(r) = (b + 2) * Window
  BY DEF KeptUntil, Key
<1> HIDE DEF b
<1>4. (b + 2) * Window = (b + 1) * Window + Window /\ (b + 1) * Window \in Nat
  BY <1>2, SMTT(30) DEF WindowAssumption
<1>5. QED
  BY <1>1, <1>2, <1>3, <1>4 DEF DelayCovered, WindowAssumption

\* A key that expires is past the last instant it is needed.
LEMMA KeyStays ==
  ASSUME WindowAssumption, TypeOK, LimitInv, NEW r \in Requests, Gone(Key(r))
  PROVE  now + 1 >= KeptUntil(r)
<1>1. Key(r) \in Clients \X Buckets /\ Key(r)[2] \in Nat
  BY KeyTyped DEF Buckets, WindowAssumption
<1>2. ttl[Key(r)] \in Nat /\ ttl[Key(r)] >= KeptUntil(r) /\ KeptUntil(r) \in Nat
  BY <1>1 DEF TypeOK, LimitInv, Gone, KeptUntil, WindowAssumption
<1>3. QED
  BY <1>2 DEF TypeOK, Gone

\* The requests of a key that pass have ranks of their own from 1 to Limit.
LEMMA PassedFew ==
  ASSUME WindowAssumption, TypeOK, LimitInv, NEW k
  PROVE  LET P == {q \in Requests : lim[q] = "passed" /\ Key(q) = k}
         IN  IsFiniteSet(P) /\ Cardinality(P) \in Nat /\ Cardinality(P) <= Limit
<1> DEFINE P == {q \in Requests : lim[q] = "passed" /\ Key(q) = k}
           f == [q \in P |-> rank[q]]
<1>1. f \in Injection(P, 1..Limit)
  <2>1. \A q \in P : rank[q] \in 1..Limit
    BY DEF LimitInv, Counted, TypeOK, WindowAssumption
  <2>2. \A p, q \in P : rank[p] = rank[q] => p = q
    BY DEF LimitInv, Counted
  <2>3. QED
    BY <2>1, <2>2 DEF Injection, IsInjective
<1> HIDE DEF P, f
<1>2. Limit \in Nat
  BY DEF WindowAssumption
<1>3. IsFiniteSet(1..Limit) /\ Cardinality(1..Limit) = Limit
  BY ONLY <1>2, FS_Interval
<1>4. IsFiniteSet(P) /\ Cardinality(P) <= Cardinality(1..Limit)
  BY ONLY <1>1, <1>3, FS_Injection
<1>5. Cardinality(P) \in Nat
  BY <1>4, FS_CardinalityType
<1>6. QED
  BY <1>3, <1>4, <1>5 DEF P

\* A counted request has a rank of its own among those of its window.
THEOREM RanksApart ==
  ASSUME WindowAssumption, DelayCovered PROVE Spec => []LimitInv
<1> USE DEF Enter, Counted
<1>1. Init => LimitInv
  BY DEF Init, LimitInv
<1>2. TypeOK /\ LimitInv /\ [Next]_<<now, limvars>> => LimitInv'
  <2> SUFFICES ASSUME TypeOK, LimitInv, [Next]_<<now, limvars>> PROVE LimitInv'
    OBVIOUS
  <2>1. ASSUME NEW r \in Requests, Arrive(r) PROVE LimitInv'
    <3>1. \A q \in Requests \ {r} : Key(q)' = Key(q) /\ KeptUntil(q)' = KeptUntil(q)
      BY <2>1 DEF Arrive, Key, KeptUntil, TypeOK
    <3>2. now \in Nat /\ now - now <= LimitDelay
      BY DEF TypeOK, WindowAssumption
    <3>3. QED
      BY <2>1, <3>1, <3>2 DEF Arrive, LimitInv, TypeOK
  <2>2. ASSUME NEW r \in Requests, Incr(r) PROVE LimitInv'
    <3>1. \A q \in Requests : Key(q) \in Clients \X Buckets /\ Key(q)' = Key(q)
                               /\ KeptUntil(q)' = KeptUntil(q)
      BY <2>2, KeyTyped DEF Incr, Key, KeptUntil
    <3>2. now < KeptUntil(r) /\ count[Key(r)] \in Nat
      BY <2>2, <3>1, InTime DEF Incr, TypeOK
    <3>3. \A q \in Requests : lim[q] \in Counted /\ Key(q) = Key(r) => rank[q] <= count[Key(r)]
      BY <3>2 DEF LimitInv, KeptUntil
    <3>4. ASSUME NEW n \in {1, 2}, Counts(r, n),
                 \/ n = 1 /\ count[Key(r)] = 0 /\ Enter(r, "expire")
                 \/ Decide(r, count[Key(r)] + n)
                 \/ Enter(r, "open")
          PROVE  LimitInv'
      BY <2>2, <3>1, <3>2, <3>3, <3>4 DEF Incr, Counts, Decide, LimitInv, TypeOK
    <3>5. CASE Enter(r, "open") /\ UNCHANGED <<count, rank, sends>>
      BY <2>2, <3>1, <3>5 DEF Incr, LimitInv, TypeOK
    <3>6. QED
      BY <2>2, <3>4, <3>5 DEF Incr
  <2>3. ASSUME NEW r \in Requests, Expire(r) PROVE LimitInv'
    <3>1. /\ \A q \in Requests : Key(q) \in Clients \X Buckets /\ Key(q)' = Key(q)
                                  /\ KeptUntil(q)' = KeptUntil(q)
          /\ UNCHANGED <<now, count, arrived, rank>> /\ lim[r] = "expire"
      BY <2>3, KeyTyped DEF Expire, Key, KeptUntil
    <3>2. now \in Nat /\ Key(r)[2] \in Nat /\ Key(r)[2] * Window <= now
      <4>1. arrived[r] \in Nat /\ arrived[r] <= now /\ Window \in Nat \ {0} /\ now \in Nat
        BY <3>1 DEF LimitInv, TypeOK, WindowAssumption
      <4>2. /\ arrived[r] \div Window \in 0..arrived[r]
            /\ (arrived[r] \div Window) * Window <= arrived[r]
        BY ONLY <4>1, Bucket
      <4>3. Key(r)[2] = arrived[r] \div Window
        BY DEF Key
      <4> DEFINE b == Key(r)[2]
      <4>4. b \in 0..arrived[r] /\ b * Window <= arrived[r]
        BY <4>2, <4>3
      <4> HIDE DEF b
      <4>5. b \in Nat /\ b * Window \in Int /\ b * Window <= now
        BY ONLY <4>1, <4>4
      <4>6. QED
        BY <4>1, <4>5 DEF b
    <3>3. now + 2 * Window >= (Key(r)[2] + 2) * Window
      <4>1. (Key(r)[2] + 2) * Window = Key(r)[2] * Window + 2 * Window
        BY <3>2, SMTT(30) DEF WindowAssumption
      <4>2. QED
        BY <3>2, <4>1, SMTT(30) DEF WindowAssumption
    <3>4. \A k \in Clients \X Buckets : ttl'[k] # Never => ttl'[k] >= (k[2] + 2) * Window
      BY <2>3, <3>1, <3>3 DEF Expire, LimitInv, TypeOK
    <3>5. CASE rank[r] <= Limit
      BY <2>3, <3>1, <3>4, <3>5 DEF Expire, Decide, LimitInv, TypeOK
    <3>6. CASE ~(rank[r] <= Limit)
      BY <2>3, <3>1, <3>4, <3>6 DEF Expire, Decide, LimitInv, TypeOK
    <3>7. QED
      BY <3>5, <3>6
  <2>4. ASSUME Tick PROVE LimitInv'
    <3>1. /\ \A q \in Requests : Key(q) \in Clients \X Buckets /\ Key(q)' = Key(q)
                                  /\ KeptUntil(q)' = KeptUntil(q) /\ KeptUntil(q) \in Int
          /\ now \in Nat /\ now' = now + 1 /\ UNCHANGED <<lim, arrived, rank>>
      BY <2>4, KeyTyped DEF Tick, Key, KeptUntil, TypeOK, Buckets, WindowAssumption
    <3>2. ASSUME NEW q \in Requests, lim[q] \in Counted, now' < KeptUntil(q)
          PROVE  rank[q] <= count'[Key(q)]
      <4>1. ~Gone(Key(q))
        BY <3>1, <3>2, KeyStays
      <4>2. count'[Key(q)] = count[Key(q)]
        BY <2>4, <3>1, <4>1 DEF Tick
      <4>3. QED
        BY <3>1, <3>2, <4>2 DEF LimitInv
    <3>3. \A q \in Requests : lim[q] = "incr" => now' - arrived[q] <= LimitDelay
      BY <2>4, <3>1 DEF Tick, TypeOK, WindowAssumption
    <3>4. \A k \in Clients \X Buckets : ttl'[k] # Never => ttl'[k] >= (k[2] + 2) * Window
      BY <2>4 DEF Tick, LimitInv
    <3>5. \A q \in Requests : lim[q] # "arriving" => arrived[q] <= now'
      BY <3>1 DEF LimitInv, TypeOK, WindowAssumption
    <3>6. QED
      BY <3>1, <3>2, <3>3, <3>4, <3>5 DEF LimitInv
  <2>5. ASSUME UNCHANGED <<now, limvars>> PROVE LimitInv'
    BY <2>5 DEF limvars, LimitInv, Key, KeptUntil
  <2>6. QED
    BY <2>1, <2>2, <2>3, <2>4, <2>5 DEF Next, Handle
<1>3. QED
  BY <1>1, <1>2, LimiterTypes, PTL DEF Spec
\* Redis lets at most Limit requests of a client and a window pass, however late,
\* repeated or lost its commands are.
THEOREM LimitSafe ==
  ASSUME WindowAssumption, DelayCovered PROVE Spec => []LimitKept
<1>1. TypeOK /\ LimitInv => LimitKept
  <2> SUFFICES ASSUME TypeOK, LimitInv, NEW r \in Requests
               PROVE  Cardinality({q \in Requests : lim[q] = "passed" /\ SameWindow(q, r)}) <= Limit
    BY DEF LimitKept
  <2>1. {q \in Requests : lim[q] = "passed" /\ SameWindow(q, r)}
          = {q \in Requests : lim[q] = "passed" /\ Key(q) = Key(r)}
    BY DEF SameWindow, Key
  <2>2. QED
    BY <2>1, PassedFew
<1>2. QED
  BY <1>1, LimiterTypes, RanksApart, PTL

\* Instants less than a window apart are in one window or in two that meet.
LEMMA TwoBuckets ==
  ASSUME NEW w \in Nat \ {0}, NEW t \in Nat, NEW a \in t..(t + w - 1)
  PROVE  a \div w \in {t \div w, t \div w + 1}
<1> DEFINE b == t \div w
           q == a \div w
<1>1. b \in Nat /\ b * w <= t /\ t < (b + 1) * w
  BY Bucket
<1>2. q \in Nat /\ q * w <= a /\ a < (q + 1) * w
  BY Bucket
<1> HIDE DEF b, q
<1>3. /\ b * w \in Nat /\ (b + 1) * w \in Nat /\ (b + 2) * w = (b + 1) * w + w
      /\ q * w \in Nat /\ (q + 1) * w \in Nat
  BY <1>1, <1>2
<1>4. ~(q + 1 <= b)
  <2>1. q + 1 <= b => (q + 1) * w <= b * w
    BY <1>1, <1>2
  <2>2. QED
    BY <1>1, <1>2, <1>3, <2>1
<1>5. ~(b + 2 <= q)
  <2>1. b + 2 <= q => (b + 2) * w <= q * w
    BY <1>1, <1>2
  <2>2. QED
    BY <1>1, <1>2, <1>3, <2>1
<1>6. QED
  BY <1>1, <1>2, <1>4, <1>5 DEF b, q

\* In any interval as long as a window a client gets at most twice the limit
\* through: the limit of each of the windows that it meets.
THEOREM BurstSafe ==
  ASSUME WindowAssumption, DelayCovered PROVE Spec => []BurstBounded
<1>1. TypeOK /\ LimitInv => BurstBounded
  <2> SUFFICES ASSUME TypeOK, LimitInv, NEW c \in Clients, NEW t \in 0..Horizon
               PROVE  Cardinality({q \in Requests : /\ lim[q] = "passed" /\ client[q] = c
                                                    /\ arrived[q] \in t..(t + Window - 1)})
                        <= 2 * Limit
    BY DEF BurstBounded
  <2> DEFINE S == {q \in Requests : /\ lim[q] = "passed" /\ client[q] = c
                                    /\ arrived[q] \in t..(t + Window - 1)}
             P(b) == {q \in Requests : lim[q] = "passed" /\ Key(q) = <<c, b>>}
             b0 == t \div Window
             A == P(b0)
             B == P(b0 + 1)
  <2>1. S \subseteq A \cup B
    <3> SUFFICES ASSUME NEW q \in S PROVE q \in A \cup B
      OBVIOUS
    <3>1. Window \in Nat \ {0} /\ t \in Nat /\ arrived[q] \in t..(t + Window - 1)
      BY DEF WindowAssumption
    <3>2. arrived[q] \div Window \in {b0, b0 + 1}
      BY ONLY <3>1, TwoBuckets
    <3>3. QED
      BY <3>2 DEF Key
  <2>2. /\ IsFiniteSet(A) /\ Cardinality(A) \in Nat /\ Cardinality(A) <= Limit
        /\ IsFiniteSet(B) /\ Cardinality(B) \in Nat /\ Cardinality(B) <= Limit
    BY PassedFew
  <2> HIDE DEF S, A, B
  <2>3. /\ IsFiniteSet(A \cup B) /\ IsFiniteSet(A \cap B)
        /\ Cardinality(A \cup B) = Cardinality(A) + Cardinality(B) - Cardinality(A \cap B)
    BY <2>2, FS_Union, FS_Intersection
  <2>4. Cardinality(A \cap B) \in Nat /\ Cardinality(A \cup B) \in Nat
    BY <2>3, FS_CardinalityType
  <2>5. IsFiniteSet(S) /\ Cardinality(S) <= Cardinality(A \cup B)
    BY <2>1, <2>3, FS_Subset
  <2>6. Cardinality(S) \in Nat /\ Limit \in Nat
    BY <2>5, FS_CardinalityType DEF WindowAssumption
  <2>7. QED
    BY <2>2, <2>3, <2>4, <2>5, <2>6 DEF S
<1>2. QED
  BY <1>1, LimiterTypes, RanksApart, PTL
-----------------------------------------------------------------------------
(* Why nobody is shut out: a counter never runs ahead of the INCRs that      *)
(* requests of its own window had carried out.                              *)

Sent(k) == {p \in Requests \X {1, 2} : Key(p[1]) = k /\ p[2] <= sends[p[1]]}

SentInv ==
  /\ \A r \in Requests : lim[r] \in {"arriving", "incr"} => sends[r] = 0
  /\ \A k \in Clients \X Buckets : count[k] <= Cardinality(Sent(k))
  /\ \A r \in Requests, k \in Clients \X Buckets :
       lim[r] \in {"expire", "limited"} /\ Key(r) = k => rank[r] <= Cardinality(Sent(k))
  /\ \A r \in Requests : lim[r] = "limited" => rank[r] > Limit

\* The INCRs of a key are finitely many, if the requests are.
LEMMA SentFinite ==
  ASSUME IsFiniteSet(Requests), NEW k
  PROVE  IsFiniteSet(Sent(k)) /\ Cardinality(Sent(k)) \in Nat
<1>1. IsFiniteSet({1, 2})
  <2>1. IsFiniteSet({1} \cup {2})
    BY FS_Singleton, FS_AddElement
  <2>2. {1} \cup {2} = {1, 2}
    OBVIOUS
  <2>3. QED
    BY <2>1, <2>2
<1>2. IsFiniteSet(Requests \X {1, 2})
  BY <1>1, FS_Product
<1>3. Sent(k) \in SUBSET (Requests \X {1, 2})
  BY DEF Sent
<1>4. QED
  BY <1>2, <1>3, FS_Subset, FS_CardinalityType

\* Carrying out the INCR of r n times adds n to the INCRs of its key and leaves
\* those of the others.
LEMMA SentGrows ==
  ASSUME IsFiniteSet(Requests), TypeOK, NEW r \in Requests, sends[r] = 0,
         NEW n \in {1, 2}, sends' = [sends EXCEPT ![r] = n],
         \A q \in Requests : Key(q)' = Key(q), NEW k
  PROVE  Cardinality(Sent(k)') = Cardinality(Sent(k)) + (IF k = Key(r) THEN n ELSE 0)
<1>1. IsFiniteSet(Sent(k)) /\ Cardinality(Sent(k)) \in Nat
  BY SentFinite
<1>2. CASE k # Key(r)
  <2>1. Sent(k)' = Sent(k)
    BY <1>2 DEF Sent, TypeOK
  <2>2. QED
    BY <1>1, <1>2, <2>1
<1>3. CASE k = Key(r) /\ n = 1
  <2>1. Sent(k)' = Sent(k) \cup {<<r, 1>>} /\ <<r, 1>> \notin Sent(k)
    BY <1>3 DEF Sent, TypeOK
  <2>2. QED
    BY <1>1, <1>3, <2>1, FS_AddElement
<1>4. CASE k = Key(r) /\ n = 2
  <2> DEFINE one == Sent(k) \cup {<<r, 1>>}
  <2>1. Sent(k)' = one \cup {<<r, 2>>} /\ <<r, 1>> \notin Sent(k) /\ <<r, 2>> \notin one
    BY <1>4 DEF Sent, TypeOK
  <2>2. IsFiniteSet(one) /\ Cardinality(one) = Cardinality(Sent(k)) + 1
    BY <1>1, <2>1, FS_AddElement
  <2> HIDE DEF one
  <2>3. Cardinality(one \cup {<<r, 2>>}) = Cardinality(one) + 1
    BY <2>1, <2>2, FS_AddElement
  <2>4. QED
    BY <1>1, <1>4, <2>1, <2>2, <2>3
<1>5. QED
  BY <1>2, <1>3, <1>4

\* No counter and no rank exceeds the INCRs of its window.
THEOREM CountsTruthful ==
  ASSUME WindowAssumption, IsFiniteSet(Requests) PROVE Spec => []SentInv
<1> USE DEF Enter
<1>1. Init => SentInv
  <2> SUFFICES ASSUME Init PROVE SentInv
    OBVIOUS
  <2>1. \A k \in Clients \X Buckets : Cardinality(Sent(k)) \in Nat
    BY SentFinite
  <2>2. QED
    BY <2>1 DEF Init, SentInv
<1>2. TypeOK /\ SentInv /\ [Next]_<<now, limvars>> => SentInv'
  <2> SUFFICES ASSUME TypeOK, SentInv, [Next]_<<now, limvars>> PROVE SentInv'
    OBVIOUS
  <2>1. ASSUME NEW r \in Requests, Arrive(r) PROVE SentInv'
    <3>1. /\ \A q \in Requests \ {r} : Key(q)' = Key(q)
          /\ sends' = sends /\ sends[r] = 0
      BY <2>1 DEF Arrive, Key, SentInv, TypeOK
    <3>2. ASSUME NEW k PROVE Sent(k)' = Sent(k)
      <4>1. \A p \in Requests \X {1, 2} : p[1] = r => ~(p[2] <= sends[p[1]])
        BY <3>1
      <4>2. QED
        BY <3>1, <4>1 DEF Sent
    <3>3. QED
      BY <2>1, <3>1, <3>2 DEF Arrive, SentInv, TypeOK
  <2>2. ASSUME NEW r \in Requests, Incr(r) PROVE SentInv'
    <3>1. \A q \in Requests : Key(q) \in Clients \X Buckets /\ Key(q)' = Key(q)
      BY <2>2, KeyTyped DEF Incr, Key
    <3>2. ASSUME NEW n \in {1, 2}, Counts(r, n),
                 \/ n = 1 /\ Enter(r, "expire")
                 \/ Decide(r, count[Key(r)] + n)
                 \/ Enter(r, "open")
          PROVE  SentInv'
      <4>1. \A k : /\ Cardinality(Sent(k)) \in Nat
                   /\ Cardinality(Sent(k)') = Cardinality(Sent(k))
                                                + (IF k = Key(r) THEN n ELSE 0)
        BY <2>2, <3>1, <3>2, SentFinite, SentGrows DEF Incr, Counts, SentInv
      <4>2. /\ lim[r] = "incr" /\ lim' \in {[lim EXCEPT ![r] = l] :
                                   l \in {"expire", "passed", "limited", "open"}}
            /\ sends' = [sends EXCEPT ![r] = n] /\ rank' = [rank EXCEPT ![r] = count[Key(r)] + n]
            /\ count' = [count EXCEPT ![Key(r)] = count[Key(r)] + n]
            /\ lim'[r] = "limited" => count[Key(r)] + n > Limit
            /\ count[Key(r)] \in Nat
        BY <2>2, <3>1, <3>2 DEF Incr, Counts, Decide, TypeOK, WindowAssumption
      <4>3. \A q \in Requests : lim'[q] \in {"arriving", "incr"} => sends'[q] = 0
        BY <4>2 DEF SentInv, TypeOK
      <4>4. \A k \in Clients \X Buckets : count'[k] <= Cardinality(Sent(k)')
        BY <3>1, <4>1, <4>2 DEF SentInv, TypeOK
      <4>5. ASSUME NEW q \in Requests, NEW k \in Clients \X Buckets,
                   lim'[q] \in {"expire", "limited"}, Key(q)' = k
            PROVE  rank'[q] <= Cardinality(Sent(k)')
        <5>0. Key(q) = k
          BY <3>1, <4>5
        <5>1. CASE q = r
          BY <3>1, <4>1, <4>2, <5>0, <5>1 DEF SentInv, TypeOK
        <5>2. CASE q # r
          BY <4>1, <4>2, <4>5, <5>0, <5>2 DEF SentInv, TypeOK
        <5>3. QED
          BY <5>1, <5>2
      <4>6. \A q \in Requests : lim'[q] = "limited" => rank'[q] > Limit
        BY <4>2 DEF SentInv, TypeOK
      <4>7. QED
        BY ONLY <4>3, <4>4, <4>5, <4>6 DEF SentInv
    <3>3. CASE Enter(r, "open") /\ UNCHANGED <<count, rank, sends>>
      <4>1. \A k : Sent(k)' = Sent(k)
        BY <3>1, <3>3 DEF Sent
      <4>2. QED
        BY <2>2, <3>1, <3>3, <4>1 DEF Incr, SentInv, TypeOK
    <3>4. QED
      BY <2>2, <3>2, <3>3 DEF Incr
  <2>3. ASSUME NEW r \in Requests, Expire(r) PROVE SentInv'
    <3>1. \A q \in Requests : Key(q)' = Key(q)
      BY <2>3 DEF Expire, Key
    <3>2. \A k : Sent(k)' = Sent(k)
      BY <2>3, <3>1 DEF Sent, Expire
    <3>3. /\ lim[r] = "expire" /\ lim' \in {[lim EXCEPT ![r] = l] : l \in {"passed", "limited"}}
          /\ lim'[r] = "limited" => rank[r] > Limit
          /\ UNCHANGED <<count, rank, sends>>
      <4>1. rank[r] \in Nat /\ Limit \in Nat /\ DOMAIN lim = Requests
        BY DEF TypeOK, WindowAssumption
      <4>2. CASE rank[r] <= Limit
        BY <2>3, <4>1, <4>2 DEF Expire, Decide
      <4>3. CASE rank[r] > Limit
        BY <2>3, <4>1, <4>3 DEF Expire, Decide
      <4>4. QED
        BY <4>1, <4>2, <4>3
    <3>4. /\ \A q \in Requests : lim'[q] \in {"arriving", "incr"} => sends'[q] = 0
          /\ \A q \in Requests : lim'[q] = "limited" => rank'[q] > Limit
      BY <3>3 DEF SentInv, TypeOK
    <3>5. ASSUME NEW q \in Requests, NEW k \in Clients \X Buckets,
                 lim'[q] \in {"expire", "limited"}, Key(q)' = k
          PROVE  rank'[q] <= Cardinality(Sent(k)')
      <4>1. Key(q) = k /\ lim[q] \in {"expire", "limited"}
        BY <3>1, <3>3, <3>5 DEF TypeOK
      <4>2. QED
        BY <3>2, <3>3, <4>1 DEF SentInv
    <3>6. \A k \in Clients \X Buckets : count'[k] <= Cardinality(Sent(k)')
      BY <3>2, <3>3 DEF SentInv
    <3>7. QED
      BY ONLY <3>4, <3>5, <3>6 DEF SentInv
  <2>4. ASSUME Tick PROVE SentInv'
    <3>1. \A q \in Requests : Key(q)' = Key(q)
      BY <2>4 DEF Tick, Key
    <3>2. \A k : Sent(k)' = Sent(k) /\ Cardinality(Sent(k)) \in Nat
      BY <2>4, <3>1, SentFinite DEF Sent, Tick
    <3>3. QED
      BY <2>4, <3>1, <3>2 DEF Tick, SentInv, TypeOK
  <2>5. ASSUME UNCHANGED <<now, limvars>> PROVE SentInv'
    <3>1. /\ \A k : Sent(k)' = Sent(k)
          /\ \A q \in Requests : Key(q)' = Key(q)
      BY <2>5 DEF limvars, Sent, Key
    <3>2. QED
      BY <2>5, <3>1 DEF limvars, SentInv
  <2>6. QED
    BY <2>1, <2>2, <2>3, <2>4, <2>5 DEF Next, Handle
<1>3. QED
  BY <1>1, <1>2, LimiterTypes, PTL DEF Spec

\* A request that is refused was one of more than Limit in its own window.
THEOREM NobodyLockedOut ==
  ASSUME WindowAssumption, IsFiniteSet(Requests) PROVE Spec => []NoLockout
<1>1. TypeOK /\ SentInv => NoLockout
  <2> SUFFICES ASSUME TypeOK, SentInv, NEW r \in Requests, lim[r] = "limited"
               PROVE  Cardinality({p \in Requests \X {1, 2} :
                                     SameWindow(p[1], r) /\ p[2] <= sends[p[1]]}) > Limit
    BY DEF NoLockout
  <2>1. Sent(Key(r)) = {p \in Requests \X {1, 2} : SameWindow(p[1], r) /\ p[2] <= sends[p[1]]}
    BY DEF Sent, Key, SameWindow
  <2>2. Cardinality(Sent(Key(r))) \in Nat
    BY SentFinite
  <2>3. rank[r] > Limit /\ rank[r] <= Cardinality(Sent(Key(r)))
    BY KeyTyped DEF SentInv
  <2>4. Cardinality(Sent(Key(r))) > Limit
    BY <2>2, <2>3 DEF TypeOK, WindowAssumption
  <2>5. QED
    BY <2>1, <2>4
<1>2. QED
  BY <1>1, LimiterTypes, CountsTruthful, PTL
=============================================================================
