-------------------------- MODULE HmacNonceProofs --------------------------
(* RequireHMAC hands a message to its handler once, for any numbers of      *)
(* messages and deliveries and any times that satisfy WindowCovered; the    *)
(* staff boundary and the limiter keep their promises beside it.            *)
EXTENDS Middleware, FiniteSetTheorems, TLAPS

\* Clocks, nonce expiries and positions keep their types.
THEOREM NonceTypes == Spec => []TypeOK
<1> USE TicksAssumption DEF TypeOK, Answers, Goto
<1>1. Init => TypeOK
  BY DEF Init
<1>2. TypeOK /\ [Next]_vars => TypeOK'
  <2> SUFFICES ASSUME TypeOK, [Next]_vars PROVE TypeOK'
    OBVIOUS
  <2>1. ASSUME NEW m \in Messages, NEW t \in (now - MaxSkew)..(now + MaxSkew), Sign(m, t)
        PROVE  TypeOK'
    BY <2>1 DEF Sign
  <2>2. ASSUME NEW d \in Deliveries, CheckAge(d) PROVE TypeOK'
    BY <2>2 DEF CheckAge
  <2>3. ASSUME NEW d \in Deliveries, SetNonce(d) PROVE TypeOK'
    BY <2>3 DEF SetNonce
  <2>4. ASSUME NEW d \in Deliveries, Verify(d) PROVE TypeOK'
    BY <2>4 DEF Verify
  <2>5. ASSUME Tick PROVE TypeOK'
    BY <2>5 DEF Tick
  <2>6. ASSUME UNCHANGED vars PROVE TypeOK'
    BY <2>6 DEF vars
  <2>7. QED
    BY <2>1, <2>2, <2>3, <2>4, <2>5, <2>6 DEF Next
<1>3. QED
  BY <1>1, <1>2, PTL DEF Spec

\* A delivery between its age check and its SET is within the window, whatever
\* the constants are.
THEOREM WindowSafe == Spec => []WindowInv
<1> USE TicksAssumption DEF Goto
<1>1. Init => WindowInv
  BY DEF Init, WindowInv
<1>2. TypeOK /\ WindowInv /\ [Next]_vars => WindowInv'
  <2> SUFFICES ASSUME TypeOK, WindowInv, [Next]_vars PROVE WindowInv'
    OBVIOUS
  <2> USE DEF WindowInv, TypeOK
  <2>1. ASSUME NEW m \in Messages, NEW t \in (now - MaxSkew)..(now + MaxSkew), Sign(m, t)
        PROVE  WindowInv'
    BY <2>1 DEF Sign
  <2>2. ASSUME NEW d \in Deliveries, CheckAge(d) PROVE WindowInv'
    BY <2>2 DEF CheckAge, TooOld, TooEarly, Ahead, Answers
  <2>3. ASSUME NEW d \in Deliveries, SetNonce(d) PROVE WindowInv'
    BY <2>3 DEF SetNonce
  <2>4. ASSUME NEW d \in Deliveries, Verify(d) PROVE WindowInv'
    BY <2>4 DEF Verify
  <2>5. ASSUME Tick PROVE WindowInv'
    BY <2>5 DEF Tick
  <2>6. ASSUME UNCHANGED vars PROVE WindowInv'
    BY <2>6 DEF vars
  <2>7. QED
    BY <2>1, <2>2, <2>3, <2>4, <2>5, <2>6 DEF Next
<1>3. QED
  BY <1>1, <1>2, NonceTypes, PTL DEF Spec

\* When a delivery looks for its nonce: the arithmetic of the window.
LEMMA TriesInWindow ==
  ASSUME TypeOK, WindowInv, NEW d \in Deliveries, pc[d] = "nonce"
  PROVE  /\ stamp[msg[d]] \in Int /\ expiry[msg[d]] \in Nat
         /\ now \in Nat /\ Ahead \in Nat
         /\ stamp[msg[d]] - Ahead <= now
         /\ now <= stamp[msg[d]] + MaxAge + MaxDelay
<1>1. Ahead \in Nat
  BY TicksAssumption DEF Ahead
<1>2. /\ expiry[msg[d]] \in Nat /\ stamp[msg[d]] \in Int
      /\ checked[d] \in Nat /\ now \in Nat
  BY DEF TypeOK
<1>3. checked[d] - stamp[msg[d]] \in (-Ahead)..MaxAge /\ now - checked[d] \in 0..MaxDelay
  BY DEF WindowInv
<1>4. QED
  BY <1>1, <1>2, <1>3, TicksAssumption

\* A delivery that is about to look for its nonce finds it, if another delivery
\* of the message recorded it.
LEMMA WindowHolds ==
  ASSUME WindowCovered, TypeOK, WindowInv, NonceInv,
         NEW d \in Deliveries, NEW e \in Deliveries,
         pc[d] \in {"verify", "handled"}, pc[e] = "nonce", msg[d] = msg[e]
  PROVE  Held(msg[d])
<1>1. expiry[msg[d]] >= stamp[msg[d]] - Ahead + NonceTTL
  BY DEF NonceInv
<1>2. QED
  BY <1>1, TriesInWindow, TicksAssumption DEF Held, WindowCovered, Span

\* The window is covered in every behaviour, and nobody passes twice.
THEOREM NonceSafe == ASSUME WindowCovered PROVE Spec => []NonceInv
<1> USE TicksAssumption DEF Goto
<1>1. Init => NonceInv
  BY DEF Init, NonceInv
<1>2. TypeOK /\ WindowInv /\ NonceInv /\ [Next]_vars => NonceInv'
  <2> SUFFICES ASSUME TypeOK, WindowInv, NonceInv, [Next]_vars PROVE NonceInv'
    OBVIOUS
  <2>1. ASSUME NEW m \in Messages, NEW t \in (now - MaxSkew)..(now + MaxSkew), Sign(m, t)
        PROVE  NonceInv'
    BY <2>1 DEF Sign, NonceInv, WindowInv, TypeOK
  <2>2. ASSUME NEW d \in Deliveries, CheckAge(d) PROVE NonceInv'
    BY <2>2 DEF CheckAge, NonceInv, TypeOK, Answers
  <2>3. ASSUME NEW d \in Deliveries, SetNonce(d) PROVE NonceInv'
    <3>1. pc[d] = "nonce" /\ UNCHANGED <<now, signed, stamp, msg, checked>>
      BY <2>3 DEF SetNonce
    <3>2. CASE expiry' = expiry /\ pc' \in {[pc EXCEPT ![d] = "replayed"],
                                            [pc EXCEPT ![d] = "unavailable"]}
      BY <3>1, <3>2 DEF NonceInv, TypeOK
    <3>3. CASE ~Held(msg[d]) /\ expiry' = [expiry EXCEPT ![msg[d]] = now + NonceTTL]
      <4>1. \A e \in Deliveries : msg[e] = msg[d] => pc[e] \notin {"verify", "handled"}
        BY <3>1, <3>3, WindowHolds
      <4>2. pc' \in {[pc EXCEPT ![d] = "verify"], [pc EXCEPT ![d] = "replayed"],
                     [pc EXCEPT ![d] = "unavailable"]}
        BY <2>3, <3>3 DEF SetNonce, TypeOK
      <4>3. now + NonceTTL >= stamp[msg[d]] - Ahead + NonceTTL
        BY <3>1, TriesInWindow
      <4>4. QED
        BY <3>1, <3>3, <4>1, <4>2, <4>3 DEF NonceInv, TypeOK
    <3>4. QED
      BY <2>3, <3>2, <3>3 DEF SetNonce
  <2>4. ASSUME NEW d \in Deliveries, Verify(d) PROVE NonceInv'
    BY <2>4 DEF Verify, NonceInv, TypeOK
  <2>5. ASSUME Tick PROVE NonceInv'
    BY <2>5 DEF Tick, NonceInv, TypeOK
  <2>6. ASSUME UNCHANGED vars PROVE NonceInv'
    BY <2>6 DEF vars, NonceInv
  <2>7. QED
    BY <2>1, <2>2, <2>3, <2>4, <2>5, <2>6 DEF Next
<1>3. QED
  BY <1>1, <1>2, NonceTypes, WindowSafe, PTL DEF Spec

\* A stamp or a redemption that was signed once is handled once.
THEOREM MessageHandledOnce == ASSUME WindowCovered PROVE Spec => []HandledOnce
<1>1. NonceInv => HandledOnce
  BY DEF NonceInv, HandledOnce
<1>2. QED
  BY <1>1, NonceSafe, PTL

\* The nonce is there for as long as a delivery of its message may look for it.
THEOREM WindowKept == ASSUME WindowCovered PROVE Spec => []NonceOutlivesWindow
<1>1. TypeOK /\ WindowInv /\ NonceInv => NonceOutlivesWindow
  BY WindowHolds DEF NonceOutlivesWindow
<1>2. QED
  BY <1>1, NonceTypes, WindowSafe, NonceSafe, PTL
-----------------------------------------------------------------------------
(* What the nonce is worth when it is too short.                               *)

\* The deliveries of m that found no nonce.
PassedOf(m) == {d \in Deliveries : pc[d] \in {"verify", "handled"} /\ msg[d] = m}

\* A message is handled once, and once more for each time its nonce can expire
\* while it may still pass.
HandledBounded ==
  \A m \in Messages :
    Cardinality({d \in Deliveries : pc[d] = "handled" /\ msg[d] = m}) <= 1 + (Span \div NonceTTL)

\* Each delivery that passed found the nonce of the one before it expired, so it
\* pushed the expiry on by a whole TTL; and none sets it after the window.
PassInv ==
  \A m \in Messages :
    LET n == Cardinality(PassedOf(m)) IN
    /\ IsFiniteSet(PassedOf(m))
    /\ n # 0 => /\ expiry[m] >= stamp[m] - Ahead + n * NonceTTL
                /\ expiry[m] <= stamp[m] + MaxAge + MaxDelay + NonceTTL

\* A step that lets nobody pass and sets no nonce.
LEMMA NobodyPasses ==
  ASSUME PassInv, NEW m \in Messages,
         PassedOf(m)' = PassedOf(m), expiry'[m] = expiry[m],
         stamp'[m] = stamp[m] \/ PassedOf(m) = {}
  PROVE  /\ IsFiniteSet(PassedOf(m)')
         /\ Cardinality(PassedOf(m)') # 0 =>
              /\ expiry'[m] >= stamp'[m] - Ahead + Cardinality(PassedOf(m)') * NonceTTL
              /\ expiry'[m] <= stamp'[m] + MaxAge + MaxDelay + NonceTTL
<1>1. CASE PassedOf(m) = {}
  BY <1>1, FS_EmptySet
<1>2. CASE stamp'[m] = stamp[m]
  BY <1>2 DEF PassInv
<1>3. QED
  BY <1>1, <1>2

\* The recurrence, for any numbers of ticks and of deliveries.
THEOREM PassesApart == Spec => []PassInv
<1> USE TicksAssumption DEF Goto
<1>1. Init => PassInv
  <2>1. ASSUME Init, NEW m \in Messages PROVE PassedOf(m) = {}
    BY <2>1 DEF Init, PassedOf
  <2>2. QED
    BY <2>1, FS_EmptySet DEF PassInv
<1>2. TypeOK /\ WindowInv /\ PassInv /\ [Next]_vars => PassInv'
  <2> SUFFICES ASSUME TypeOK, WindowInv, PassInv, [Next]_vars PROVE PassInv'
    OBVIOUS
  <2> DEFINE Still == \A m \in Messages :
               /\ PassedOf(m)' = PassedOf(m) /\ expiry'[m] = expiry[m]
               /\ stamp'[m] = stamp[m] \/ PassedOf(m) = {}
  <2>0. ASSUME Still PROVE PassInv'
    BY <2>0, NobodyPasses DEF PassInv
  <2>1. ASSUME NEW m \in Messages, NEW t \in (now - MaxSkew)..(now + MaxSkew), Sign(m, t)
        PROVE  PassInv'
    <3>1. Still
      BY <2>1 DEF Sign, PassedOf, WindowInv, TypeOK
    <3>2. QED
      BY <2>0, <3>1
  <2>2. ASSUME NEW d \in Deliveries, CheckAge(d) PROVE PassInv'
    <3>1. Still
      BY <2>2 DEF CheckAge, PassedOf, TypeOK
    <3>2. QED
      BY <2>0, <3>1
  <2>3. ASSUME NEW d \in Deliveries, SetNonce(d) PROVE PassInv'
    <3>1. /\ pc[d] = "nonce" /\ UNCHANGED <<now, signed, stamp, msg, checked>>
          /\ msg[d] \in Messages /\ expiry \in [Messages -> Nat]
          /\ pc \in [Deliveries -> {"new", "nonce", "verify"} \cup Answers]
      BY <2>3 DEF SetNonce, TypeOK
    <3>2. CASE expiry' = expiry /\ pc' \in {[pc EXCEPT ![d] = "replayed"],
                                            [pc EXCEPT ![d] = "unavailable"]}
      <4>1. Still
        BY <3>1, <3>2 DEF PassedOf
      <4>2. QED
        BY <2>0, <4>1
    <3>3. CASE ~Held(msg[d]) /\ expiry' = [expiry EXCEPT ![msg[d]] = now + NonceTTL]
      <4>a. PICK m \in Messages : m = msg[d]
        BY <3>1
      <4> DEFINE n == Cardinality(PassedOf(m))
      <4>0. pc' \in {[pc EXCEPT ![d] = "verify"], [pc EXCEPT ![d] = "replayed"],
                     [pc EXCEPT ![d] = "unavailable"]}
        BY <2>3, <3>3 DEF SetNonce, TypeOK
      <4>1. ASSUME NEW i \in Messages, i # m
            PROVE  PassedOf(i)' = PassedOf(i) /\ expiry'[i] = expiry[i] /\ stamp'[i] = stamp[i]
        BY <3>1, <3>3, <4>a, <4>0, <4>1 DEF PassedOf
      <4>2. PassedOf(m)' = IF pc'[d] = "verify" THEN PassedOf(m) \cup {d} ELSE PassedOf(m)
        BY <3>1, <4>a, <4>0 DEF PassedOf
      <4>3. IsFiniteSet(PassedOf(m)) /\ n \in Nat /\ d \notin PassedOf(m)
        BY <3>1, <4>a, FS_CardinalityType DEF PassInv, PassedOf
      <4>4. /\ IsFiniteSet(PassedOf(m)')
            /\ Cardinality(PassedOf(m)') \in {n, n + 1}
        BY <4>2, <4>3, FS_AddElement
      <4>5. /\ stamp[m] \in Int /\ expiry[m] \in Nat /\ now \in Nat /\ Ahead \in Nat
            /\ stamp[m] - Ahead <= now /\ now <= stamp[m] + MaxAge + MaxDelay
        BY <3>1, <4>a, TriesInWindow
      <4>6. expiry'[m] = now + NonceTTL /\ expiry[m] <= now
        BY <3>1, <3>3, <4>a, <4>5 DEF Held
      <4>7. now >= stamp[m] - Ahead + n * NonceTTL
        <5>1. CASE n = 0
          BY <4>5, <5>1
        <5>2. CASE n # 0
          <6>1. expiry[m] >= stamp[m] - Ahead + n * NonceTTL
            BY <3>1, <5>2 DEF PassInv
          <6>2. n * NonceTTL \in Nat
            BY <4>3
          <6>3. QED
            BY <4>5, <4>6, <6>1, <6>2
        <5>3. QED
          BY <5>1, <5>2
      <4>8. \A k \in {n, n + 1} : k * NonceTTL \in Nat /\ k * NonceTTL <= n * NonceTTL + NonceTTL
        BY <4>3
      <4> HIDE DEF n
      <4>9. n * NonceTTL \in Nat
        BY <4>3
      <4>10. /\ expiry'[m] >= stamp'[m] - Ahead + Cardinality(PassedOf(m)') * NonceTTL
             /\ expiry'[m] <= stamp'[m] + MaxAge + MaxDelay + NonceTTL
        BY <3>1, <4>4, <4>5, <4>6, <4>7, <4>8, <4>9
      <4>11. ASSUME NEW i \in Messages
             PROVE  /\ IsFiniteSet(PassedOf(i)')
                    /\ Cardinality(PassedOf(i)') # 0 =>
                         /\ expiry'[i] >= stamp'[i] - Ahead + Cardinality(PassedOf(i)') * NonceTTL
                         /\ expiry'[i] <= stamp'[i] + MaxAge + MaxDelay + NonceTTL
        <5>1. CASE i = m
          BY <4>4, <4>10, <5>1
        <5>2. CASE i # m
          BY <4>1, <5>2, NobodyPasses
        <5>3. QED
          BY <5>1, <5>2
      <4>12. QED
        BY <4>11 DEF PassInv
    <3>4. QED
      BY <2>3, <3>2, <3>3 DEF SetNonce
  <2>4. ASSUME NEW d \in Deliveries, Verify(d) PROVE PassInv'
    <3>1. ASSUME NEW m \in Messages
          PROVE  PassedOf(m)' \subseteq PassedOf(m) /\ expiry'[m] = expiry[m] /\ stamp'[m] = stamp[m]
      BY <2>4 DEF Verify, PassedOf, TypeOK
    <3>2. ASSUME NEW m \in Messages
          PROVE  /\ IsFiniteSet(PassedOf(m)')
                 /\ Cardinality(PassedOf(m)') # 0 =>
                      /\ expiry'[m] >= stamp'[m] - Ahead + Cardinality(PassedOf(m)') * NonceTTL
                      /\ expiry'[m] <= stamp'[m] + MaxAge + MaxDelay + NonceTTL
      <4> DEFINE n == Cardinality(PassedOf(m))
                 k == Cardinality(PassedOf(m)')
      <4>1. IsFiniteSet(PassedOf(m)') /\ n \in Nat /\ k \in Nat /\ k <= n
        BY <3>1, FS_Subset, FS_CardinalityType DEF PassInv
      <4>2. k * NonceTTL <= n * NonceTTL /\ k * NonceTTL \in Nat /\ n * NonceTTL \in Nat
        BY <4>1
      <4>3. expiry[m] \in Nat /\ stamp[m] \in Int /\ Ahead \in Nat
        BY DEF TypeOK, Ahead
      <4>4. n # 0 => /\ expiry[m] >= stamp[m] - Ahead + n * NonceTTL
                    /\ expiry[m] <= stamp[m] + MaxAge + MaxDelay + NonceTTL
        BY DEF PassInv
      <4> HIDE DEF n, k
      <4>5. QED
        BY <3>1, <4>1, <4>2, <4>3, <4>4 DEF k
    <3>3. QED
      BY <3>2 DEF PassInv
  <2>5. ASSUME Tick PROVE PassInv'
    <3>1. Still
      BY <2>5 DEF Tick, PassedOf
    <3>2. QED
      BY <2>0, <3>1
  <2>6. ASSUME UNCHANGED vars PROVE PassInv'
    <3>1. Still
      BY <2>6 DEF vars, PassedOf
    <3>2. QED
      BY <2>0, <3>1
  <2>7. QED
    BY <2>1, <2>2, <2>3, <2>4, <2>5, <2>6 DEF Next
<1>3. QED
  BY <1>1, <1>2, NonceTypes, WindowSafe, PTL DEF Spec

\* What fits into a span, less one, fits into it after division.
LEMMA DivBounds ==
  ASSUME NEW n \in Nat, NEW t \in Nat \ {0}, NEW x \in Nat, n * t <= x + t
  PROVE  n <= 1 + (x \div t)
<1> DEFINE q == x \div t
<1>1. q \in Nat /\ x < (q + 1) * t
  OBVIOUS
<1> HIDE DEF q
<1>2. SUFFICES ASSUME n >= q + 2 PROVE FALSE
  BY <1>1 DEF q
<1>3. n * t >= (q + 2) * t
  BY <1>1, <1>2
<1>4. (q + 2) * t = (q + 1) * t + t
  BY <1>1
<1>5. n * t \in Nat /\ (q + 1) * t \in Nat
  BY <1>1
<1>6. QED
  BY <1>1, <1>3, <1>4, <1>5

\* No message is handled more often than its nonce can expire in its window, for
\* any TTL: with the code's, at most twice, whatever the client's clock says.
THEOREM HandledSeldom == ASSUME NonceTTL # 0 PROVE Spec => []HandledBounded
<1>1. TypeOK /\ PassInv => HandledBounded
  <2> SUFFICES ASSUME TypeOK, PassInv, NEW m \in Messages
               PROVE  Cardinality({d \in Deliveries : pc[d] = "handled" /\ msg[d] = m})
                        <= 1 + (Span \div NonceTTL)
    BY DEF HandledBounded
  <2> DEFINE H == {d \in Deliveries : pc[d] = "handled" /\ msg[d] = m}
             n == Cardinality(PassedOf(m))
  <2>1. H \subseteq PassedOf(m) /\ IsFiniteSet(PassedOf(m))
    BY DEF PassedOf, PassInv
  <2>2. Cardinality(H) \in Nat /\ n \in Nat /\ Cardinality(H) <= n
    BY <2>1, FS_Subset, FS_CardinalityType
  <2>3. Span \in Nat /\ Ahead \in Nat /\ (Span \div NonceTTL) \in Nat
    BY TicksAssumption DEF Span, Ahead
  <2>4. n <= 1 + (Span \div NonceTTL)
    <3>1. CASE n = 0
      BY <2>3, <3>1
    <3>2. CASE n # 0
      <4>1. n * NonceTTL \in Nat /\ stamp[m] \in Int /\ expiry[m] \in Nat
        BY <2>2, TicksAssumption DEF TypeOK
      <4>2. /\ expiry[m] >= stamp[m] - Ahead + n * NonceTTL
            /\ expiry[m] <= stamp[m] + MaxAge + MaxDelay + NonceTTL
        BY <3>2 DEF PassInv
      <4> HIDE DEF n
      <4>3. n * NonceTTL <= Span + NonceTTL
        BY <2>3, <4>1, <4>2, TicksAssumption DEF Span
      <4>4. QED
        BY <2>2, <2>3, <4>3, DivBounds, TicksAssumption
    <3>3. QED
      BY <3>1, <3>2
  <2>5. QED
    BY <2>2, <2>3, <2>4
<1>2. QED
  BY <1>1, NonceTypes, PassesApart, PTL
-----------------------------------------------------------------------------
(* The staff boundary S, for any accounts, lifetimes and delays.               *)

\* Accounts, tokens and positions keep their types.
THEOREM StaffTypes == S!Spec => []S!TypeOK
<1> USE BoundaryAssumption DEF S!StaffAssumption, S!TypeOK, S!Token, S!Never
<1>1. S!Init => S!TypeOK
  BY DEF S!Init
<1>2. S!TypeOK /\ [S!Next]_S!vars => S!TypeOK'
  <2> SUFFICES ASSUME S!TypeOK, [S!Next]_S!vars PROVE S!TypeOK'
    OBVIOUS
  <2>1. ASSUME NEW l \in Logins, S!LookUp(l) PROVE S!TypeOK'
    BY <2>1 DEF S!LookUp
  <2>2. ASSUME NEW l \in Logins, S!Issue(l) PROVE S!TypeOK'
    BY <2>2 DEF S!Issue, S!Pair
  <2>3. ASSUME NEW s \in Staff, S!Deactivate(s) PROVE S!TypeOK'
    BY <2>3 DEF S!Deactivate
  <2>4. ASSUME NEW r \in Reads, S!CheckRevoked(r) PROVE S!TypeOK'
    BY <2>4 DEF S!CheckRevoked
  <2>5. ASSUME NEW r \in Reads, NEW t \in tokens \cup {S!CustomerToken}, S!RequireStaffAuth(r, t)
        PROVE  S!TypeOK'
    BY <2>5 DEF S!RequireStaffAuth, S!StaffToken, S!CustomerToken
  <2>6. ASSUME S!Tick PROVE S!TypeOK'
    BY <2>6 DEF S!Tick
  <2>7. ASSUME UNCHANGED S!vars PROVE S!TypeOK'
    BY <2>7 DEF S!vars
  <2>8. QED
    BY <2>1, <2>2, <2>3, <2>4, <2>5, <2>6, <2>7 DEF S!Next
<1>3. QED
  BY <1>1, <1>2, PTL DEF S!Spec

\* No token outlives the deactivation of its account by more than a login's delay
\* and an access token's life, and only tokens of staff are let through.
THEOREM TokensShort == S!Spec => []S!StaffInv
<1> USE BoundaryAssumption DEF S!StaffAssumption, S!TypeOK, S!Token, S!Never, S!StaffInv, S!Active
<1>1. S!Init => S!StaffInv
  BY DEF S!Init
<1>2. S!TypeOK /\ S!StaffInv /\ [S!Next]_S!vars => S!StaffInv'
  <2> SUFFICES ASSUME S!TypeOK, S!StaffInv, [S!Next]_S!vars PROVE S!StaffInv'
    OBVIOUS
  <2>1. ASSUME NEW l \in Logins, S!LookUp(l) PROVE S!StaffInv'
    BY <2>1 DEF S!LookUp
  <2>2. ASSUME NEW l \in Logins, S!Issue(l) PROVE S!StaffInv'
    BY <2>2 DEF S!Issue, S!Pair
  <2>3. ASSUME NEW s \in Staff, S!Deactivate(s) PROVE S!StaffInv'
    BY <2>3 DEF S!Deactivate
  <2>4. ASSUME NEW r \in Reads, S!CheckRevoked(r) PROVE S!StaffInv'
    BY <2>4 DEF S!CheckRevoked
  <2>5. ASSUME NEW r \in Reads, NEW t \in tokens \cup {S!CustomerToken}, S!RequireStaffAuth(r, t)
        PROVE  S!StaffInv'
    BY <2>5 DEF S!RequireStaffAuth, S!StaffToken, S!CustomerToken
  <2>6. ASSUME S!Tick PROVE S!StaffInv'
    BY <2>6 DEF S!Tick
  <2>7. ASSUME UNCHANGED S!vars PROVE S!StaffInv'
    BY <2>7 DEF S!vars
  <2>8. QED
    BY <2>1, <2>2, <2>3, <2>4, <2>5, <2>6, <2>7 DEF S!Next
<1>3. QED
  BY <1>1, <1>2, StaffTypes, PTL DEF S!Spec

\* In the sum the boundary does what its own specification allows.
LEMMA BoundaryImplements == SumSpec => S!Spec
<1>1. SumInit => S!Init
  BY DEF SumInit
<1>2. [SumNext]_<<vars, limiter, staff>> => [S!Next]_S!vars
  BY DEF SumNext, staff, S!vars
<1>3. QED
  BY <1>1, <1>2, PTL DEF SumSpec, S!Spec

\* The accounts, logins and tokens of staff keep their types.
THEOREM BoundaryTyped == SumSpec => []StaffTypeOK
<1>1. S!TypeOK => StaffTypeOK
  BY DEF StaffTypeOK
<1>2. QED
  BY <1>1, BoundaryImplements, StaffTypes, PTL

\* A deactivated member of staff is kept out within a bounded time, though
\* nothing is ever revoked.
THEOREM BoundaryKept == SumSpec => []StaffBounded
<1>1. S!StaffInv => StaffBounded
  BY DEF S!StaffInv, S!StaffBounded, StaffBounded
<1>2. QED
  BY <1>1, BoundaryImplements, TokensShort, PTL
-----------------------------------------------------------------------------
(* The limiter, as Middleware holds it: what RateLimitProofs proves of its own *)
(* specification holds in the sum.  L and R are instances of the same          *)
(* definitions, which become the same formulas when they are expanded.         *)
R == INSTANCE RateLimitProofs WITH Requests <- Deliveries, Horizon <- LimitHorizon, now <- lnow

\* In the sum the limiter does what its own specification allows.
LEMMA LimiterImplements == SumSpec => R!Spec
<1>1. SumInit => R!Init
  BY DEF SumInit, L!Init, R!Init, L!Never, R!Never, L!Buckets, R!Buckets
<1>2. [SumNext]_<<vars, limiter, staff>> => [R!Next]_<<lnow, R!limvars>>
  <2>1. L!Next => R!Next
    BY Zenon DEF L!Next, R!Next, L!Key, R!Key, L!Enter, R!Enter, L!Decide, R!Decide,
                 L!Arrive, R!Arrive, L!Counts, R!Counts, L!Incr, R!Incr, L!Expire,
                 R!Expire, L!Gone, R!Gone, L!Tick, R!Tick, L!Handle, R!Handle, L!Never,
                 R!Never, L!Counted, R!Counted, L!Buckets, R!Buckets
  <2>2. UNCHANGED limiter => UNCHANGED <<lnow, R!limvars>>
    BY DEF limiter, R!limvars
  <2>3. QED
    BY <2>1, <2>2 DEF SumNext, limiter
<1>3. QED
  BY <1>1, <1>2, PTL DEF SumSpec, R!Spec

LEMMA LimiterAssumed == R!WindowAssumption /\ R!DelayCovered
BY LimiterAssumption, LimiterDelayAssumption
DEF L!WindowAssumption, R!WindowAssumption, L!DelayCovered, R!DelayCovered

LEMMA FiniteAssumed == ASSUME IsFiniteSet(Deliveries) PROVE R!IsFiniteSet(Deliveries)
BY DEF IsFiniteSet, R!IsFiniteSet

\* The counters and the requests they count keep their types.
THEOREM LimiterTyped == SumSpec => []LimiterTypeOK
<1>1. R!TypeOK => LimiterTypeOK
  BY DEF LimiterTypeOK, L!TypeOK, R!TypeOK, L!Buckets, R!Buckets, L!Counted, R!Counted, L!Never, R!Never
<1>2. QED
  BY <1>1, LimiterImplements, LimiterAssumed, R!LimiterTypes, PTL

\* In the sum the signing middleware does what its own specification allows.
LEMMA NonceImplements == SumSpec => Spec
<1>1. SumInit => Init
  BY DEF SumInit
<1>2. [SumNext]_<<vars, limiter, staff>> => [Next]_vars
  BY DEF SumNext
<1>3. QED
  BY <1>1, <1>2, PTL DEF SumSpec, Spec

\* The variables of all three keep their types.
THEOREM SumTyped == SumSpec => []SumTypeOK
<1>1. TypeOK /\ LimiterTypeOK /\ StaffTypeOK => SumTypeOK
  BY DEF SumTypeOK
<1>2. QED
  BY <1>1, NonceImplements, NonceTypes, LimiterTyped, BoundaryTyped, PTL

\* No more than Limit requests of an address pass in one window.
THEOREM LimiterKept == SumSpec => []LimitKept
<1>1. R!LimitKept => LimitKept
  BY DEF LimitKept, L!LimitKept, R!LimitKept, L!SameWindow, R!SameWindow, L!Cardinality, R!Cardinality
<1>2. QED
  BY <1>1, LimiterImplements, LimiterAssumed, R!LimitSafe, PTL

\* No more than twice Limit pass in an interval as long as a window.
THEOREM LimiterBursts == SumSpec => []BurstBounded
<1>1. R!BurstBounded => BurstBounded
  BY DEF BurstBounded, L!BurstBounded, R!BurstBounded, L!Cardinality, R!Cardinality
<1>2. QED
  BY <1>1, LimiterImplements, LimiterAssumed, R!BurstSafe, PTL

\* A request is refused on account of its own window only.
THEOREM LimiterFair == ASSUME IsFiniteSet(Deliveries) PROVE SumSpec => []NoLockout
<1>1. R!NoLockout => NoLockout
  BY DEF NoLockout, L!NoLockout, R!NoLockout, L!SameWindow, R!SameWindow, L!Cardinality, R!Cardinality
<1>2. QED
  BY <1>1, LimiterImplements, LimiterAssumed, FiniteAssumed, R!NobodyLockedOut, PTL
=============================================================================
