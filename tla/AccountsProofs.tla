--------------------------- MODULE AccountsProofs ---------------------------
(* Accounts and refresh tokens, for any requests and addresses: types and     *)
(* referential integrity whatever fails, single use of a refresh token that   *)
(* was rotated as long as Redis answers.                                      *)
EXTENDS AccountsStore, TLAPS

\* Every table, key and position keeps its type.
THEOREM AccountTypes == Spec => []TypeOK
<1> USE DEF TypeOK, Customer, Ops, tables, tokens, local, Start, Goto, Finish, Answer
<1>1. Init => TypeOK
  BY DEF Init
<1>2. TypeOK /\ [Next]_vars => TypeOK'
  <2> SUFFICES ASSUME TypeOK, [Next]_vars PROVE TypeOK'
    OBVIOUS
  <2>1. ASSUME NEW h \in Requests, NEW e \in Emails, Register(h, e) PROVE TypeOK'
    BY <2>1 DEF Register
  <2>2. ASSUME NEW h \in Requests, RegisterInsert(h) PROVE TypeOK'
    BY <2>2 DEF RegisterInsert
  <2>3. ASSUME NEW h \in Requests, Login(h) PROVE TypeOK'
    BY <2>3 DEF Login, Live
  <2>4. ASSUME NEW h \in Requests, StoreToken(h) PROVE TypeOK'
    BY <2>4 DEF StoreToken
  <2>5. ASSUME NEW h \in Requests, Rotate(h) PROVE TypeOK'
    BY <2>5 DEF Rotate
  <2>6. ASSUME NEW h \in Requests, Erase(h) PROVE TypeOK'
    BY <2>6 DEF Erase
  <2>7. ASSUME NEW h \in Requests, UseInsert(h) PROVE TypeOK'
    BY <2>7 DEF UseInsert
  <2>8. ASSUME NEW h \in Requests, Revoke(h) PROVE TypeOK'
    BY <2>8 DEF Revoke
  <2>9. ASSUME NEW h \in Requests, ClientGone(h) PROVE TypeOK'
    BY <2>9 DEF ClientGone
  <2>10. ASSUME NEW h \in Requests, NEW t \in Requests, Refresh(h, t) PROVE TypeOK'
    BY <2>10 DEF Refresh
  <2>11. ASSUME NEW h \in Requests, NEW t \in Requests, Logout(h, t) PROVE TypeOK'
    BY <2>11 DEF Logout
  <2>12. ASSUME NEW h \in Requests, NEW t \in Requests, DeleteMe(h, t) PROVE TypeOK'
    BY <2>12 DEF DeleteMe, RequireAuth
  <2>13. ASSUME NEW h \in Requests, NEW t \in Requests, Use(h, t) PROVE TypeOK'
    BY <2>13 DEF Use, RequireAuth
  <2>14. ASSUME NEW t \in refresh, TokenExpires(t) PROVE TypeOK'
    BY <2>14 DEF TokenExpires
  <2>15. ASSUME Crash PROVE TypeOK'
    BY <2>15 DEF Crash, Waiting
  <2>16. ASSUME UNCHANGED vars PROVE TypeOK'
    BY <2>16 DEF vars
  <2>17. QED
    BY <2>1, <2>2, <2>3, <2>4, <2>5, <2>6, <2>7, <2>8, <2>9, <2>10, <2>11, <2>12, <2>13, <2>14, <2>15, <2>16 DEF Next
<1>3. QED
  BY <1>1, <1>2, PTL DEF Spec

\* No row outlives the customer it refers to, whatever fails.
THEOREM IntegritySafe == Spec => []HistoryOwned
<1> USE DEF HistoryOwned, tables, tokens, local, Start, Goto, Finish, Answer
<1>1. Init => HistoryOwned
  BY DEF Init
<1>2. TypeOK /\ HistoryOwned /\ [Next]_vars => HistoryOwned'
  <2> SUFFICES ASSUME TypeOK, HistoryOwned, [Next]_vars PROVE HistoryOwned'
    OBVIOUS
  <2>1. ASSUME NEW h \in Requests, NEW e \in Emails, Register(h, e) PROVE HistoryOwned'
    BY <2>1 DEF Register
  <2>2. ASSUME NEW h \in Requests, RegisterInsert(h) PROVE HistoryOwned'
    BY <2>2 DEF RegisterInsert
  <2>3. ASSUME NEW h \in Requests, Login(h) PROVE HistoryOwned'
    BY <2>3 DEF Login
  <2>4. ASSUME NEW h \in Requests, StoreToken(h) PROVE HistoryOwned'
    BY <2>4 DEF StoreToken
  <2>5. ASSUME NEW h \in Requests, Rotate(h) PROVE HistoryOwned'
    BY <2>5 DEF Rotate
  <2>6. ASSUME NEW h \in Requests, Erase(h) PROVE HistoryOwned'
    BY <2>6 DEF Erase
  <2>7. ASSUME NEW h \in Requests, UseInsert(h) PROVE HistoryOwned'
    BY <2>7 DEF UseInsert, Exists, Live
  <2>8. ASSUME NEW h \in Requests, Revoke(h) PROVE HistoryOwned'
    BY <2>8 DEF Revoke
  <2>9. ASSUME NEW h \in Requests, ClientGone(h) PROVE HistoryOwned'
    BY <2>9 DEF ClientGone
  <2>10. ASSUME NEW h \in Requests, NEW t \in Requests, Refresh(h, t) PROVE HistoryOwned'
    BY <2>10 DEF Refresh
  <2>11. ASSUME NEW h \in Requests, NEW t \in Requests, Logout(h, t) PROVE HistoryOwned'
    BY <2>11 DEF Logout
  <2>12. ASSUME NEW h \in Requests, NEW t \in Requests, DeleteMe(h, t) PROVE HistoryOwned'
    BY <2>12 DEF DeleteMe
  <2>13. ASSUME NEW h \in Requests, NEW t \in Requests, Use(h, t) PROVE HistoryOwned'
    BY <2>13 DEF Use
  <2>14. ASSUME NEW t \in refresh, TokenExpires(t) PROVE HistoryOwned'
    BY <2>14 DEF TokenExpires
  <2>15. ASSUME Crash PROVE HistoryOwned'
    BY <2>15 DEF Crash, Waiting
  <2>16. ASSUME UNCHANGED vars PROVE HistoryOwned'
    BY <2>16 DEF vars
  <2>17. QED
    BY <2>1, <2>2, <2>3, <2>4, <2>5, <2>6, <2>7, <2>8, <2>9, <2>10, <2>11, <2>12, <2>13, <2>14, <2>15, <2>16 DEF Next
<1>3. QED
  BY <1>1, <1>2, AccountTypes, PTL DEF Spec

\* What a request presents was issued to a client by one that has ended.
LEMMA Presented == Spec => []PresentedInv
<1> USE DEF PresentedInv, Issued, tables, tokens, local, Start, Goto, Finish, Answer
<1>1. Init => PresentedInv
  BY DEF Init
<1>2. TypeOK /\ PresentedInv /\ [Next]_vars => PresentedInv'
  <2> SUFFICES ASSUME TypeOK, PresentedInv, [Next]_vars PROVE PresentedInv'
    OBVIOUS
  <2> USE DEF TypeOK
  <2>1. ASSUME NEW h \in Requests, NEW e \in Emails, Register(h, e) PROVE PresentedInv'
    BY <2>1 DEF Register
  <2>2. ASSUME NEW h \in Requests, RegisterInsert(h) PROVE PresentedInv'
    BY <2>2 DEF RegisterInsert
  <2>3. ASSUME NEW h \in Requests, Login(h) PROVE PresentedInv'
    BY <2>3 DEF Login
  <2>4. ASSUME NEW h \in Requests, StoreToken(h) PROVE PresentedInv'
    BY <2>4 DEF StoreToken
  <2>5. ASSUME NEW h \in Requests, Rotate(h) PROVE PresentedInv'
    BY <2>5 DEF Rotate
  <2>6. ASSUME NEW h \in Requests, Erase(h) PROVE PresentedInv'
    BY <2>6 DEF Erase
  <2>7. ASSUME NEW h \in Requests, UseInsert(h) PROVE PresentedInv'
    BY <2>7 DEF UseInsert
  <2>8. ASSUME NEW h \in Requests, Revoke(h) PROVE PresentedInv'
    BY <2>8 DEF Revoke
  <2>9. ASSUME NEW h \in Requests, ClientGone(h) PROVE PresentedInv'
    BY <2>9 DEF ClientGone
  <2>10. ASSUME NEW h \in Requests, NEW t \in Requests, Refresh(h, t) PROVE PresentedInv'
    BY <2>10 DEF Refresh
  <2>11. ASSUME NEW h \in Requests, NEW t \in Requests, Logout(h, t) PROVE PresentedInv'
    BY <2>11 DEF Logout
  <2>12. ASSUME NEW h \in Requests, NEW t \in Requests, DeleteMe(h, t) PROVE PresentedInv'
    BY <2>12 DEF DeleteMe, RequireAuth
  <2>13. ASSUME NEW h \in Requests, NEW t \in Requests, Use(h, t) PROVE PresentedInv'
    BY <2>13 DEF Use, RequireAuth
  <2>14. ASSUME NEW t \in refresh, TokenExpires(t) PROVE PresentedInv'
    BY <2>14 DEF TokenExpires
  <2>15. ASSUME Crash PROVE PresentedInv'
    BY <2>15 DEF Crash, Waiting
  <2>16. ASSUME UNCHANGED vars PROVE PresentedInv'
    BY <2>16 DEF vars
  <2>17. QED
    BY <2>1, <2>2, <2>3, <2>4, <2>5, <2>6, <2>7, <2>8, <2>9, <2>10, <2>11, <2>12, <2>13, <2>14, <2>15, <2>16 DEF Next
<1>3. QED
  BY <1>1, <1>2, AccountTypes, PTL DEF Spec

\* With Redis answering, a token that was rotated or logged out stays dead.
THEOREM SpentSafe == ASSUME "redis" \notin Faults PROVE Spec => []SpentTokenDead
<1> USE DEF SpentTokenDead, RedisFails, tables, tokens, local, Start, Goto, Finish, Answer
<1>1. Init => SpentTokenDead
  BY DEF Init
<1>2. TypeOK /\ PresentedInv /\ SpentTokenDead /\ [Next]_vars => SpentTokenDead'
  <2> SUFFICES ASSUME TypeOK, PresentedInv, SpentTokenDead, [Next]_vars PROVE SpentTokenDead'
    OBVIOUS
  <2> USE DEF TypeOK, PresentedInv, Issued
  <2>1. ASSUME NEW h \in Requests, NEW e \in Emails, Register(h, e) PROVE SpentTokenDead'
    BY <2>1 DEF Register
  <2>2. ASSUME NEW h \in Requests, RegisterInsert(h) PROVE SpentTokenDead'
    BY <2>2 DEF RegisterInsert
  <2>3. ASSUME NEW h \in Requests, Login(h) PROVE SpentTokenDead'
    BY <2>3 DEF Login
  <2>4. ASSUME NEW h \in Requests, StoreToken(h) PROVE SpentTokenDead'
    BY <2>4 DEF StoreToken
  <2>5. ASSUME NEW h \in Requests, Rotate(h) PROVE SpentTokenDead'
    BY <2>5 DEF Rotate
  <2>6. ASSUME NEW h \in Requests, Erase(h) PROVE SpentTokenDead'
    BY <2>6 DEF Erase
  <2>7. ASSUME NEW h \in Requests, UseInsert(h) PROVE SpentTokenDead'
    BY <2>7 DEF UseInsert
  <2>8. ASSUME NEW h \in Requests, Revoke(h) PROVE SpentTokenDead'
    BY <2>8 DEF Revoke
  <2>9. ASSUME NEW h \in Requests, ClientGone(h) PROVE SpentTokenDead'
    BY <2>9 DEF ClientGone
  <2>10. ASSUME NEW h \in Requests, NEW t \in Requests, Refresh(h, t) PROVE SpentTokenDead'
    BY <2>10 DEF Refresh
  <2>11. ASSUME NEW h \in Requests, NEW t \in Requests, Logout(h, t) PROVE SpentTokenDead'
    BY <2>11 DEF Logout
  <2>12. ASSUME NEW h \in Requests, NEW t \in Requests, DeleteMe(h, t) PROVE SpentTokenDead'
    BY <2>12 DEF DeleteMe, RequireAuth
  <2>13. ASSUME NEW h \in Requests, NEW t \in Requests, Use(h, t) PROVE SpentTokenDead'
    BY <2>13 DEF Use, RequireAuth
  <2>14. ASSUME NEW t \in refresh, TokenExpires(t) PROVE SpentTokenDead'
    BY <2>14 DEF TokenExpires
  <2>15. ASSUME Crash PROVE SpentTokenDead'
    BY <2>15 DEF Crash, Waiting
  <2>16. ASSUME UNCHANGED vars PROVE SpentTokenDead'
    BY <2>16 DEF vars
  <2>17. QED
    BY <2>1, <2>2, <2>3, <2>4, <2>5, <2>6, <2>7, <2>8, <2>9, <2>10, <2>11, <2>12, <2>13, <2>14, <2>15, <2>16 DEF Next
<1>3. QED
  BY <1>1, <1>2, AccountTypes, Presented, PTL DEF Spec

\* Only Refresh makes a request one that refreshes.
LEMMA RefreshBegins ==
  ASSUME TypeOK, PresentedInv, [Next]_vars, NEW h \in Requests,
         pc[h] = "new", op'[h] = "refresh"
  PROVE  \E t \in Requests : Refresh(h, t)
<1> USE DEF local, Start, Answer
<1>0. op \in [Requests -> Ops] /\ op[h] = "none"
  BY DEF TypeOK, PresentedInv
<1>1. ASSUME NEW g \in Requests, Login(g) \/ \E e \in Emails : Register(g, e) PROVE FALSE
  BY <1>0, <1>1 DEF Register, Login
<1>2. ASSUME NEW g \in Requests, NEW t \in Requests, Logout(g, t) \/ DeleteMe(g, t) \/ Use(g, t)
      PROVE  FALSE
  BY <1>0, <1>2 DEF Logout, DeleteMe, Use
<1>3. ASSUME NEW g \in Requests, NEW t \in Requests, Refresh(g, t) PROVE g = h
  BY <1>0, <1>3 DEF Refresh
<1>4. ASSUME UNCHANGED op PROVE FALSE
  BY <1>0, <1>4
<1>5. QED
  BY <1>1, <1>2, <1>3, <1>4 DEF Next, vars, RegisterInsert, StoreToken, Rotate, Erase, UseInsert,
     Revoke, ClientGone, TokenExpires, Crash

\* A refresh that comes after another use of its token is past its DEL is refused.
THEOREM LateRefused == ASSUME "redis" \notin Faults PROVE Spec => LateRefreshRefused
<1> DEFINE Late(g, h) ==
      /\ op[g] \in {"refresh", "logout"} /\ pc[g] \in {"store", "done"} /\ g \notin gone
      /\ pc[h] = "new" /\ op'[h] = "refresh" /\ tok'[h] = tok[g]
<1>1. TypeOK /\ PresentedInv /\ SpentTokenDead /\ [Next]_vars
        => [\A g, h \in Requests : Late(g, h) => reply'[h] = "denied"]_vars
  <2> SUFFICES ASSUME TypeOK, PresentedInv, SpentTokenDead, [Next]_vars,
                      NEW g \in Requests, NEW h \in Requests, Late(g, h)
               PROVE  reply'[h] = "denied"
    OBVIOUS
  <2>1. tok[g] \notin refresh
    BY DEF SpentTokenDead
  <2>2. PICK t \in Requests : Refresh(h, t)
    BY RefreshBegins
  <2>3. t = tok[g]
    BY <2>2 DEF Refresh, TypeOK
  <2>4. QED
    BY <2>1, <2>2, <2>3 DEF Refresh, Answer, TypeOK
<1>2. QED
  BY <1>1, AccountTypes, Presented, SpentSafe, PTL DEF Spec, LateRefreshRefused

\* An account has the id of the registration that inserted it.
ConflictInv ==
  /\ ConflictTruthful
  /\ \A c \in customers : pc[c.id] \notin {"new", "insert"}
  /\ \A h \in Requests : reply[h] # "none" => pc[h] = "done"

\* "Conflict" is said only of an address that another registration has taken,
\* whatever fails.
THEOREM ConflictsTrue == Spec => []ConflictTruthful
<1> USE DEF ConflictInv, ConflictTruthful, tables, tokens, local, Start, Goto, Finish,
            Answer
<1>1. Init => ConflictInv
  BY DEF Init
<1>2. TypeOK /\ ConflictInv /\ [Next]_vars => ConflictInv'
  <2> SUFFICES ASSUME TypeOK, ConflictInv, [Next]_vars PROVE ConflictInv'
    OBVIOUS
  <2> USE DEF TypeOK, Customer
  <2>1. ASSUME NEW h \in Requests, NEW e \in Emails, Register(h, e) PROVE ConflictInv'
    BY <2>1 DEF Register
  <2>2. ASSUME NEW h \in Requests, RegisterInsert(h) PROVE ConflictInv'
    <3>1. pc[h] = "insert" /\ UNCHANGED email
      BY <2>2 DEF RegisterInsert
    <3>2. CASE customers' = customers \cup {[id |-> h, email |-> email[h]]} /\ Goto(h, "store")
      BY <3>1, <3>2
    <3>3. CASE Taken(email[h]) /\ Finish(h, "conflict") /\ UNCHANGED customers
      BY <3>1, <3>3 DEF Taken
    <3>4. CASE Finish(h, "error") /\ UNCHANGED customers
      BY <3>1, <3>4
    <3>5. CASE Finish(h, "error") /\ customers' = customers \cup {[id |-> h, email |-> email[h]]}
      BY <3>1, <3>5
    <3>6. QED
      BY <2>2, <3>2, <3>3, <3>4, <3>5 DEF RegisterInsert
  <2>3. ASSUME NEW h \in Requests, Login(h) PROVE ConflictInv'
    BY <2>3 DEF Login
  <2>4. ASSUME NEW h \in Requests, StoreToken(h) PROVE ConflictInv'
    BY <2>4 DEF StoreToken
  <2>5. ASSUME NEW h \in Requests, Rotate(h) PROVE ConflictInv'
    BY <2>5 DEF Rotate
  <2>6. ASSUME NEW h \in Requests, Erase(h) PROVE ConflictInv'
    BY <2>6 DEF Erase
  <2>7. ASSUME NEW h \in Requests, UseInsert(h) PROVE ConflictInv'
    BY <2>7 DEF UseInsert
  <2>8. ASSUME NEW h \in Requests, Revoke(h) PROVE ConflictInv'
    BY <2>8 DEF Revoke
  <2>9. ASSUME NEW h \in Requests, ClientGone(h) PROVE ConflictInv'
    BY <2>9 DEF ClientGone
  <2>10. ASSUME NEW h \in Requests, NEW t \in Requests, Refresh(h, t) PROVE ConflictInv'
    BY <2>10 DEF Refresh
  <2>11. ASSUME NEW h \in Requests, NEW t \in Requests, Logout(h, t) PROVE ConflictInv'
    BY <2>11 DEF Logout
  <2>12. ASSUME NEW h \in Requests, NEW t \in Requests, DeleteMe(h, t) PROVE ConflictInv'
    BY <2>12 DEF DeleteMe, RequireAuth
  <2>13. ASSUME NEW h \in Requests, NEW t \in Requests, Use(h, t) PROVE ConflictInv'
    BY <2>13 DEF Use, RequireAuth
  <2>14. ASSUME NEW t \in refresh, TokenExpires(t) PROVE ConflictInv'
    BY <2>14 DEF TokenExpires
  <2>15. ASSUME Crash PROVE ConflictInv'
    BY <2>15 DEF Crash, Waiting
  <2>16. ASSUME UNCHANGED vars PROVE ConflictInv'
    BY <2>16 DEF vars
  <2>17. QED
    BY <2>1, <2>2, <2>3, <2>4, <2>5, <2>6, <2>7, <2>8, <2>9, <2>10, <2>11, <2>12, <2>13, <2>14, <2>15, <2>16 DEF Next
<1>3. ConflictInv => ConflictTruthful
  OBVIOUS
<1>4. QED
  BY <1>1, <1>2, <1>3, AccountTypes, PTL DEF Spec
-----------------------------------------------------------------------------
(* The token store, as AccountsStore holds it: what SquareTokensProofs proves  *)
(* of its own specification holds in the sum.  T and P are instances of the    *)
(* same definitions, which become the same formulas when they are expanded.    *)
P == INSTANCE SquareTokensProofs WITH rows <- table, pc <- tpc, Faults <- SquareFaults

\* In the sum the token store does what its own specification allows.
LEMMA StoreImplements == SumSpec => P!Spec
<1>1. SumInit => P!Init
  BY DEF SumInit, T!Init, P!Init, T!Empty, P!Empty
<1>2. [SumNext]_<<vars, store>> => [P!Next]_P!vars
  <2>1. T!Next => P!Next
    BY Zenon DEF T!Next, P!Next, T!Connect, P!Connect, T!StateExpires, P!StateExpires,
                 T!Callback, P!Callback, T!Reject, P!Reject, T!ExchangeCode,
                 P!ExchangeCode, T!Store, P!Store, T!Publish, P!Publish, T!AccessToken,
                 P!AccessToken, T!Refresh, P!Refresh, T!RefreshPost, P!RefreshPost,
                 T!RefreshSave, P!RefreshSave, T!RefreshSwap, P!RefreshSwap, T!Reread,
                 P!Reread, T!Age, P!Age, T!Start, P!Start, T!Shutdown, P!Shutdown, T!Exit,
                 P!Exit, T!Goto, P!Goto, T!Fails, P!Fails, T!Mint, P!Mint, T!Writing,
                 P!Writing, T!Overlap, P!Overlap, T!SaveToken, P!SaveToken, T!Loaded,
                 P!Loaded, T!row, P!row, T!csrf, P!csrf, T!local, P!local, T!past, P!past, T!Empty, P!Empty, T!Pair, P!Pair, T!Ended, P!Ended
  <2>2. UNCHANGED store => UNCHANGED P!vars
    BY DEF store, P!vars, P!row, P!csrf, P!local, P!past
  <2>3. QED
    BY <2>1, <2>2 DEF SumNext, store
<1>3. QED
  BY <1>1, <1>2, PTL DEF SumSpec, P!Spec

LEMMA StoreAssumed == P!SquareAssumption
BY StoreAssumption DEF T!SquareAssumption, P!SquareAssumption

\* The token store in memory and its table keep their types.
THEOREM StoreTyped == SumSpec => []StoreTypeOK
<1>1. P!StoreInv => StoreTypeOK
  BY DEF StoreTypeOK, P!StoreInv, T!TypeOK, P!TypeOK, T!Pair, P!Pair, T!Ended, P!Ended
<1>2. QED
  BY <1>1, StoreImplements, StoreAssumed, P!StoreSafe, PTL

\* In the sum the accounts do what their own specification allows.
LEMMA AccountsImplement == SumSpec => Spec
<1>1. SumInit => Init
  BY DEF SumInit
<1>2. [SumNext]_<<vars, store>> => [Next]_vars
  BY DEF SumNext
<1>3. QED
  BY <1>1, <1>2, PTL DEF SumSpec, Spec

\* The variables of both parts keep their types.
THEOREM SumTyped == SumSpec => []SumTypeOK
<1>1. TypeOK /\ StoreTypeOK => SumTypeOK
  BY DEF SumTypeOK
<1>2. QED
  BY <1>1, AccountsImplement, AccountTypes, StoreTyped, PTL

\* A state that Square's redirect carries lets one callback through.
THEOREM StoreStateOnce == SumSpec => []StateUsedOnce
<1>1. P!StateUsedOnce => StateUsedOnce
  BY DEF StateUsedOnce, T!StateUsedOnce, P!StateUsedOnce
<1>2. QED
  BY <1>1, StoreImplements, StoreAssumed, P!StateOnce, PTL

\* A token that is used or held in memory has been in a row.
THEOREM StoreSavedFirst == SumSpec => []UsedSaved
<1>1. P!UsedSaved => UsedSaved
  BY DEF UsedSaved, T!UsedSaved, P!UsedSaved
<1>2. QED
  BY <1>1, StoreImplements, StoreAssumed, P!SavedFirst, PTL

\* A restart loads what memory held, unless writes overlapped or lost an answer.
THEOREM StoreRestartSafe == SumSpec => []RestartNeutral
<1>1. P!RestartNeutral => RestartNeutral
  BY DEF RestartNeutral, T!RestartNeutral, P!RestartNeutral, T!Writing, P!Writing, T!Loaded, P!Loaded, T!Empty, P!Empty
<1>2. QED
  BY <1>1, StoreImplements, StoreAssumed, P!RestartSafe, PTL

\* A row holds a pair of its own merchant as long as no writes overlapped.
THEOREM StoreRowsOwned == SumSpec => []RowOfItsMerchant
<1>1. P!RowOfItsMerchant => RowOfItsMerchant
  BY DEF RowOfItsMerchant, T!RowOfItsMerchant, P!RowOfItsMerchant
<1>2. QED
  BY <1>1, StoreImplements, StoreAssumed, P!RowsOwned, PTL
=============================================================================
