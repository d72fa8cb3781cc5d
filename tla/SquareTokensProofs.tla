------------------------- MODULE SquareTokensProofs -------------------------
(* The token store keeps its promises for any merchants, requests and faults. *)
EXTENDS SquareTokens, TLAPS

\* What a request, the memory and the rows hold at each point of a write: a pair
\* that is published has been saved, and only a started process writes.
StoreInv ==
  /\ TypeOK
  /\ \A r \in Requests :
       /\ pc[r] \in {"exchange", "save", "publish", "post", "saveback", "swap"} =>
            merch[r] \in Merchants
       /\ pc[r] \in {"save", "publish", "post", "saveback", "swap"} => held[r] \in Pair
       /\ pc[r] \in {"publish", "swap", "token"} => held[r] \in saved
       /\ pc[r] \in {"refresh", "post", "saveback", "swap", "reread"} => mem.pair \in Pair
       /\ pc[r] \in {"publish", "connected"} => newest # NoMerchant
       /\ proc = "down" => pc[r] \in Ended \cup {"new"}
  /\ mem.pair \in saved \cup {NoPair}
  /\ mem.pair \in Pair => mem.merchant \in Merchants
  /\ \A m \in Merchants : rows[m] \in saved \cup {NoPair}
  /\ newest # NoMerchant => rows[newest] \in saved

\* One write of a row keeps what is known of the rows and of the writer.
LEMMA OneWrite ==
  ASSUME SquareAssumption, StoreInv, NEW r \in Requests, NEW l \in {"publish", "swap"},
         held[r] \in Pair, merch[r] \in Merchants, SaveToken(r, merch[r], l)
  PROVE  /\ rows' \in [Merchants -> Pair \cup {NoPair}]
         /\ where' \in [Merchants -> Locations \cup {NoLocation}]
         /\ newest' \in Merchants \cup {NoMerchant}
         /\ saved' \subseteq Pair /\ behind' \in BOOLEAN /\ saved \subseteq saved'
         /\ \A m \in Merchants : rows'[m] \in saved' \cup {NoPair}
         /\ newest' # NoMerchant => rows'[newest'] \in saved'
         /\ newest # NoMerchant => newest' # NoMerchant
         /\ pc' = [pc EXCEPT ![r] = l] \/ pc' = [pc EXCEPT ![r] = "error"]
         /\ pc'[r] = l => held[r] \in saved' /\ newest' # NoMerchant
<1> USE DEF SquareAssumption, StoreInv, TypeOK, Pair, Ended, Goto
<1>1. /\ pc' = [pc EXCEPT ![r] = l] \/ pc' = [pc EXCEPT ![r] = "error"]
      /\ behind' \in BOOLEAN
  BY Zenon DEF SaveToken
<1>2. \/ /\ rows' = [rows EXCEPT ![merch[r]] = held[r]] /\ newest' = merch[r]
         /\ saved' = saved \cup {held[r]}
         /\ where' = [where EXCEPT ![merch[r]] = IF rows[merch[r]] = NoPair THEN spot[r] ELSE @]
      \/ UNCHANGED <<rows, where, newest, saved>> /\ pc' = [pc EXCEPT ![r] = "error"]
  BY Zenon DEF SaveToken
<1>3. CASE /\ rows' = [rows EXCEPT ![merch[r]] = held[r]] /\ newest' = merch[r]
           /\ saved' = saved \cup {held[r]}
           /\ where' = [where EXCEPT ![merch[r]] = IF rows[merch[r]] = NoPair THEN spot[r] ELSE @]
  <2>1. where' \in [Merchants -> Locations \cup {NoLocation}]
    BY <1>3
  <2>2. QED
    BY <1>1, <1>3, <2>1
<1>4. CASE UNCHANGED <<rows, where, newest, saved>> /\ pc' = [pc EXCEPT ![r] = "error"]
  BY <1>1, <1>4
<1>5. QED
  BY <1>2, <1>3, <1>4

\* The store's variables have their types, and what is used has been saved.
THEOREM StoreSafe == ASSUME SquareAssumption PROVE Spec => []StoreInv
<1> USE DEF SquareAssumption, TypeOK, Pair, Ended, row, csrf, local, past
<1>1. Init => StoreInv
  <2> SUFFICES ASSUME Init PROVE StoreInv
    OBVIOUS
  <2>1. mem \in [pair : Pair \cup {NoPair}, merchant : Merchants \cup {NoMerchant},
                 location : Locations \cup {NoLocation}]
    BY DEF Init, Empty
  <2>2. /\ rows \in [Merchants -> Pair \cup {NoPair}]
        /\ where \in [Merchants -> Locations \cup {NoLocation}]
        /\ held \in [Requests -> Pair \cup {NoPair}]
        /\ spot \in [Requests -> Locations \cup {NoLocation}]
    BY DEF Init
  <2>3. /\ pc \in [Requests -> {"new", "exchange", "save", "publish", "refresh", "post",
                                "saveback", "swap", "reread"} \cup Ended]
        /\ merch \in [Requests -> Merchants \cup {NoMerchant}]
        /\ state \in [Requests -> States \cup {NoState}]
    BY DEF Init
  <2>4. /\ proc \in {"up", "draining", "down"} /\ place \in Locations \cup {NoLocation}
        /\ newest \in Merchants \cup {NoMerchant}
        /\ race \in {"none", "open", "past"} /\ behind \in BOOLEAN
    BY DEF Init
  <2>5. states \subseteq issued /\ issued \subseteq States /\ due \subseteq Pair /\ saved \subseteq Pair
    BY DEF Init
  <2>6. minted \in 0..MaxPairs
    BY DEF Init
  <2>7. QED
        BY <2>1, <2>2, <2>3, <2>4, <2>5, <2>6 DEF Init, StoreInv, Empty
<1>2. StoreInv /\ [Next]_vars => StoreInv'
  <2> SUFFICES ASSUME StoreInv, [Next]_vars PROVE StoreInv'
    OBVIOUS
  <2>1. ASSUME NEW s \in States, Connect(s) PROVE StoreInv'
    BY <2>1 DEF Connect, StoreInv
  <2>2. ASSUME NEW s \in States, StateExpires(s) PROVE StoreInv'
    BY <2>2 DEF StateExpires, StoreInv
  <2>3. ASSUME NEW r \in Requests, NEW s \in States, NEW m \in Merchants, Callback(r, s, m)
        PROVE  StoreInv'
    BY <2>3 DEF Callback, Goto, StoreInv
  <2>4. ASSUME NEW r \in Requests, NEW s \in States, Reject(r, s) PROVE StoreInv'
    BY <2>4 DEF Reject, Goto, StoreInv
  <2>5. ASSUME NEW r \in Requests, ExchangeCode(r) PROVE StoreInv'
    BY <2>5 DEF ExchangeCode, Mint, Goto, StoreInv
  <2>6. ASSUME NEW r \in Requests, Store(r) PROVE StoreInv'
    <3>1. held[r] \in Pair /\ merch[r] \in Merchants /\ SaveToken(r, merch[r], "publish") /\ pc[r] = "save"
      BY <2>6 DEF Store, StoreInv
    <3>2. /\ UNCHANGED <<proc, place, mem, issued, states, minted, due, held, merch, spot, state>>
          /\ race' \in {"none", "open", "past"}
      BY <2>6 DEF Store, Overlap, StoreInv
    <3>3. TypeOK'
      BY <3>1, <3>2, OneWrite DEF StoreInv
    <3>4. QED
      BY <3>1, <3>2, <3>3, OneWrite DEF StoreInv
  <2>7. ASSUME NEW r \in Requests, Publish(r) PROVE StoreInv'
    BY <2>7 DEF Publish, Goto, StoreInv
  <2>8. ASSUME NEW r \in Requests, AccessToken(r) PROVE StoreInv'
    BY <2>8 DEF AccessToken, Goto, StoreInv
  <2>9. ASSUME NEW r \in Requests, Refresh(r) PROVE StoreInv'
    BY <2>9 DEF Refresh, Overlap, Goto, StoreInv
  <2>10. ASSUME NEW r \in Requests, RefreshPost(r) PROVE StoreInv'
    BY <2>10 DEF RefreshPost, Mint, Goto, StoreInv
  <2>11. ASSUME NEW r \in Requests, RefreshSave(r) PROVE StoreInv'
    <3>1. held[r] \in Pair /\ merch[r] \in Merchants /\ SaveToken(r, merch[r], "swap") /\ pc[r] = "saveback"
      BY <2>11 DEF RefreshSave, StoreInv
    <3>2. /\ UNCHANGED <<proc, place, mem, issued, states, minted, due, held, merch, spot, state>>
          /\ race' \in {"none", "open", "past"}
      BY <2>11 DEF RefreshSave, StoreInv
    <3>3. TypeOK'
      BY <3>1, <3>2, OneWrite DEF StoreInv
    <3>4. QED
      BY <3>1, <3>2, <3>3, OneWrite DEF StoreInv
  <2>12. ASSUME NEW r \in Requests, RefreshSwap(r) PROVE StoreInv'
    BY <2>12 DEF RefreshSwap, Goto, StoreInv
  <2>13. ASSUME NEW r \in Requests, Reread(r) PROVE StoreInv'
    BY <2>13 DEF Reread, Goto, StoreInv
  <2>14. ASSUME Age PROVE StoreInv'
    BY <2>14 DEF Age, StoreInv
  <2>15. ASSUME Start PROVE StoreInv'
    BY <2>15 DEF Start, Loaded, Empty, StoreInv
  <2>16. ASSUME Shutdown PROVE StoreInv'
    BY <2>16 DEF Shutdown, StoreInv
  <2>17. ASSUME Exit PROVE StoreInv'
    BY <2>17 DEF Exit, Empty, StoreInv
  <2>18. ASSUME UNCHANGED vars PROVE StoreInv'
    BY <2>18 DEF vars, StoreInv
  <2>19. QED
        BY <2>1, <2>2, <2>3, <2>4, <2>5, <2>6, <2>7, <2>8, <2>9, <2>10, <2>11, <2>12, <2>13,
       <2>14, <2>15, <2>16, <2>17, <2>18 DEF Next
<1>3. QED
  BY <1>1, <1>2, PTL DEF Spec

\* A state that a callback carries is spent.
StateInv ==
  /\ \A r \in Requests : state[r] # NoState => state[r] \in issued \ states
  /\ StateUsedOnce

\* "Atomically (prevents CSRF and replay)": a state lets one callback through, for
\* any number of redirects, expiries, restarts and failures of Redis.
THEOREM StateOnce == ASSUME SquareAssumption PROVE Spec => []StateUsedOnce
<1> USE DEF SquareAssumption, StateUsedOnce, StoreInv, TypeOK, row, csrf, local, past
<1>1. Init => StateInv
  BY DEF Init, StateInv
<1>2. StoreInv /\ StateInv /\ [Next]_vars => StateInv'
  <2> SUFFICES ASSUME StoreInv, StateInv, [Next]_vars PROVE StateInv'
    OBVIOUS
  <2>1. ASSUME NEW s \in States, Connect(s) PROVE StateInv'
    BY <2>1 DEF Connect, StateInv
  <2>2. ASSUME NEW s \in States, StateExpires(s) PROVE StateInv'
    BY <2>2 DEF StateExpires, StateInv
  <2>3. ASSUME NEW r \in Requests, NEW s \in States, NEW m \in Merchants, Callback(r, s, m)
        PROVE  StateInv'
    BY <2>3 DEF Callback, Goto, StateInv
  <2>4. ASSUME NEW r \in Requests, NEW s \in States, Reject(r, s) PROVE StateInv'
    BY <2>4 DEF Reject, Goto, StateInv
  <2>5. ASSUME NEW r \in Requests, ExchangeCode(r) PROVE StateInv'
    BY <2>5 DEF ExchangeCode, Mint, Goto, StateInv
  <2>6. ASSUME NEW r \in Requests, Store(r) PROVE StateInv'
    BY <2>6 DEF Store, SaveToken, Overlap, Goto, StateInv
  <2>7. ASSUME NEW r \in Requests, Publish(r) PROVE StateInv'
    BY <2>7 DEF Publish, Goto, StateInv
  <2>8. ASSUME NEW r \in Requests, AccessToken(r) PROVE StateInv'
    BY <2>8 DEF AccessToken, Goto, StateInv
  <2>9. ASSUME NEW r \in Requests, Refresh(r) PROVE StateInv'
    BY <2>9 DEF Refresh, Overlap, Goto, StateInv
  <2>10. ASSUME NEW r \in Requests, RefreshPost(r) PROVE StateInv'
    BY <2>10 DEF RefreshPost, Mint, Goto, StateInv
  <2>11. ASSUME NEW r \in Requests, RefreshSave(r) PROVE StateInv'
    BY <2>11 DEF RefreshSave, SaveToken, Goto, StateInv
  <2>12. ASSUME NEW r \in Requests, RefreshSwap(r) PROVE StateInv'
    BY <2>12 DEF RefreshSwap, Goto, StateInv
  <2>13. ASSUME NEW r \in Requests, Reread(r) PROVE StateInv'
    BY <2>13 DEF Reread, Goto, StateInv
  <2>14. ASSUME Age PROVE StateInv'
    BY <2>14 DEF Age, StateInv
  <2>15. ASSUME Start PROVE StateInv'
    BY <2>15 DEF Start, Loaded, Empty, StateInv
  <2>16. ASSUME Shutdown PROVE StateInv'
    BY <2>16 DEF Shutdown, StateInv
  <2>17. ASSUME Exit PROVE StateInv'
    BY <2>17 DEF Exit, Empty, StateInv
  <2>18. ASSUME UNCHANGED vars PROVE StateInv'
    BY <2>18 DEF vars, StateInv
  <2>19. QED
        BY <2>1, <2>2, <2>3, <2>4, <2>5, <2>6, <2>7, <2>8, <2>9, <2>10, <2>11, <2>12, <2>13,
       <2>14, <2>15, <2>16, <2>17, <2>18 DEF Next
<1>3. StateInv => StateUsedOnce
  BY DEF StateInv
<1>4. QED
  BY <1>1, <1>2, <1>3, StoreSafe, PTL DEF Spec

\* Nothing is used that a restart could lose: the row is written before the pair is
\* handed out, and a merchant is told "connected" only with a row in the table.
THEOREM SavedFirst == ASSUME SquareAssumption PROVE Spec => []UsedSaved
<1>1. StoreInv => UsedSaved
  BY DEF StoreInv, UsedSaved
<1>2. QED
  BY <1>1, StoreSafe, PTL

\* While writers do not overlap there is one at most, its merchant is the one in
\* memory, and memory is what a restart loads, or lacks exactly the last write.
\* The location in memory is the row's or the configured one throughout.
RestartInv ==
  /\ \A r \in Requests : pc[r] \in {"save", "publish"} => spot[r] = place
  /\ race # "open" =>
       /\ \A q, r \in Requests : Writing(q) /\ Writing(r) => q = r
       /\ \A r \in Requests : pc[r] \in {"post", "saveback", "swap"} => merch[r] = mem.merchant
       /\ proc # "down" /\ ~behind =>
            /\ (\A r \in Requests : pc[r] \notin {"publish", "swap"}) =>
                 /\ mem.pair = Loaded.pair /\ mem.merchant = Loaded.merchant
                 /\ mem.location \in {Loaded.location, place}
            /\ \A r \in Requests : pc[r] \in {"publish", "swap"} =>
                 Loaded.pair = held[r] /\ Loaded.merchant = merch[r]
            /\ \A r \in Requests : pc[r] = "swap" => mem.location \in {Loaded.location, place}

\* The steps keep it.
LEMMA RestartKept == ASSUME SquareAssumption PROVE Spec => []RestartInv
<1> USE DEF SquareAssumption, StoreInv, TypeOK, Pair, Ended, Writing, Loaded, Empty, row, csrf,
            local, past
<1>1. Init => RestartInv
  BY DEF Init, RestartInv
<1>2. StoreInv /\ RestartInv /\ [Next]_vars => RestartInv'
  <2> SUFFICES ASSUME StoreInv, RestartInv, [Next]_vars PROVE RestartInv'
    OBVIOUS
  <2>1. ASSUME NEW s \in States, Connect(s) PROVE RestartInv'
    BY <2>1 DEF Connect, RestartInv
  <2>2. ASSUME NEW s \in States, StateExpires(s) PROVE RestartInv'
    BY <2>2 DEF StateExpires, RestartInv
  <2>3. ASSUME NEW r \in Requests, NEW s \in States, NEW m \in Merchants, Callback(r, s, m)
        PROVE  RestartInv'
    BY <2>3 DEF Callback, Goto, RestartInv
  <2>4. ASSUME NEW r \in Requests, NEW s \in States, Reject(r, s) PROVE RestartInv'
    BY <2>4 DEF Reject, Goto, RestartInv
  <2>5. ASSUME NEW r \in Requests, ExchangeCode(r) PROVE RestartInv'
    BY <2>5 DEF ExchangeCode, Mint, Goto, RestartInv
  <2>6. ASSUME NEW r \in Requests, Store(r) PROVE RestartInv'
    BY <2>6 DEF Store, SaveToken, Overlap, Goto, RestartInv
  <2>7. ASSUME NEW r \in Requests, Publish(r) PROVE RestartInv'
    BY <2>7 DEF Publish, Goto, RestartInv
  <2>8. ASSUME NEW r \in Requests, AccessToken(r) PROVE RestartInv'
    BY <2>8 DEF AccessToken, Goto, RestartInv
  <2>9. ASSUME NEW r \in Requests, Refresh(r) PROVE RestartInv'
    BY <2>9 DEF Refresh, Overlap, Goto, RestartInv
  <2>10. ASSUME NEW r \in Requests, RefreshPost(r) PROVE RestartInv'
    BY <2>10 DEF RefreshPost, Mint, Goto, RestartInv
  <2>11. ASSUME NEW r \in Requests, RefreshSave(r) PROVE RestartInv'
    BY <2>11 DEF RefreshSave, SaveToken, Goto, RestartInv
  <2>12. ASSUME NEW r \in Requests, RefreshSwap(r) PROVE RestartInv'
    BY <2>12 DEF RefreshSwap, Goto, RestartInv
  <2>13. ASSUME NEW r \in Requests, Reread(r) PROVE RestartInv'
    BY <2>13 DEF Reread, Goto, RestartInv
  <2>14. ASSUME Age PROVE RestartInv'
    BY <2>14 DEF Age, RestartInv
  <2>15. ASSUME Start PROVE RestartInv'
    BY <2>15 DEF Start, Loaded, Empty, RestartInv
  <2>16. ASSUME Shutdown PROVE RestartInv'
    BY <2>16 DEF Shutdown, RestartInv
  <2>17. ASSUME Exit PROVE RestartInv'
    BY <2>17 DEF Exit, Empty, RestartInv
  <2>18. ASSUME UNCHANGED vars PROVE RestartInv'
    BY <2>18 DEF vars, RestartInv
  <2>19. QED
        BY <2>1, <2>2, <2>3, <2>4, <2>5, <2>6, <2>7, <2>8, <2>9, <2>10, <2>11, <2>12, <2>13,
       <2>14, <2>15, <2>16, <2>17, <2>18 DEF Next
<1>3. QED
  BY <1>1, <1>2, StoreSafe, PTL DEF Spec

\* Lock and row agree: without overlapping writes, a restart changes nothing.
THEOREM RestartSafe == ASSUME SquareAssumption PROVE Spec => []RestartNeutral
<1>1. StoreInv /\ RestartInv => RestartNeutral
  <2> SUFFICES ASSUME StoreInv, RestartInv, proc # "down", race # "open", ~behind,
                      \A r \in Requests : ~Writing(r)
               PROVE  mem \in {Loaded, [Loaded EXCEPT !.location = place]}
    BY DEF RestartNeutral
  <2>1. /\ mem.pair = Loaded.pair /\ mem.merchant = Loaded.merchant
        /\ mem.location \in {Loaded.location, place}
    BY DEF RestartInv, Writing
  <2>2. mem = [pair |-> mem.pair, merchant |-> mem.merchant, location |-> mem.location]
    BY DEF StoreInv, TypeOK
  <2>3. Loaded = [pair |-> Loaded.pair, merchant |-> Loaded.merchant, location |-> Loaded.location]
    BY DEF Loaded, Empty
  <2>4. QED
    BY <2>1, <2>2, <2>3
<1>2. QED
  BY <1>1, RestartKept, StoreSafe, PTL

\* What a request of a merchant carries is a pair of that merchant: always for a
\* callback, and for a refresh until two writers overlap for the first time.
RowInv ==
  /\ \A r \in Requests : pc[r] \in {"save", "publish"} => held[r].owner = merch[r]
  /\ race = "none" =>
       /\ \A m \in Merchants : rows[m] \in Pair => rows[m].owner = m
       /\ mem.pair \in Pair => mem.pair.owner = mem.merchant
       /\ \A r \in Requests : pc[r] \in {"post", "saveback", "swap"} => held[r].owner = merch[r]

\* A row holds a pair of its own merchant until two writers overlap.
THEOREM RowsOwned == ASSUME SquareAssumption PROVE Spec => []RowOfItsMerchant
<1> USE DEF SquareAssumption, StoreInv, TypeOK, Pair, Ended, Writing, Loaded, Empty, row, csrf,
            local, past
<1>1. Init => RowInv
  BY DEF Init, RowInv
<1>2. StoreInv /\ RestartInv /\ RowInv /\ [Next]_vars => RowInv'
  <2> SUFFICES ASSUME StoreInv, RestartInv, RowInv, [Next]_vars PROVE RowInv'
    OBVIOUS
  <2>1. ASSUME NEW s \in States, Connect(s) PROVE RowInv'
    BY <2>1 DEF Connect, RowInv
  <2>2. ASSUME NEW s \in States, StateExpires(s) PROVE RowInv'
    BY <2>2 DEF StateExpires, RowInv
  <2>3. ASSUME NEW r \in Requests, NEW s \in States, NEW m \in Merchants, Callback(r, s, m)
        PROVE  RowInv'
    BY <2>3 DEF Callback, Goto, RowInv
  <2>4. ASSUME NEW r \in Requests, NEW s \in States, Reject(r, s) PROVE RowInv'
    BY <2>4 DEF Reject, Goto, RowInv
  <2>5. ASSUME NEW r \in Requests, ExchangeCode(r) PROVE RowInv'
    BY <2>5 DEF ExchangeCode, Mint, Goto, RowInv
  <2>6. ASSUME NEW r \in Requests, Store(r) PROVE RowInv'
    BY <2>6 DEF Store, SaveToken, Overlap, Goto, RowInv
  <2>7. ASSUME NEW r \in Requests, Publish(r) PROVE RowInv'
    BY <2>7 DEF Publish, Goto, RowInv
  <2>8. ASSUME NEW r \in Requests, AccessToken(r) PROVE RowInv'
    BY <2>8 DEF AccessToken, Goto, RowInv
  <2>9. ASSUME NEW r \in Requests, Refresh(r) PROVE RowInv'
    BY <2>9 DEF Refresh, Overlap, Goto, RowInv
  <2>10. ASSUME NEW r \in Requests, RefreshPost(r) PROVE RowInv'
    BY <2>10 DEF RefreshPost, Mint, Goto, RowInv
  <2>11. ASSUME NEW r \in Requests, RefreshSave(r) PROVE RowInv'
    BY <2>11 DEF RefreshSave, SaveToken, Goto, RowInv
  <2>12. ASSUME NEW r \in Requests, RefreshSwap(r) PROVE RowInv'
    BY <2>12 DEF RefreshSwap, Goto, RowInv, RestartInv
  <2>13. ASSUME NEW r \in Requests, Reread(r) PROVE RowInv'
    BY <2>13 DEF Reread, Goto, RowInv
  <2>14. ASSUME Age PROVE RowInv'
    BY <2>14 DEF Age, RowInv
  <2>15. ASSUME Start PROVE RowInv'
    BY <2>15 DEF Start, Loaded, Empty, RowInv
  <2>16. ASSUME Shutdown PROVE RowInv'
    BY <2>16 DEF Shutdown, RowInv
  <2>17. ASSUME Exit PROVE RowInv'
    BY <2>17 DEF Exit, Empty, RowInv
  <2>18. ASSUME UNCHANGED vars PROVE RowInv'
    BY <2>18 DEF vars, RowInv
  <2>19. QED
        BY <2>1, <2>2, <2>3, <2>4, <2>5, <2>6, <2>7, <2>8, <2>9, <2>10, <2>11, <2>12, <2>13,
       <2>14, <2>15, <2>16, <2>17, <2>18 DEF Next
<1>3. StoreInv /\ RowInv => RowOfItsMerchant
  BY DEF RowInv, RowOfItsMerchant
<1>4. QED
  BY <1>1, <1>2, <1>3, StoreSafe, RestartKept, PTL DEF Spec
=============================================================================
