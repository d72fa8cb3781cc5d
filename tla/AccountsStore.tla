--------------------------- MODULE AccountsStore ---------------------------
(***************************************************************************)
(* The sum of Accounts and of SquareTokens (instance T), two components of  *)
(* one process that share no variable: one of the two moves in a behaviour  *)
(* of SumSpec while the other stays in its initial state.                   *)
(***************************************************************************)
EXTENDS Accounts

CONSTANTS Merchants, States, Locations, NoPair, NoMerchant, NoState, NoLocation,
          MaxPairs, SquareFaults

VARIABLES proc, place, mem, table, where, newest, issued, states, minted, due, tpc, held,
          merch, spot, state, saved, race, behind

T == INSTANCE SquareTokens WITH rows <- table, pc <- tpc, Faults <- SquareFaults

ASSUME StoreAssumption == T!SquareAssumption

store == <<proc, place, mem, table, where, newest, issued, states, minted, due, tpc, held,
           merch, spot, state, saved, race, behind>>

SumInit == Init /\ T!Init

SumNext ==
  \/ T!Init /\ Next /\ UNCHANGED store
  \/ Init /\ T!Next /\ UNCHANGED vars

SumSpec == SumInit /\ [][SumNext]_<<vars, store>>
-----------------------------------------------------------------------------
\* The variables of both parts have their types.
StoreTypeOK == T!TypeOK
SumTypeOK == TypeOK /\ StoreTypeOK

\* The properties of the token store, stated and explained in SquareTokens: a
\* state lets one callback through,
StateUsedOnce == T!StateUsedOnce

\* a token is saved before it is used,
UsedSaved == T!UsedSaved

\* a restart loads what memory held,
RestartNeutral == T!RestartNeutral

\* and a row holds a pair of its merchant, unless two writes began side by side.
RowOfItsMerchant == T!RowOfItsMerchant
=============================================================================
