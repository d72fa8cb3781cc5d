SPECIFICATION SumSpec
CONSTANTS
  h1 = h1
  h2 = h2
  h3 = h3
  h4 = h4
  ann = ann
  ben = ben
  Requests = {h1, h2, h3, h4}
  NoEmail = NoEmail
  Emails = {ann, ben}
  Faults = {"db", "cancel", "crash"}
  m1 = m1
  m2 = m2
  s1 = s1
  s2 = s2
  l1 = l1
  l2 = l2
  Merchants = {m1, m2}
  States = {s1, s2}
  Locations = {l1, l2}
  NoPair = NoPair
  NoMerchant = NoMerchant
  NoState = NoState
  NoLocation = NoLocation
  MaxPairs = 3
  SquareFaults = {"db", "redis", "square", "crash"}
SYMMETRY Symmetric
INVARIANTS
  SumTypeOK
  SpentTokenDead
  ConflictTruthful
  HistoryOwned
  StateUsedOnce
  UsedSaved
  RestartNeutral
  RowOfItsMerchant
PROPERTIES
  LateRefreshRefused
CHECK_DEADLOCK FALSE
