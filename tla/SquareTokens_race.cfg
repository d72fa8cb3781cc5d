SPECIFICATION Spec
CONSTANTS
  h1 = h1
  h2 = h2
  h3 = h3
  h4 = h4
  m1 = m1
  m2 = m2
  s1 = s1
  s2 = s2
  l1 = l1
  l2 = l2
  Requests = {h1, h2, h3, h4}
  Merchants = {m1, m2}
  States = {s1, s2}
  Locations = {l1}
  NoPair = NoPair
  NoMerchant = NoMerchant
  NoState = NoState
  NoLocation = NoLocation
  MaxPairs = 4
  Faults = {}
SYMMETRY Symmetric
INVARIANTS
  PairOfItsMerchant
CHECK_DEADLOCK FALSE
