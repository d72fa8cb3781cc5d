SPECIFICATION SumSpec
CONSTANTS
  h1 = h1
  h2 = h2
  h3 = h3
  h4 = h4
  ann = ann
  ben = ben
  Requests = {h1, h2, h3}
  NoEmail = NoEmail
  Emails = {ann}
  Faults = {}
  m1 = m1
  m2 = m2
  s1 = s1
  s2 = s2
  l1 = l1
  l2 = l2
  Merchants = {}
  States = {}
  Locations = {}
  NoPair = NoPair
  NoMerchant = NoMerchant
  NoState = NoState
  NoLocation = NoLocation
  MaxPairs = 0
  SquareFaults = {}
SYMMETRY Symmetric
INVARIANTS
  RefreshedOnce
CHECK_DEADLOCK FALSE
