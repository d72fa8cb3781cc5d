SPECIFICATION Spec
CONSTANTS
  h1 = h1
  h2 = h2
  h3 = h3
  h4 = h4
  alice = alice
  bob = bob
  u1 = u1
  u2 = u2
  t1 = t1
  t2 = t2
  Requests = {h1, h2}
  Customers = {alice}
  Ids = {u1}
  Instants = {t1}
  SteepsPerReward = 1
  Faults = {}
SYMMETRY Symmetric
INVARIANTS
  PrefixedKeyCredited
CHECK_DEADLOCK FALSE
