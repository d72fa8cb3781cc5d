SPECIFICATION RaceSpec
CONSTANTS
  h1 = h1
  h2 = h2
  h3 = h3
  alice = alice
  bob = bob
  u1 = u1
  t1 = t1
  t2 = t2
  Requests = {h1, h2, h3}
  Customers = {alice, bob}
  Ids = {u1}
  Instants = {t1, t2}
  SteepsPerReward = 1
  Faults = {"db", "redis", "cancel", "crash", "expiry"}
SYMMETRY Symmetric
INVARIANTS
  TypeOK
  OneRowPerKey
  AuditTruthful
  TokenScannedOnce
  OverRedemptionBounded
CHECK_DEADLOCK FALSE
