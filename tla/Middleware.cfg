SPECIFICATION SumSpec
CONSTANTS
  d1 = d1
  d2 = d2
  d3 = d3
  m1 = m1
  Deliveries = {d1, d2, d3}
  Messages = {m1}
  MaxAge = 3
  NonceTTL = 6
  MaxSkew = 1
  MaxDelay = 1
  Horizon = 10
  ip1 = ip1
  ip2 = ip2
  Clients = {ip1, ip2}
  Window = 2
  Limit = 1
  LimitDelay = 2
  LimitHorizon = 6
  s1 = s1
  l1 = l1
  l2 = l2
  q1 = q1
  q2 = q2
  Staff = {s1}
  NoStaff = NoStaff
  Logins = {l1, l2}
  Reads = {q1, q2}
  AccessTTL = 2
  RefreshTTL = 5
  LoginDelay = 1
  StaffHorizon = 6
SYMMETRY Symmetric
INVARIANTS
  SumTypeOK
  HandledOnce
  NonceOutlivesWindow
  LimitKept
  BurstBounded
  NoLockout
  StaffBounded
CHECK_DEADLOCK FALSE
