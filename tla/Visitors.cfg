SPECIFICATION SumSpec
CONSTANTS
  h1 = h1
  h2 = h2
  h3 = h3
  ann = ann
  ben = ben
  v1 = v1
  x1 = x1
  Absent = Absent
  Nobody = Nobody
  Requests = {h1, h2, h3}
  Customers = {ann, ben}
  Visitors = {v1, x1}
  UUIDs = {v1}
  Faults = {"db", "crash"}
  q1 = q1
  Reads = {q1}
  Members = {1, 2}
  RowIds = {1, 2, 3}
  DefaultLimit = 1
  MaxLimit = 2
  Asked = {0, 1, 2, 3}
SYMMETRY Symmetric
INVARIANTS
  SumTypeOK
  EventVisitorKnown
  AckedLinked
  SummaryKeepsUp
  FeedFull
  WalkComplete
PROPERTIES
  LinkPermanent
  VisitorLogSpec
CHECK_DEADLOCK FALSE
