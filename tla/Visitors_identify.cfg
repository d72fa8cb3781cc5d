SPECIFICATION SumSpec
CONSTANTS
  h1 = h1
  h2 = h2
  h3 = h3
  ann = ann
  ben = ben
  v1 = v1
  x1 = x1
  Absent = Absent
  Nobody = Nobody
  Requests = {h1, h2, h3}
  Customers = {ann, ben}
  Visitors = {v1, x1}
  UUIDs = {v1}
  Faults = {}
  q1 = q1
  Reads = {}
  Members = {}
  RowIds = {}
  DefaultLimit = 1
  MaxLimit = 2
  Asked = {}
SYMMETRY Symmetric
INVARIANTS
  IdentifiedTruthful
CHECK_DEADLOCK FALSE
