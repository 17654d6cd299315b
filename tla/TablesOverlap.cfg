\* Others commit between the select and the write of a transaction (PostgreSQL, MySQL).
SPECIFICATION Spec
CONSTANTS
  k = k
  d1 = d1
  d2 = d2
  c1 = c1
  c2 = c2
  Clients = {c1, c2}
  Keys = {k}
  Data = {d1, d2}
  NodeKeys = {k}
  Denies = {d2}
  ExampleRules <- MCExampleRules
  ExampleCountries <- MCExampleCountries
  DefaultDefense = d1
  TxnOverlap = TRUE
  MaxRequests = 3
  MaxBatch = 1
SYMMETRY Symmetry
PROPERTIES ActiveChangesBump
CHECK_DEADLOCK FALSE
