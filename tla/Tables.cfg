\* Two clients, three requests, batches of up to two items of one key.
SPECIFICATION Spec
CONSTANTS
  k = k
  d1 = d1
  d2 = d2
  c1 = c1
  c2 = c2
  Clients = {c1, c2}
  Keys = {k}
  Data = {d1, d2}
  NodeKeys = {k}
  Denies = {d2}
  ExampleRules <- MCExampleRules
  ExampleCountries <- MCExampleCountries
  DefaultDefense = d1
  TxnOverlap = FALSE
  MaxRequests = 3
  MaxBatch = 2
SYMMETRY Symmetry
INVARIANTS NoTwoAlike
PROPERTIES ActiveChangesBump
CHECK_DEADLOCK FALSE
