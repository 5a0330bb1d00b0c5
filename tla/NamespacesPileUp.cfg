\* Two namespaces share one vector index.
SPECIFICATION Spec
CONSTANTS
  p1 = p1
  p2 = p2
  n1 = n1
  n2 = n2
  rust = rust
  rusty = rusty
  go = go
  Lang = Lang
  null = null
  NULL = null
  Procs = {p1}
  Namespaces = {n1, n2}
  Contents = {rust}
  Names = {Lang}
  EntitiesOf <- MCEntitiesOf
  SharesWord <- MCSharesWord
  Distance <- MCDistance
  Opposes <- MCOpposes
  DedupDistance = 8
  OpposeDistance = 50
  Roles <- StoreOnly
  Ttls = {null, 1}
  Failures = {}
  MaxCalls = 3
  MaxClock = 2
INVARIANTS NoDuplicates
\* The calls are bounded, so the system comes to rest.
CHECK_DEADLOCK FALSE
