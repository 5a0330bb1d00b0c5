\* Two programs store into one namespace and sweep it; lock timeouts and bad parameters.
SPECIFICATION Spec
CONSTANTS
  p1 = p1
  p2 = p2
  n1 = n1
  n2 = n2
  rust = rust
  rusty = rusty
  go = go
  Lang = Lang
  null = null
  NULL = null
  Procs = {p1, p2}
  Namespaces = {n1}
  Contents = {rust, go}
  Names = {Lang}
  EntitiesOf <- MCEntitiesOf
  SharesWord <- MCSharesWord
  Distance <- MCDistance
  Opposes <- MCOpposes
  DedupDistance = 8
  OpposeDistance = 50
  Roles <- Writers
  Ttls = {null, 0, 1}
  Failures = {"locked", "bind"}
  MaxCalls = 3
  MaxClock = 2
INVARIANTS TypeOK Lineage IndexesDerived ValidInterval
PROPERTIES HistoryPreserved ImplementsLedger
\* The calls are bounded, so the system comes to rest.
CHECK_DEADLOCK FALSE
