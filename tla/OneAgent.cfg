\* One agent stores while another program sweeps, searches, counts and pushes; crashes.
SPECIFICATION FairSpec
CONSTANTS
  p1 = p1
  p2 = p2
  n1 = n1
  n2 = n2
  rust = rust
  rusty = rusty
  go = go
  Lang = Lang
  null = null
  NULL = null
  Procs = {p1, p2}
  Namespaces = {n1}
  Contents = {rust, rusty}
  Names = {Lang}
  EntitiesOf <- MCEntitiesOf
  SharesWord <- MCSharesWord
  Distance <- MCDistance
  Opposes <- MCOpposes
  DedupDistance = 8
  OpposeDistance = 50
  Roles <- OneAgent
  Ttls = {null, 1}
  Failures = {}
  MaxCalls = 4
  MaxClock = 1
INVARIANTS NoDuplicates IndexesDerived
PROPERTIES CallsEnd
\* The calls are bounded, so the system comes to rest.
CHECK_DEADLOCK FALSE
