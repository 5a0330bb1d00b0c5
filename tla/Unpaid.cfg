\* Two hosted servers and the most careful verifier there can be.
SPECIFICATION Spec
CONSTANTS
  n1 = n1
  n2 = n2
  rust = rust
  go = go
  Lang = Lang
  null = null
  NULL = null
  Namespaces = {n1, n2}
  Here = n1
  Contents = {rust}
  Names = {Lang}
  EntitiesOf <- MCEntitiesOf
  SharesWord <- MCSharesWord
  Distance <- MCDistance
  Opposes <- MCOpposes
  DedupDistance = 8
  OpposeDistance = 50
  Ttls = {1}
  Questions = {}
  Limits = {0}
  Proofs = {"none", "settled", "unsettled"}
  Verifier = "careful"
  MaxRequests = 2
  MaxVisits = 0
  MaxClock = 0
INVARIANTS CallsArePaid
\* The calls are bounded, so the system comes to rest.
CHECK_DEADLOCK FALSE
