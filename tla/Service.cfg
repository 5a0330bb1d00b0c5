\* Two servers and a console over one file: paid calls, one question, one listing.
SPECIFICATION Spec
CONSTANTS
  n1 = n1
  n2 = n2
  rust = rust
  go = go
  Lang = Lang
  null = null
  NULL = null
  Namespaces = {n1, n2}
  Here = n1
  Contents = {rust, go}
  Names = {Lang}
  EntitiesOf <- MCEntitiesOf
  SharesWord <- MCSharesWord
  Distance <- MCDistance
  Opposes <- MCOpposes
  DedupDistance = 8
  OpposeDistance = 50
  Ttls = {1}
  Questions = {q1}
  Limits = {0}
  \* "any" verifier tells no proof from another, so one kind of them is enough.
  Proofs = {"none", "unsettled"}
  Verifier = "any"
  MaxRequests = 3
  MaxVisits = 1
  MaxClock = 1
INVARIANTS TypeOK WorkWasAccepted CitationsHold PagesSkipNothing
\* The calls are bounded, so the system comes to rest.
CHECK_DEADLOCK FALSE
