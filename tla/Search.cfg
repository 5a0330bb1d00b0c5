\* An MCP server stores and sweeps two namespaces while a console searches and counts;
\* exceptions inside write transactions, whose leftovers the next commit publishes.
SPECIFICATION Spec
CONSTANTS
  p1 = p1
  p2 = p2
  n1 = n1
  n2 = n2
  rust = rust
  rusty = rusty
  go = go
  Lang = Lang
  null = null
  NULL = null
  Procs = {p1, p2}
  Namespaces = {n1, n2}
  Contents = {rust, go}
  Names = {Lang}
  EntitiesOf <- MCEntitiesOf
  SharesWord <- MCSharesWord
  Distance <- MCDistance
  Opposes <- MCOpposes
  DedupDistance = 8
  OpposeDistance = 50
  Roles <- ServerAndConsole
  Ttls = {null, 1}
  Failures = {"abort"}
  MaxCalls = 3
  MaxClock = 1
INVARIANTS Lineage SearchIsRegular StatsNotNegative SnapshotsCurrent
PROPERTIES HistoryPreserved EmptyAnswerIsTrue
\* The calls are bounded, so the system comes to rest.
CHECK_DEADLOCK FALSE
