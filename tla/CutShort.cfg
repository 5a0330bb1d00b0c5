\* A program dies while LocalFS writes a chunk, and pushes again.
SPECIFICATION Spec
CONSTANTS
  p1 = p1
  p2 = p2
  laptop = laptop
  phone = phone
  null = null
  torn = torn
  NULL = null
  TORN = torn
  Procs = {p1}
  Backend = "localfs"
  HeadKind = "local"
  Files = {laptop}
  FileOf <- OneFile
  Roles <- PushAndPull
  Pages = 1
  GzipStamps = FALSE
  Failures = {"crash"}
  MaxEdits = 1
  MaxCalls = 2
  MaxClock = 0
INVARIANTS HeadRestorable
\* The calls are bounded, so the system comes to rest.
CHECK_DEADLOCK FALSE
