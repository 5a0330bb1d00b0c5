\* Two devices push and restore through S3 and Solana; requests fail, processes die.
SPECIFICATION Spec
CONSTANTS
  p1 = p1
  p2 = p2
  laptop = laptop
  phone = phone
  null = null
  torn = torn
  NULL = null
  TORN = torn
  Procs = {p1, p2}
  Backend = "s3"
  HeadKind = "solana"
  Files = {laptop, phone}
  FileOf <- TwoDevices
  Roles <- PushAndPull
  Pages = 2
  GzipStamps = FALSE
  Failures = {"network", "crash"}
  MaxEdits = 2
  MaxCalls = 3
  MaxClock = 0
INVARIANTS TypeOK HeadRestorable NeverOlder SeqCounts RowsNotAhead
PROPERTIES PullFinds ImplementsRegister
\* The calls are bounded, so the system comes to rest.
CHECK_DEADLOCK FALSE
