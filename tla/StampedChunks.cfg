\* One program pushes the same file twice to a LocalFS folder, a second apart.
SPECIFICATION Spec
CONSTANTS
  p1 = p1
  p2 = p2
  laptop = laptop
  phone = phone
  null = null
  torn = torn
  NULL = null
  TORN = torn
  Procs = {p1}
  Backend = "localfs"
  HeadKind = "local"
  Files = {laptop}
  FileOf <- OneFile
  Roles <- OnePusher
  Pages = 2
  GzipStamps = TRUE
  Failures = {}
  MaxEdits = 1
  MaxCalls = 2
  MaxClock = 1
INVARIANTS OnlyNewChunks
\* The calls are bounded, so the system comes to rest.
CHECK_DEADLOCK FALSE
