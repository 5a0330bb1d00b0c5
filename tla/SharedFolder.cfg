\* Two programs push one file to one LocalFS folder and one LocalHead; none dies.
SPECIFICATION Spec
CONSTANTS
  p1 = p1
  p2 = p2
  laptop = laptop
  phone = phone
  null = null
  torn = torn
  NULL = null
  TORN = torn
  Procs = {p1, p2}
  Backend = "localfs"
  HeadKind = "local"
  Files = {laptop}
  FileOf <- OneFile
  Roles <- PushAndPull
  Pages = 2
  GzipStamps = TRUE
  Failures = {"locked"}
  MaxEdits = 3
  MaxCalls = 3
  MaxClock = 1
INVARIANTS HeadArrives
\* The calls are bounded, so the system comes to rest.
CHECK_DEADLOCK FALSE
