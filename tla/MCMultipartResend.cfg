SPECIFICATION Spec
CONSTANTS
  None = None
  Hole = Hole
  r1 = r1
  r2 = r2
  r3 = r3
  a = a
  b = b
  Letters = {a, b}
  Requests = {r1, r2}
  Jobs <- ResendJobs
  Parts = {1, 2}
  MaxSize = 2
  Cap = 1
  Resend = TRUE
  Faults = FALSE
  DiskFaults = FALSE
  AbandonAge = 1
  TerminalRetention = 2
  MaxCrashes = 0
INVARIANT RecordedOnDisk
