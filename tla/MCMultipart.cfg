SPECIFICATION MCSpec
CONSTANTS
  None = None
  Hole = Hole
  r1 = r1
  r2 = r2
  r3 = r3
  a = a
  b = b
  Letters = {a, b}
  Requests = {r1, r2, r3}
  Jobs <- AllJobs
  Parts = {1, 2}
  MaxSize = 2
  Cap = 2
  Resend = FALSE
  Faults = TRUE
  DiskFaults = TRUE
  AbandonAge = 1
  TerminalRetention = 2
  MaxCrashes = 1
INVARIANTS TypeOK AckedWhole RecordedKept
PROPERTY TempReclaimed
