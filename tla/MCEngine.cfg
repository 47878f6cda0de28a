SPECIFICATION MCSpec
CONSTANTS
  None = None
  Short = Short
  local = local
  hot = hot
  cold = cold
  r1 = r1
  r2 = r2
  r3 = r3
  Requests = {r1, r2, r3}
  Jobs <- AllJobs
  Backends = {local, hot, cold}
  Local = local
  Tape = {cold}
  Lax = {local, cold}
  Flaky = {hot}
  Primaries = {hot, lost}
  Threshold = 2
  MaxRestarts = 1
ACTION_CONSTRAINT Quiet
CHECK_DEADLOCK FALSE
INVARIANTS TypeOK WholeBodies  LocalOnPurpose  ReadBack
