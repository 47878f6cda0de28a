SPECIFICATION Spec
CONSTANTS
  Free = Free
  None = None
  o1 = o1
  o2 = o2
  Objects = {o1, o2}
  Requests = {r1, r2, r3}
  Jobs <- AllJobs
  MaxSize = 2
  Limit = 3
  Faults = TRUE
  MaxCrashes = 1
SYMMETRY Symmetry
INVARIANTS TypeOK NeverUnderbilled
PROPERTY LimitHolds
