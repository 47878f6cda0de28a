SPECIFICATION Spec
CONSTANTS
  Free = Free
  None = None
  o1 = o1
  o2 = o2
  Objects = {o1}
  Requests = {r1, r2}
  Jobs <- MixedJobs
  MaxSize = 2
  Limit = 2
  Faults = FALSE
  MaxCrashes = 0
SYMMETRY Symmetry
PROPERTY StaleBlobOnly
