SPECIFICATION Spec
CONSTANTS
  None = None
  Requests = {q1, q2, q3}
  Jobs <- AllJobs
  MaxRows = 3
  DefaultDays = 1
  MaxClock = 1
  MaxEdits = 2
SYMMETRY Symmetry
CHECK_DEADLOCK FALSE
INVARIANTS TypeOK SomeLatest LastWriteLatest
 
