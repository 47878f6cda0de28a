SPECIFICATION Spec
CONSTANTS
  None = None
  MaxDay = 3
  DaysPerMonth = 2
  FlushAt = 2
  MaxServed = 2
  MaxGauge = 1
  Levels = {1}
  Budgets <- MCBudgets
CHECK_DEADLOCK FALSE
INVARIANTS TypeOK EgressExact BilledOnce EgressBilled ReportedInTime CapAlertOnce
