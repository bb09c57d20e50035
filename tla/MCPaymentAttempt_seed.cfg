SPECIFICATION Spec
CONSTANTS
  Tabs = {t1}
  Workers = {w1}
  MaxDeliveries = 3
  MaxReorgs = 0
  MaxFaults = 0
  MaxLate = 0
CHECK_DEADLOCK FALSE
INVARIANTS Recoverable
