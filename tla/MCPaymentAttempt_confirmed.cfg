SPECIFICATION FairSpec
CONSTANTS
  Tabs = {t1}
  Workers = {w1}
  MaxDeliveries = 2
  MaxReorgs = 2
  MaxFaults = 1
  MaxLate = 0
CHECK_DEADLOCK FALSE
PROPERTIES EventuallyConfirmed
