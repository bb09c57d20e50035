SPECIFICATION Spec
CONSTANTS
  Tabs = {t1}
  Workers = {w1, w2}
  MaxDeliveries = 2
  MaxReorgs = 1
  MaxFaults = 1
  MaxLate = 1
CHECK_DEADLOCK FALSE
SYMMETRY Symmetry
INVARIANTS TypeOK PaidIsCanonical SubmissionIsKnown UnconfirmedIsListed
