SPECIFICATION Spec
CONSTANTS
  Workers = {w1, w2}
  NoWorker = NoWorker
  Transactions = {t1}
  Empty = Empty
  StartBlock = 1
  ConfirmationDepth = 2
  ReorgWindow = 2
  MaxBlockRange = 2
  MaxHeight = 4
  MaxReorgs = 0
  MaxFaults = 1
  ForksReturn = FALSE
  ReorgsDuringScans = FALSE
INVARIANTS AppliedIsHistory
PROPERTIES NeverBackwards
