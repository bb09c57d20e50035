SPECIFICATION FairSpec
CONSTANTS
  Workers = {w1}
  NoWorker = NoWorker
  Transactions = {t1}
  Empty = Empty
  StartBlock = 1
  ConfirmationDepth = 1
  ReorgWindow = 2
  MaxBlockRange = 3
  MaxHeight = 5
  MaxReorgs = 2
  MaxFaults = 1
  ForksReturn = FALSE
  ReorgsDuringScans = FALSE
INVARIANTS TypeOK NeverStuck
PROPERTIES ImplementsFeed EventuallyCaughtUp
