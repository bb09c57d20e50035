SPECIFICATION FairSpec
CONSTANTS
  r1 = r1
  r2 = r2
  w1 = w1
  w2 = w2
  k1 = k1
  f1 = f1
  f2 = f2
  Recipients = {r1, r2}
  Workers = {w1}
  Keys = {k1}
  Fees = {f1, f2}
  Nobody = Nobody
  NoTx = NoTx
  Outside = Outside
  TargetWei = 3
  CapWei = 2
  MinimumWei = 1
  DailyCapWei = 4
  MaxCandidates = 1
  ConfirmationDepth = 2
  Batch = 2
  MaxBlocks = 3
  MaxReorgs = 0
  MaxFaults = 1
INVARIANTS NoncePerGrant
PROPERTIES OutcomeProven
CHECK_DEADLOCK FALSE
