SPECIFICATION Spec
CONSTANTS
  r1 = r1
  r2 = r2
  w1 = w1
  w2 = w2
  k1 = k1
  f1 = f1
  f2 = f2
  Recipients = {r1}
  Workers = {w1, w2}
  Keys = {k1}
  Fees = {f1, f2}
  Nobody = Nobody
  NoTx = NoTx
  Outside = Outside
  TargetWei = 3
  CapWei = 2
  MinimumWei = 1
  DailyCapWei = 2
  MaxCandidates = 2
  ConfirmationDepth = 1
  Batch = 1
  MaxBlocks = 3
  MaxReorgs = 1
  MaxFaults = 2
INVARIANTS TypeOK FundedOnce Charged SentIsRecorded GivenUpIsUnsent ConfirmedIsPaid
PROPERTIES CompletedKept
SYMMETRY Alike
CHECK_DEADLOCK FALSE
