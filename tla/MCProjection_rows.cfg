SPECIFICATION Spec
CONSTANTS
  o1 = o1
  o2 = o2
  NoTx = NoTx
  Orders = {o1, o2}
  Price <- MCPrice
  Fee <- MCFee
  Points <- MCPoints
  FinalSale = {o2}
  Refunds = {1, 2}
  Withdrawals = {11, 12}
  OrderOf <- MCOrderOf
  Amount <- MCAmount
  Direct = {2}
  CandidateLimit = 4
  CreditLimit = 4
  MaxReorgs = 1
  MaxLag = 2
INVARIANTS TypeOK ProjectionIsHistory WithdrawnIsHistory NothingRefused ConfirmedByTheChain ExecutedIsConfirmed PromisesCovered RewindPossible
CHECK_DEADLOCK FALSE
