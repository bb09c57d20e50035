SPECIFICATION Spec
CONSTANTS
  x = x
  y = y
  r = r
  d1 = d1
  d2 = d2
  h1 = h1
  h2 = h2
  Invitations = {x, y}
  Amount <- MCAmount
  Digests = {d1, d2}
  NoDigest = NoDigest
  Hashes = {h1, h2}
  NoHash = NoHash
  Reports = {"submitted"}
  Requests = {r}
  MaxOperations = 1
  MaxRevocations = 2
  MaxFaults = 1
  MaxLag = 1
INVARIANTS ConfirmedIsHistory NothingRefused
PROPERTIES RevokedStopsPayments
SYMMETRY AnyOrder
CHECK_DEADLOCK FALSE
