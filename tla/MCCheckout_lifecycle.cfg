SPECIFICATION Spec
CONSTANTS
  alice = alice
  bob = bob
  Accounts = {alice, bob}
  Nobody = Nobody
  Vault = Vault
  RefundOperators = {bob}
  OrderKeys = {k1}
  BPS = 4
  MaxFeeBps = 2
  MaxIntentValidity = 1
  MaxQuantity = 1
  Metadata = {h1}
  NoMetadata = NoMetadata
  ProductTerms <- LifecycleTerms
  Quantities = {1}
  FeeRates = {2}
  Validities = {1}
  MaxMerchants = 1
  MaxProducts = 1
  MaxVersion = 2
  MaxIntents = 1
  MaxTime = 3
  MaxDonation = 1
  InitialUsdc = 3
INVARIANTS AlwaysAWayOut
CHECK_DEADLOCK FALSE
