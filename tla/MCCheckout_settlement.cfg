SPECIFICATION StockedSpec
CONSTANTS
  alice = alice
  bob = bob
  Accounts = {alice, bob}
  Nobody = Nobody
  Vault = Vault
  RefundOperators = {}
  OrderKeys = {k1, k2}
  BPS = 10
  MaxFeeBps = 5
  MaxIntentValidity = 1
  MaxQuantity = 2
  Metadata = {h1}
  NoMetadata = NoMetadata
  ProductTerms <- StockedTerms
  Quantities = {1, 2}
  FeeRates = {3}
  Validities = {0}
  MaxMerchants = 2
  MaxProducts = 2
  MaxVersion = 1
  MaxIntents = 2
  MaxTime = 2
  MaxDonation = 1
  InitialUsdc = 8
SYMMETRY Symmetry
INVARIANTS TypeOK Solvent Conservation RefundSplitExact PassesAndPoints LimitsKept
PROPERTIES OrdersOnlyMature ImplementsEscrow
CHECK_DEADLOCK FALSE
