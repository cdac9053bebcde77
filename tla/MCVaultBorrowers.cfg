SPECIFICATION Spec
CONSTANTS
  lp = lp
  bob = bob
  carol = carol
  Borrowers = {bob, carol}
  Accounts = {lp, bob, carol}
  VaultId = vault
  Vaults = {vault}
  SECONDS_PER_DAY = 1
  WAD = 100
  I128_MAX = 1000000
  Tenors = {3}
  RiskProfiles <- MCRiskProfiles
  OfferTerms <- MCOfferTerms
  LateRates = {0}
  GracePeriods = {1}
  MinHoldDays = {4}
  Principals = {40}
  Payments = {20}
  Timestamps = {21}
  Lps = {lp}
  Beneficiaries = {vault}
  Payers = {bob, carol}
  Funds <- MCFundsBorrowers
  Deposits = {90}
  Redemptions = {}
  WriteOffs = {15}
  Gifts = {}
  FeeRecipients = {lp}
INVARIANTS
  TypeOK
  WriteOffWithinDefault
  BorrowsBacked
CHECK_DEADLOCK FALSE
