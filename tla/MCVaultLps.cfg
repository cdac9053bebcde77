SPECIFICATION Spec
CONSTANTS
  lp = lp
  bob = bob
  carol = carol
  Borrowers = {bob}
  Accounts = {lp, bob}
  VaultId = vault
  Vaults = {vault, other}
  SECONDS_PER_DAY = 1
  WAD = 100
  I128_MAX = 1000000
  Tenors = {3}
  RiskProfiles <- MCRiskProfiles
  OfferTerms <- MCOfferTerms
  LateRates = {0}
  GracePeriods = {1}
  MinHoldDays = {4}
  Principals = {40}
  Payments = {25}
  Timestamps = {21}
  Lps = {lp}
  Beneficiaries = {bob, vault}
  Payers = {bob}
  Funds <- MCFundsLps
  Deposits = {50}
  Redemptions = {30}
  WriteOffs = {30}
  Gifts = {10}
  FeeRecipients = {lp}
INVARIANTS
  SharesBacked
  Solvent
PROPERTIES
  PriceNeverFalls
  PoolPromise
CHECK_DEADLOCK FALSE
