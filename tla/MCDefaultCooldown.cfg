SPECIFICATION HSpec
CONSTANTS
  Borrowers = {alice}
  VaultId = vault
  Vaults = {vault}
  SECONDS_PER_DAY = 2
  WAD = 1000
  I128_MAX = 220000
  Tenors = {3}
  RiskProfiles <- MCRiskProfiles
  OfferTerms <- MCOfferTerms
  LateRates = {}
  GracePeriods = {}
  MinHoldDays = {}
  Principals = {9}
  Payments = {60}
  Timestamps = {40}
PROPERTY DefaultCooldownHolds
CHECK_DEADLOCK FALSE
