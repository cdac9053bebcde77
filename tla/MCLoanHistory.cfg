SPECIFICATION HSpec
CONSTANTS
  Borrowers = {alice}
  VaultId = vault
  Vaults = {vault}
  SECONDS_PER_DAY = 2
  WAD = 1000
  I128_MAX = 220000
  Tenors = {3}
  RiskProfiles <- MCRiskProfiles
  OfferTerms <- MCOfferTerms
  LateRates = {170, 300000}
  GracePeriods = {2}
  MinHoldDays = {4}
  Principals = {9, 40}
  Payments = {9, 40, 60}
  Timestamps = {2, 4, 6, 7, 9, 10, 40}
INVARIANTS
  LMTypeOK
  LoanOK
  InterestTelescopes
  InstalmentsCostAtMostRounding
PROPERTIES
  ChargesNeverRewind
  AccrualIsSilent
  NoCreditAfterDefault
CHECK_DEADLOCK FALSE
