SPECIFICATION SignUpSpec
CONSTANTS
  Requests = {r1, r2}
  Codes = {1, 2}
  OTP_MAX_ATTEMPTS = 2
INVARIANTS SignUpTypeOK
PROPERTIES TermsLostOnlyToOverlap  SignUpCompletes
