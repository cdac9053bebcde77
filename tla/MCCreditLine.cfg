SPECIFICATION CreditSpec
CONSTANTS
  NoTask = NoTask
  MaxRepayments = 2
INVARIANTS CreditTypeOK CreditIsEarned
PROPERTIES OnlyOvertakenWritersLoseUpdates  RenewalRepairsTheChain
CHECK_DEADLOCK FALSE
