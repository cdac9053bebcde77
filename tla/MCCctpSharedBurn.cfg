SPECIFICATION Spec
CONSTANTS
  Transfers = {t1, t2}
  BurnTxs = {b1, b2}
  Amount <- MCAmount
  Float = 15
  OtherRelayers = FALSE
  MaxAborts = 1
  None = None
CHECK_DEADLOCK FALSE
INVARIANT OneReadyMessageIsEnough
