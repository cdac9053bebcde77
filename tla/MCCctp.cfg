SPECIFICATION Spec
CONSTANTS
  Transfers = {t1, t2}
  BurnTxs = {b1, b2}
  Amount <- MCAmount
  Float = 15
  OtherRelayers = TRUE
  MaxAborts = 2
  None = None
INVARIANTS CctpTypeOK DeliveredMeansMinted SecondDepositOnlyInWindow RelayerKeepsItsFloat FailedMeansMisbuilt
PROPERTIES DeliverClosesTheDebt Settles
CHECK_DEADLOCK FALSE
