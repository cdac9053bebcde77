----------------------------- MODULE MCLoanHistory -----------------------------
(* One borrower, whose loans never meet those of another in this contract. *)
(* A day is two seconds, so that calls fall within, at and between days;   *)
(* amounts and fees are chosen so that daily interest rounds.              *)
EXTENDS LoanHistory

MCRiskProfiles == {[kyc_ok |-> TRUE, valid_until |-> 0, limit |-> 40]}
MCOfferTerms ==
  {[tenor_days |-> 3, fee_bps |-> 900, valid_until |-> 8, max_amount |-> 40],
   [tenor_days |-> 3, fee_bps |-> 300, valid_until |-> 100, max_amount |-> 40]}
================================================================================
